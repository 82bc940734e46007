CONSTANTS
  a = a  b = b  p1 = p1  p2 = p2  p3 = p3  empty = empty  text = text
  Absent = Absent  NoTask = NoTask  Miss = Miss  ListKey = ListKey
  EmptyTitle = empty  Titles <- TwoTitles
  Ids <- TwoIds  Handlers <- TwoHandlers  Patches <- OnePatch
  TaskTTL = 0  Faults <- NoFaults  Exclusive = FALSE
  MaxCommits = 3  MaxLate = 0
SPECIFICATION SpecOnKeyspace
SYMMETRY Symmetry
INVARIANTS TypeOK CacheHoldsCommitted RepliesTrue
PROPERTIES DeletedStayDeleted ImplementsTaskStore

CONSTANTS
  a = a  b = b  p1 = p1  p2 = p2  p3 = p3  empty = empty  text = text
  Absent = Absent  NoTask = NoTask  Miss = Miss  ListKey = ListKey
  EmptyTitle = empty  Titles <- TwoTitles
  Ids <- OneId  Handlers <- TwoHandlers  Patches <- CompletedPatch
  TaskTTL = 300  Faults <- AllFaults  Exclusive = FALSE
  MaxCommits = 3  MaxLate = 1
SPECIFICATION FairSpec
INVARIANTS RepliesTrue
PROPERTIES ImplementsTaskStore EventuallyCoherent CoherenceLasts OnlyOldCopiesLoseFields

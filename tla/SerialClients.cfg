CONSTANTS
  a = a  b = b  p1 = p1  p2 = p2  p3 = p3  empty = empty  text = text
  Absent = Absent  NoTask = NoTask  Miss = Miss  ListKey = ListKey
  EmptyTitle = empty  Titles <- TwoTitles
  Ids <- TwoIds  Handlers <- ThreeHandlers  Patches <- FieldPatches
  TaskTTL = 300  Faults <- NoFaults  Exclusive = TRUE
  MaxCommits = 3  MaxLate = 0
SPECIFICATION Spec
SYMMETRY Symmetry
INVARIANTS SerialClientsCoherent SerialReadsFresh
PROPERTIES UnnamedFieldsKept

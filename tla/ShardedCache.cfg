CONSTANTS
  s0 = s0  s1 = s1  task = task  v1 = v1  v2 = v2
  ListKey = ListKey  Miss = Miss
  Servers <- TwoServers  Keys <- TwoKeys  Values <- TwoValues
  Hash <- TwoHashes  Blank = Blank  Environments <- SomeEnvironments
  TaskTTL = 300  MaxLate = 1
SPECIFICATION FairSpec
INVARIANT TypeOK
PROPERTIES ImplementsKeyspace ValuesVanish

CONSTANTS
  a = a  b = b  p1 = p1  p2 = p2
  Ids <- TwoIds  Handlers <- TwoHandlers
  NoRow = NoRow  NoStatement = NoStatement
  MaxSkew = 1  MaxTime = 2  MaxOrphans = 1
SPECIFICATION Spec
SYMMETRY Symmetry
INVARIANTS TypeOK SerialUpdatesOrdered SerialCreatesOrdered

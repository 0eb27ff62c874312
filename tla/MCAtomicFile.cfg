\* Three processes, four openings of the temporary file.
CONSTANTS
  w1 = w1
  w2 = w2
  w3 = w3
  Writers = {w1, w2, w3}
  Pieces <- MCPieces
  MaxAttempts = 4
SPECIFICATION Spec
INVARIANTS
  TypeOK
  UndisturbedIsWhole
  NothingLeft
SYMMETRY Symmetry
CHECK_DEADLOCK FALSE

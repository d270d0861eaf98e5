CONSTANTS
  Members = {1, 2, 3}
  GroupOf <- MCGroupOf
  N = 2
  V = 1
  Docs = {1}
  MaxMoves = 1
  MaxRounds = 2
  MaxElections = 1
  MaxRestarts = 2
SPECIFICATION Spec
INVARIANTS RightSlice
PROPERTIES Settles
CHECK_DEADLOCK FALSE

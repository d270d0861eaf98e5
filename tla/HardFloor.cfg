\* Two of four voters are drained at once.
CONSTANTS
  Size = 4
  InitialVoters = {1, 2, 3, 4}
  MaxDrains = 2
  MaxFaults = 0
SPECIFICATION Spec
PROPERTIES HardFloor
CHECK_DEADLOCK FALSE

\* A group of three with one node to join: one drained voter can be replaced,
\* two drained at once meet the floor.
CONSTANTS
  Size = 4
  InitialVoters = {1, 2, 3}
  MaxDrains = 2
  MaxFaults = 1
  Founders = {11, 12, 13}
  Joiners = {20}
  Coordinators = {c1, c2}
  MaxRestarts = 1
SPECIFICATION MembershipSpec
INVARIANTS OneGroup
PROPERTIES Floor OnlyDrainedLeave Converges GroupForms
CHECK_DEADLOCK FALSE

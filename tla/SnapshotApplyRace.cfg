\* The first entry is the initial membership.
CONSTANTS
  MaxLog = 2
  Memberships = {1}
  MaxRestarts = 1
SPECIFICATION SnapshotSpec
INVARIANTS NothingLost
CHECK_DEADLOCK FALSE

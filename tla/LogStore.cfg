\* Segments of two or three records: rotation, checkpoints and the unlinking
\* of segments all happen within six records.
CONSTANTS
  MaxIndex = 3
  MaxTerm = 2
  MaxBatch = 2
  SegMin = 2
  SegMax = 3
  MaxPos = 6
  MaxVoteTerm = 3
  Candidates = {c1, c2, c3}
  MaxLog = 3
  Memberships = {2}
  MaxRestarts = 1
SPECIFICATION StoreSpec
INVARIANTS NoLoss ReplayExact OneVotePerTerm CacheIsFile
  QuietStateMatchesLog SnapshotsExact PurgeCovered
PROPERTIES NewestKept
CHECK_DEADLOCK FALSE

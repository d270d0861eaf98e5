CONSTANTS
  Feed = {d1, d2}
  Owned = {d1}
  Followers = {f1, f2}
  MaxPolls = 4
  Inbox = 1
  Outbox = 1
SPECIFICATION PipelineSpec
INVARIANTS CatchesUp
PROPERTIES NeverBack DataPlaneMoves
CHECK_DEADLOCK FALSE

CONSTANTS
  Feed = {d1}
  Owned = {d1}
  Followers = {f1}
  MaxPolls = 5
  Inbox = 1
  Outbox = 1
SPECIFICATION PipelineSpec
PROPERTIES NeverStalls
CHECK_DEADLOCK FALSE

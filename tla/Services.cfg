\* Static roles and raft reports mixed: every kind of registration a
\* coordinator accepts, on two shards.
CONSTANTS
  Nodes = {n1, n2}
  N = 2
  Timeout = 1
  Roles = {"Leader", "Follower", "Unspecified"}
  MaxFollowers = 3
  Questions = 2
  max_tool_calls = 2
  Recipients = 3
  Allowed = {1, 3}
  MaxLookalikes = 1
  Namespaces = {ns1, ns2}
  Writers = {w1, w2}
  Quota = 2
  Ttls = {0, 1, 5}
  Milli = 2
  Width = 8
  MaxClock = 4
  MaxEntries = 3
  ShardCount = 1
  MaxAdds = 2
SPECIFICATION ServicesSpec
INVARIANTS NeverForgotten BriefingHonest MemoryGoverned NoOrphans
PROPERTIES LiveLeaderKept FailoverComplete DrainSticky
SYMMETRY ServicesSymmetry
CONSTRAINT FewFollowers
CHECK_DEADLOCK FALSE

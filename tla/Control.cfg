CONSTANTS
  Replicas = {r1, r2, r3}
  Nodes = {n1}
  N = 2
  V = 2
  MaxLog = 2
  MaxElections = 1
  Active = {r1, r2}
  Guarded = {r1, r2}
SPECIFICATION CallsSpec
INVARIANTS AuthorityIsLog CallHonest
PROPERTIES IntentKept CallEnds

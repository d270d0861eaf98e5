----------------------------- MODULE Placement -----------------------------
(***************************************************************************)
(* Moving virtual shards between shard groups while they ingest: the live  *)
(* table view, ownership, leader ingestion and the eviction watcher        *)
(* (crates/shard-node/src/ingest.rs, raft/bootstrap.rs, raft/eviction.rs,  *)
(* raft/mod.rs ShardApp, store.rs and the placement part of main.rs).      *)
(*                                                                         *)
(* A document is its hash, and its content is the round of the feed that   *)
(* observed it.  External: the coordinators, as the sequence of committed  *)
(* tables and how far the slowest of them is; the group's raft log, which  *)
(* takes writes of its current leader only and applies them in order.      *)
(***************************************************************************)
EXTENDS Integers, Sequences, SequencesExt

CONSTANTS
  Members,       \* shard-node processes, by raft id
  GroupOf,       \* member -> its group
  N,             \* number of groups
  V,             \* number of virtual shards
  Docs,          \* documents, as hashes
  MaxMoves,      \* bound: reassignments
  MaxRounds,     \* bound: rounds of the feed
  MaxElections,  \* bound: changes of leadership
  MaxRestarts    \* bound: process restarts

ASSUME NAssumption == N \in Nat \ {0}
ASSUME VAssumption == V \in Nat \ {0}
ASSUME MembersAssumption == Members \subseteq Nat \ {0}
ASSUME GroupAssumption == GroupOf \in [Members -> 0 .. N - 1]
ASSUME DocsAssumption == Docs \subseteq Nat

Groups == 0 .. N - 1
VShards == 0 .. V - 1

NoMember == 0
Modulo == 0        \* a view: position in `tables`, or the fixed fallback
NoBatch == [docs |-> {}, round |-> 0]

VARIABLES
  tables,     \* committed placement tables, newest last
  slowest,    \* position every coordinator has reached
  view,       \* member -> position of the table it holds, or Modulo
  leader,     \* group -> elected leader, or NoMember
  held,       \* group -> document -> round it was observed in, 0 if absent
  round,      \* current round of the feed
  batch,      \* member -> batch its ingestion task is about to write
  doomed,     \* member -> vshards its watcher is about to evict
  fellback,   \* groups that had a member without a table (history)
  elections, restarts

bounds == <<fellback, elections, restarts>>

vars == <<tables, slowest, view, leader, held, round, batch, doomed, bounds>>

RoundRobin == [v \in VShards |-> v % N]

TypeOK ==
  /\ tables \in Seq([VShards -> Groups]) /\ Len(tables) > 0
  /\ slowest \in 1 .. Len(tables)
  /\ view \in [Members -> 0 .. Len(tables)]
  /\ leader \in [Groups -> Members \cup {NoMember}]
  /\ \A g \in Groups : leader[g] = NoMember \/ GroupOf[leader[g]] = g
  /\ held \in [Groups -> [Docs -> 0 .. round]]
  /\ batch \in [Members -> [docs : SUBSET Docs, round : 0 .. round]]
  /\ doomed \in [Members -> SUBSET VShards]
  /\ fellback \subseteq Groups
  /\ round \in Nat /\ elections \in Nat /\ restarts \in Nat

Init ==
  /\ tables = <<RoundRobin>> /\ slowest = 1
  /\ view = [m \in Members |-> 1]
  /\ leader = [g \in Groups |-> NoMember]
  /\ held = [g \in Groups |-> [d \in Docs |-> 0]]
  /\ round = 1
  /\ batch = [m \in Members |-> NoBatch]
  /\ doomed = [m \in Members |-> {}]
  /\ fellback = {} /\ elections = 0 /\ restarts = 0

vshard_for(d) == d % V
shard_for(d) == d % N

\* Mutant: the table is not consulted.
Owns_Modulo(m, d) == shard_for(d) = GroupOf[m]

\* Mutant: the table of the start is used for ever.
Owns_FirstTable(m, d) == tables[1][vshard_for(d)] = GroupOf[m]

\* Ownership::owns
Owns(m, d) ==
  IF view[m] = Modulo THEN shard_for(d) = GroupOf[m]
  ELSE tables[view[m]][vshard_for(d)] = GroupOf[m]

Leads(m) == leader[GroupOf[m]] = m

\* ShardApp::apply, of a committed batch and of a committed eviction
Indexed(g, b) ==
  [held EXCEPT ![g] = [d \in Docs |-> IF d \in b.docs THEN b.round ELSE @[d]]]

Evicted(g, v) ==
  [held EXCEPT ![g] = [d \in Docs |-> IF vshard_for(d) = v THEN 0 ELSE @[d]]]

-----------------------------------------------------------------------------
(* Around the members: the operator, the coordinators, the feed, elections           *)

Reassign(v, g) ==
  /\ Len(tables) <= MaxMoves
  /\ Last(tables)[v] # g
  /\ tables' = Append(tables, [Last(tables) EXCEPT ![v] = g])
  /\ UNCHANGED <<slowest, view, leader, held, round, batch, doomed, bounds>>

CatchUp ==
  /\ slowest < Len(tables)
  /\ slowest' = slowest + 1
  /\ UNCHANGED <<tables, view, leader, held, round, batch, doomed, bounds>>

Observe ==
  /\ round < MaxRounds
  /\ round' = round + 1
  /\ UNCHANGED <<tables, slowest, view, leader, held, batch, doomed, bounds>>

Elect(m) ==
  /\ ~Leads(m)
  /\ leader[GroupOf[m]] = NoMember \/ elections < MaxElections
  /\ elections' = IF leader[GroupOf[m]] = NoMember THEN elections ELSE elections + 1
  /\ leader' = [leader EXCEPT ![GroupOf[m]] = m]
  /\ UNCHANGED <<tables, slowest, view, held, round, batch, doomed, fellback, restarts>>

-----------------------------------------------------------------------------
(* Member m                                                                *)

\* run_vshard_view: any coordinator may answer; a failed fetch keeps the view.
run_vshard_view(m) ==
  /\ view[m] # Modulo
  /\ \E i \in slowest .. Len(tables) : i # view[m] /\ view' = [view EXCEPT ![m] = i]
  /\ UNCHANGED <<tables, slowest, leader, held, round, batch, doomed, bounds>>

\* run_leader_ingestion: fetch, and filter by the view of that moment
Fetch(m) ==
  /\ Leads(m) /\ batch[m] = NoBatch
  /\ LET mine == {d \in Docs : Owns(m, d)}
     IN mine # {} /\ batch' = [batch EXCEPT ![m] = [docs |-> mine, round |-> round]]
  /\ UNCHANGED <<tables, slowest, view, leader, held, round, doomed, bounds>>

\* ... and write it through the log; a refused batch is dropped.
Write(m) ==
  /\ batch[m] # NoBatch
  /\ batch' = [batch EXCEPT ![m] = NoBatch]
  /\ held' = IF Leads(m) THEN Indexed(GroupOf[m], batch[m]) ELSE held
  /\ UNCHANGED <<tables, slowest, view, leader, round, doomed, bounds>>

\* The vshards a tick of the watcher finds held and not owned
Misplaced(m) ==
  {vshard_for(d) : d \in {e \in Docs : held[GroupOf[m]][e] # 0 /\ ~Owns(m, e)}}

\* run_eviction_watcher: runs only where the table was found at startup
WatcherTick(m) ==
  /\ view[m] # Modulo /\ Leads(m) /\ doomed[m] = {}
  /\ Misplaced(m) # {}
  /\ doomed' = [doomed EXCEPT ![m] = Misplaced(m)]
  /\ UNCHANGED <<tables, slowest, view, leader, held, round, batch, bounds>>

\* ... proposes one eviction at a time; a refusal ends the tick.
Evict(m, v) ==
  /\ v \in doomed[m] /\ \A w \in doomed[m] : v <= w
  /\ IF Leads(m)
     THEN /\ held' = Evicted(GroupOf[m], v)
          /\ doomed' = [doomed EXCEPT ![m] = @ \ {v}]
     ELSE held' = held /\ doomed' = [doomed EXCEPT ![m] = {}]
  /\ UNCHANGED <<tables, slowest, view, leader, round, batch, bounds>>

\* main: a starting node asks for the table; after 10 attempts without an
\* answer it keeps the fixed hash % N slice for as long as it runs.  The
\* group's log keeps the documents.
Restart(m) ==
  /\ restarts < MaxRestarts /\ restarts' = restarts + 1
  /\ batch' = [batch EXCEPT ![m] = NoBatch]
  /\ doomed' = [doomed EXCEPT ![m] = {}]
  /\ leader' = [leader EXCEPT ![GroupOf[m]] = IF Leads(m) THEN NoMember ELSE @]
  /\ \/ /\ \E i \in slowest .. Len(tables) : view' = [view EXCEPT ![m] = i]
        /\ UNCHANGED fellback
     \/ /\ view' = [view EXCEPT ![m] = Modulo]
        /\ fellback' = fellback \cup {GroupOf[m]}
  /\ UNCHANGED <<tables, slowest, held, round, elections>>

-----------------------------------------------------------------------------
Surroundings == CatchUp \/ Observe \/ \E v \in VShards, g \in Groups : Reassign(v, g)

Task(m) ==
  \/ run_vshard_view(m) \/ Fetch(m) \/ Write(m)
  \/ WatcherTick(m) \/ \E v \in VShards : Evict(m, v)

Next == Surroundings \/ \E m \in Members : Elect(m) \/ Task(m) \/ Restart(m)

\* Coordinators apply what was committed, a group without a leader elects
\* one (openraft), and every task loops for ever on its own timer.
Fairness ==
  /\ WF_vars(CatchUp)
  /\ \A g \in Groups :
       WF_vars(leader[g] = NoMember /\ \E m \in Members : GroupOf[m] = g /\ Elect(m))
  /\ \A m \in Members :
       /\ WF_vars(slowest = Len(tables) /\ run_vshard_view(m))
       /\ WF_vars(Fetch(m)) /\ WF_vars(Write(m)) /\ WF_vars(WatcherTick(m))
       /\ WF_vars(\E v \in VShards : Evict(m, v))

Spec == Init /\ [][Next]_vars /\ Fairness

-----------------------------------------------------------------------------
\* A group holds a document only if some committed table gave it the
\* document's virtual shard: stale views and late batches may bring back a
\* slice it once owned, never one it did not (Ownership::owns: "briefly
\* ingesting nothing is safe; ingesting the wrong slice is not").  A group
\* with a member that found no coordinator at startup is exempt: it takes the
\* hash % N slice although the cluster runs virtual shards.
RightSlice ==
  \A g \in Groups \ fellback, d \in Docs :
    held[g][d] # 0 => \E i \in 1 .. Len(tables) : tables[i][vshard_for(d)] = g

\* When the operator, the feed and the elections come to rest, every document
\* is held by the group the table names, as last observed, and by no other
\* ("so stale copies don't linger forever after a move"), also after a slice
\* taken without a table, once every member runs with one.
Settles ==
  <>[](\/ \E m \in Members : view[m] = Modulo
       \/ \A d \in Docs, g \in Groups :
            held[g][d] = IF Last(tables)[vshard_for(d)] = g THEN round ELSE 0)
=============================================================================

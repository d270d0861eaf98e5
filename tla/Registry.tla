------------------------------ MODULE Registry ------------------------------
(***************************************************************************)
(* The coordinator's shard map (crates/coordinator/src/registry.rs) as it  *)
(* is driven by the gRPC handlers of service.rs and by the reaper task of  *)
(* main.rs.  Every handler and the reaper pass hold the registry's write   *)
(* lock from beginning to end, so each of them is one action.  The drain   *)
(* markers are those of a coordinator that owns them; module Control has   *)
(* the replicated ones, which reaping leaves alone.                        *)
(*                                                                         *)
(* An Instant is abstracted to its age, `now - last_seen`, saturated just  *)
(* above the timeout: the code only ever compares an age with the timeout. *)
(* The address of a node is its identity.                                  *)
(***************************************************************************)
EXTENDS Integers, FiniteSets

CONSTANTS
  Nodes,          \* node identities
  N,              \* shard_count
  Timeout,        \* liveness_timeout, in ticks; the reaper uses the same value
  Roles           \* the roles nodes register with

ASSUME NodesAssumption == IsFiniteSet(Nodes)
ASSUME NAssumption == N \in Nat \ {0}
ASSUME TimeoutAssumption == Timeout \in Nat
ASSUME RolesAssumption == Roles \subseteq {"Leader", "Follower", "Unspecified"}

VARIABLES
  leaders,    \* HashMap<u32, NodeInfo>: at most one entry per shard
  followers,  \* HashMap<u32, Vec<NodeInfo>>: entries carry their Vec index
  draining,   \* HashSet<String>
  heard       \* history: age of the last contact that the registry accepted

vars == <<leaders, followers, draining, heard>>

Shards == 0 .. N - 1
Ages == 0 .. Timeout + 1
LeaderEntry == [shard : Shards, node : Nodes, age : Ages]
FollowerEntry == [shard : Shards, idx : Nat, node : Nodes, age : Ages]

TypeOK ==
  /\ leaders \subseteq LeaderEntry
  /\ followers \subseteq FollowerEntry
  /\ IsFiniteSet(followers)
  /\ \A a, b \in leaders : a.shard = b.shard => a = b
  /\ draining \subseteq Nodes
  /\ heard \in [Nodes -> Ages]

Init ==
  /\ leaders = {}
  /\ followers = {}
  /\ draining = {}
  /\ heard = [n \in Nodes |-> Timeout + 1]

-----------------------------------------------------------------------------
Live(e) == e.age <= Timeout

AsLeader(e) == [shard |-> e.shard, node |-> e.node, age |-> e.age]

InShard(S, s) == {e \in S : e.shard = s}

\* Vec::remove shifts the entries behind the removed one.
Reindex(S) ==
  {[e EXCEPT !.idx = Cardinality({f \in InShard(S, e.shard) : f.idx < e.idx})]
     : e \in S}

\* Vec::push of a leader-shaped entry.
Pushed(S, e) ==
  S \cup {[shard |-> e.shard, idx |-> Cardinality(InShard(S, e.shard)),
           node |-> e.node, age |-> e.age]}

\* The entry that `iter().position(|n| n.node_id == node_id)` finds in the
\* Vec of some shard.  The order of shards in the HashMap is arbitrary.
FirstFollowers(n) ==
  {e \in followers :
     /\ e.node = n
     /\ \A f \in followers : f.shard = e.shard /\ f.node = n => e.idx <= f.idx}

LedBy(n) == {e \in leaders : e.node = n}

Fresh(S, e) == (S \ {e}) \cup {[e EXCEPT !.age = 0]}

EntriesOf(n) == {e \in leaders \cup followers : e.node = n}

knows_node(n) == EntriesOf(n) # {}

-----------------------------------------------------------------------------
(* register_node                                                           *)

\* Mutant: liveness of the incumbent tested the wrong way round.
LiveIncumbent_Dead(n, s) == \E e \in leaders : e.shard = s /\ ~Live(e) /\ e.node # n

\* A different node may not take a shard whose leader is still live.
LiveIncumbent(n, s) == \E e \in leaders : e.shard = s /\ Live(e) /\ e.node # n

RegisterRejected(n, s, role) ==
  /\ \/ s \notin Shards
     \/ role = "Leader" /\ LiveIncumbent(n, s)
     \/ role = "Unspecified"
  /\ UNCHANGED vars

RegisterLeader(n, s) ==
  /\ "Leader" \in Roles
  /\ ~LiveIncumbent(n, s)
  /\ leaders' = (leaders \ InShard(leaders, s))
                  \cup {[shard |-> s, node |-> n, age |-> 0]}
  /\ heard' = [heard EXCEPT ![n] = 0]
  /\ UNCHANGED <<followers, draining>>

RegisterFollower(n, s) ==
  /\ "Follower" \in Roles
  /\ \/ \E e \in FirstFollowers(n) :
          /\ e.shard = s
          /\ followers' = Fresh(followers, e)
     \/ /\ \A e \in followers : ~(e.shard = s /\ e.node = n)
        /\ followers' = Pushed(followers, [shard |-> s, node |-> n, age |-> 0])
  /\ heard' = [heard EXCEPT ![n] = 0]
  /\ UNCHANGED <<leaders, draining>>

-----------------------------------------------------------------------------
(* heartbeat: the liveness refresh, then report_raft_leader if the node    *)
(* says that it leads its raft group                                       *)

HeartbeatUnknown(n) == ~knows_node(n) /\ UNCHANGED vars

\* Leader entries are searched first, and only the first entry is refreshed.
HeartbeatOfLeader(n) ==
  /\ \E e \in LedBy(n) : leaders' = Fresh(leaders, e)
  /\ heard' = [heard EXCEPT ![n] = 0]
  /\ UNCHANGED <<followers, draining>>

HeartbeatOfFollower(n) ==
  /\ LedBy(n) = {}
  /\ \E e \in FirstFollowers(n) : followers' = Fresh(followers, e)
  /\ heard' = [heard EXCEPT ![n] = 0]
  /\ UNCHANGED <<leaders, draining>>

\* The entry the refresh found becomes the routed leader of its shard; the
\* previous leader is pushed to the followers, whether or not it is already
\* among them.  (A report by a routed leader is HeartbeatOfLeader.)
HeartbeatOfRaftLeader(n) ==
  /\ LedBy(n) = {}
  /\ \E e \in FirstFollowers(n) :
       LET rest == Reindex(followers \ {e})
           old == InShard(leaders, e.shard)
       IN /\ leaders' = (leaders \ old) \cup {[AsLeader(e) EXCEPT !.age = 0]}
          /\ \/ old = {} /\ followers' = rest
             \/ \E o \in old : followers' = Pushed(rest, o)
  /\ heard' = [heard EXCEPT ![n] = 0]
  /\ UNCHANGED draining

-----------------------------------------------------------------------------
(* The reaper: reap_dead, then promote_orphaned_shards, under one lock     *)

Surviving(S) == {e \in S : Live(e)}

\* Mutant: the markers of the nodes that stay are cleaned up.
DrainingAfterReap_Survivors ==
  draining \ {e.node : e \in Surviving(leaders \cup followers)}

\* A marker goes with any reaped entry of its node.
DrainingAfterReap ==
  draining \ {e.node : e \in {f \in leaders \cup followers : ~Live(f)}}

\* Vec::pop takes the entry with the highest index.
LastFollower(S) == CHOOSE e \in S : \A f \in S : f.idx <= e.idx

\* Shards that have followers and no leader, and the follower each promotes.
Orphaned(lead, foll) ==
  {s \in Shards : InShard(lead, s) = {} /\ InShard(foll, s) # {}}

Promoted(lead, foll) == {LastFollower(InShard(foll, s)) : s \in Orphaned(lead, foll)}

\* Mutant: the popped follower is not inserted as leader.
Reap_LosesPromoted ==
  LET foll == Reindex(Surviving(followers))
  IN /\ leaders' = Surviving(leaders)
     /\ followers' = foll \ Promoted(leaders', foll)
     /\ draining' = DrainingAfterReap
     /\ UNCHANGED heard

\* Mutant: promotion before the dead are removed.
Reap_PromotesFirst ==
  LET up == Promoted(leaders, followers)
  IN /\ leaders' = Surviving(leaders \cup {AsLeader(e) : e \in up})
     /\ followers' = Reindex(Surviving(followers \ up))
     /\ draining' = DrainingAfterReap
     /\ UNCHANGED heard

Reap ==
  LET lead == Surviving(leaders)
      foll == Reindex(Surviving(followers))
      up == Promoted(lead, foll)
  IN /\ leaders' = lead \cup {AsLeader(e) : e \in up}
     /\ followers' = foll \ up
     /\ draining' = DrainingAfterReap
     /\ UNCHANGED heard

-----------------------------------------------------------------------------
(* Operator intent, restart and time                                       *)

mark_draining(n) ==
  /\ knows_node(n)
  /\ draining' = draining \cup {n}
  /\ UNCHANGED <<leaders, followers, heard>>

\* The process keeps nothing: it starts from an empty registry.
Restart ==
  /\ leaders' = {}
  /\ followers' = {}
  /\ draining' = {}
  /\ heard' = [n \in Nodes |-> Timeout + 1]

Older(age) == IF age <= Timeout THEN age + 1 ELSE age

Tick ==
  /\ leaders' = {[e EXCEPT !.age = Older(e.age)] : e \in leaders}
  /\ followers' = {[e EXCEPT !.age = Older(e.age)] : e \in followers}
  /\ heard' = [n \in Nodes |-> Older(heard[n])]
  /\ UNCHANGED draining

-----------------------------------------------------------------------------
Next ==
  \/ \E n \in Nodes :
       \/ \E s \in Shards : RegisterLeader(n, s) \/ RegisterFollower(n, s)
       \/ \E s \in 0 .. N, role \in Roles : RegisterRejected(n, s, role)
       \/ HeartbeatUnknown(n)
       \/ HeartbeatOfLeader(n)
       \/ HeartbeatOfFollower(n)
       \/ HeartbeatOfRaftLeader(n)
       \/ mark_draining(n)
  \/ Reap
  \/ Restart
  \/ Tick

Spec == Init /\ [][Next]_vars

-----------------------------------------------------------------------------
(* What the registry promises                                              *)

\* A node that was heard from within the liveness window is never forgotten:
\* some entry of it is at least as fresh as its last accepted contact,
\* whatever registrations, leader reports and reaper passes of other nodes
\* came in between (heartbeat refreshes one entry only; reap_dead drops
\* stale entries; register_at may overwrite a stale leader).
NeverForgotten ==
  \A n \in Nodes : heard[n] <= Timeout =>
    \E e \in leaders \cup followers : e.node = n /\ e.age <= heard[n]

\* A live leader loses its shard only to a node that raft elected (or to a
\* restart of the coordinator): neither a registration nor a reaper pass
\* takes it away (the guard of register_at, and promote_orphaned_shards
\* skipping shards that have a leader).
LiveLeaderKept ==
  [][\A l \in leaders : Live(l) =>
       \/ \E k \in leaders' : k.shard = l.shard /\ k.node = l.node
       \/ \E n \in Nodes : HeartbeatOfRaftLeader(n)
       \/ Restart]_vars

\* After a reaper pass no dead node is routed to, and every shard that had a
\* live entry, leader or follower, has a leader: failover is complete within
\* the pass (reap_dead and promote_orphaned_shards in this order).
FailoverComplete ==
  [][Reap => /\ \A k \in leaders' : Live(k)
             /\ \A e \in leaders \cup followers : Live(e) =>
                  \E k \in leaders' : k.shard = e.shard]_vars

\* A drain cannot be forgotten while its node is there: the marker of a node
\* that is listed once disappears only together with the node's last entry
\* (reap_dead) or with the process.  A node that is listed twice, which a
\* quick restart of a routed leader is enough for, is not covered: reaping
\* its stale entry clears the marker although the other entry stays.
DrainSticky ==
  [][\A n \in draining \ draining' :
       knows_node(n)' => \E a, b \in EntriesOf(n) : a # b]_vars
=============================================================================

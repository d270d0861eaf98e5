----------------------------- MODULE Reconciler -----------------------------
(***************************************************************************)
(* Membership reconciliation of a shard's raft group                       *)
(* (crates/shard-node/src/raft/reconcile.rs).  Every member runs the loop; *)
(* in a pass the leader reads the coordinator's list (intent), then the    *)
(* group's membership (authority), and works off the difference with one   *)
(* awaited membership change after the other, all against the snapshots    *)
(* it took at the beginning.  Leadership may move between any two of them, *)
(* so the passes of several members overlap.                               *)
(*                                                                         *)
(* External: raft elects leaders among the voters and commits a membership *)
(* change only for its leader; the coordinator lists who registered.       *)
(***************************************************************************)
EXTENDS Integers, FiniteSets

CONSTANTS
  Size,       \* nodes are 1 .. Size, in the order of their raft ids
  InitialVoters, \* the voters of the initial group
  MaxDrains,  \* bound: nodes an operator drains
  MaxFaults   \* bound: refused changes, lost registrations, extra elections

ASSUME SizeAssumption == Size \in Nat
ASSUME VotersAssumption == InitialVoters \subseteq 1 .. Size /\ InitialVoters # {}
ASSUME BoundsAssumption == MaxDrains \in Nat /\ MaxFaults \in Nat

Nodes == 1 .. Size

VARIABLES
  registered,  \* nodes that the coordinator lists for the shard
  draining,    \* nodes with a mark
  marked,      \* nodes that an operator ever marked (history)
  voters,      \* raft membership: voters ...
  learners,    \* ... and learners
  leader,      \* current raft leader, 0 if there is none
  task,        \* per member: the state of its current pass
  faults       \* faults so far

vars == <<registered, draining, marked, voters, learners, leader, task, faults>>

Idle == [pc |-> "idle", drain |-> {}, desired |-> {}, in_group |-> {}, voters |-> {}]

TypeOK ==
  /\ registered \subseteq Nodes /\ draining \subseteq marked /\ marked \subseteq Nodes
  /\ voters \subseteq Nodes /\ learners \subseteq Nodes
  /\ voters # {} /\ voters \cap learners = {}
  /\ leader \in voters \cup {0}
  /\ task \in [Nodes -> [pc : {"idle", "listed", "working"},
                         drain : SUBSET Nodes, desired : SUBSET Nodes,
                         in_group : SUBSET Nodes, voters : SUBSET Nodes]]
  /\ faults \in 0 .. MaxFaults

Init ==
  /\ registered = InitialVoters
  /\ draining = {} /\ marked = {}
  /\ voters = InitialVoters
  /\ learners = {}
  /\ leader = 0
  /\ task = [n \in Nodes |-> Idle]
  /\ faults = 0

Lowest(S) == CHOOSE n \in S : \A m \in S : n <= m

Fault == faults < MaxFaults /\ faults' = faults + 1

\* What the coordinator keeps
lists == <<registered, draining, marked>>

-----------------------------------------------------------------------------
(* A pass of member n                                                      *)

\* Mutant: a member that is not listed is taken for drained.
List_MissingLeave(n) ==
  /\ task[n].pc = "idle"
  /\ leader = n
  /\ task' = [task EXCEPT ![n] = [Idle EXCEPT !.pc = "listed",
                                              !.drain = draining \cup (Nodes \ registered),
                                              !.desired = registered \ draining]]
  /\ UNCHANGED <<lists, voters, learners, leader, faults>>

\* The leader asks the coordinator.
List(n) ==
  /\ task[n].pc = "idle"
  /\ leader = n
  /\ task' = [task EXCEPT ![n] = [Idle EXCEPT !.pc = "listed",
                                              !.drain = registered \cap draining,
                                              !.desired = registered \ draining]]
  /\ UNCHANGED <<lists, voters, learners, leader, faults>>

\* Mutant: learners are not part of the group's membership.
Compare_VotersOnly(n) ==
  /\ task[n].pc = "listed"
  /\ task' = [task EXCEPT ![n] = [@ EXCEPT !.pc = "working",
                                           !.in_group = voters, !.voters = voters]]
  /\ UNCHANGED <<lists, voters, learners, leader, faults>>

\* Authority is read from the member's own metrics.
Compare(n) ==
  /\ task[n].pc = "listed"
  /\ task' = [task EXCEPT ![n] = [@ EXCEPT !.pc = "working",
                                           !.in_group = voters \cup learners,
                                           !.voters = voters]]
  /\ UNCHANGED <<lists, voters, learners, leader, faults>>

\* change_membership: raft commits the change for its leader, or refuses it.
Change(n, v, l) ==
  \/ /\ leader = n
     /\ voters' = v
     /\ learners' = l
     /\ leader' = IF n \in v THEN n ELSE 0
     /\ UNCHANGED faults
  \/ /\ leader # n
     /\ UNCHANGED <<voters, learners, leader, faults>>
  \/ /\ leader = n
     /\ Fault
     /\ UNCHANGED <<voters, learners, leader>>

RemoveVoters(n, id) ==
  Change(n, IF voters = {id} THEN voters ELSE voters \ {id}, learners)

RemoveNodes(n, id) == Change(n, voters, learners \ {id})

\* Mutant: off by one at the floor.
MayRemoveVoter_OffByOne(n) == Cardinality(task[n].voters) >= 3

\* The floor is checked against the voters at the beginning of the pass.
MayRemoveVoter(n) == Cardinality(task[n].voters) > 3

Remove(n) ==
  LET t == task[n]
      id == Lowest(t.drain)
  IN /\ t.pc = "working"
     /\ t.drain # {}
     /\ task' = [task EXCEPT ![n].drain = @ \ {id}]
     /\ \/ /\ id \notin t.in_group \/ (id \in t.voters /\ ~MayRemoveVoter(n))
           /\ UNCHANGED <<voters, learners, leader, faults>>
        \/ /\ id \in t.in_group \cap t.voters /\ MayRemoveVoter(n)
           /\ RemoveVoters(n, id)
        \/ /\ id \in t.in_group \ t.voters
           /\ RemoveNodes(n, id)
     /\ UNCHANGED lists

\* A newcomer is admitted in one pass and promoted in a later one.
Admit(n) ==
  LET t == task[n]
      id == Lowest(t.desired)
  IN /\ t.pc = "working"
     /\ t.drain = {} /\ t.desired # {}
     /\ task' = [task EXCEPT ![n].desired = @ \ {id}]
     /\ \/ /\ id \notin t.in_group
           /\ Change(n, voters, IF id \in voters THEN learners ELSE learners \cup {id})
        \/ /\ id \in t.in_group \ t.voters
           /\ Change(n, IF id \in learners THEN voters \cup {id} ELSE voters,
                     learners \ {id})
        \/ /\ id \in t.in_group \cap t.voters
           /\ UNCHANGED <<voters, learners, leader, faults>>
     /\ UNCHANGED lists

EndPass(n) ==
  /\ task[n].pc = "working"
  /\ task[n].drain = {} /\ task[n].desired = {}
  /\ task' = [task EXCEPT ![n] = Idle]
  /\ UNCHANGED <<lists, voters, learners, leader, faults>>

-----------------------------------------------------------------------------
(* The environment                                                         *)

Register(n) ==
  /\ n \notin registered
  /\ registered' = registered \cup {n}
  /\ UNCHANGED <<draining, marked, voters, learners, leader, task, faults>>

\* reap_dead drops a node whose heartbeats are late.  A coordinator on its own
\* drops the node's mark too; one with replicated authority keeps it.
Vanish(n) ==
  /\ n \in registered
  /\ Fault
  /\ registered' = registered \ {n}
  /\ draining' \in {draining, draining \ {n}}
  /\ UNCHANGED <<marked, voters, learners, leader, task>>

\* mark_draining
Drain(n) ==
  /\ n \in registered \ draining
  /\ Cardinality(marked \cup {n}) <= MaxDrains
  /\ draining' = draining \cup {n}
  /\ marked' = marked \cup {n}
  /\ UNCHANGED <<registered, voters, learners, leader, task, faults>>

Elect(n) ==
  /\ n \in voters
  /\ leader # n
  /\ IF leader = 0 THEN UNCHANGED faults ELSE Fault
  /\ leader' = n
  /\ UNCHANGED <<lists, voters, learners, task>>

Pass(n) == List(n) \/ Compare(n) \/ Remove(n) \/ Admit(n) \/ EndPass(n)

Next ==
  \E n \in Nodes : Pass(n) \/ Register(n) \/ Vanish(n) \/ Drain(n) \/ Elect(n)

(***************************************************************************)
(* Fairness: the loop of every member runs on (its ticker and the awaited  *)
(* calls return), nodes register until they are listed, and a group        *)
(* without a leader elects one.  Faults are finite by MaxFaults.           *)
(***************************************************************************)
Fairness ==
  /\ \A n \in Nodes : WF_vars(Pass(n)) /\ WF_vars(Register(n))
  /\ WF_vars(leader = 0 /\ \E n \in Nodes : Elect(n))

Spec == Init /\ [][Next]_vars /\ Fairness

-----------------------------------------------------------------------------
\* "A hard floor: never shrink the voter set below 3, because a 2-voter group
\* cannot survive any failure."  The code judges it by the voters at the
\* beginning of the pass, and does not keep it: two nodes that are drained in
\* one pass of a group of four leave two.
HardFloor ==
  [][voters' \subseteq voters /\ voters' # voters => Cardinality(voters') >= 3]_vars

\* The floor holds as long as one node is all that was ever marked, over all
\* overlaps of passes, and also when its mark comes and goes.
Floor ==
  [][voters' \subseteq voters /\ voters' # voters /\ Cardinality(marked) <= 1
       => Cardinality(voters') >= 3]_vars

\* Only nodes that an operator marked at some time leave the group, whatever
\* the coordinator's list looked like at any moment ("a flapping heartbeat must
\* not be able to shrink quorum").  A mark that is cleared between a pass and
\* its removal does not stop the removal.
OnlyDrainedLeave ==
  [][(voters \cup learners) \ (voters \cup learners)' \subseteq marked]_vars

\* Reconciliation ends: once faults and operator changes are over, the voters
\* are the registered nodes that are not draining.  A drained voter of a
\* three-voter group waits for its replacement to be promoted first; when too
\* few nodes remain, it stays.
Converges ==
  <>[](\/ Cardinality(registered \ draining) < 3
       \/ learners = {} /\ voters = registered \ draining)
=============================================================================

--------------------------- MODULE GroupFormation ---------------------------
(***************************************************************************)
(* How the founders of a shard's raft group find each other                *)
(* (crates/shard-node/src/raft/bootstrap.rs, and main.rs of shard-node):   *)
(* a founder registers with the coordinators, polls the first that answers *)
(* until it lists group_size members, and initializes the group if it has  *)
(* the smallest raft id of the list it got.  A joining node registers too  *)
(* but never initializes.                                                  *)
(*                                                                         *)
(* Every coordinator has a list of its own.  Registrations may fail and    *)
(* are retried; nobody leaves a list, since nodes send heartbeats.  A      *)
(* founder that restarts registers again, and a coordinator whose reaper   *)
(* has made it the routed leader then lists it twice (see Pushed in         *)
(* Registry) until the entry that is not refreshed is reaped.              *)
(***************************************************************************)
EXTENDS Integers, FiniteSets

CONSTANTS
  Founders,      \* raft ids of the nodes that form the group
  Joiners,       \* raft ids of nodes started with AETHER_RAFT_JOIN=1
  Coordinators,  \* the coordinators the nodes are configured with
  MaxRestarts    \* bound: restarts of founders before the group is formed

ASSUME IdsAssumption ==
  /\ Founders \subseteq Nat /\ Joiners \subseteq Nat
  /\ Founders \cap Joiners = {}
  /\ IsFiniteSet(Founders) /\ IsFiniteSet(Joiners)
ASSUME MaxRestartsAssumption == MaxRestarts \in Nat

Ids == Founders \cup Joiners

\* group_size is configured to the number of founders.
group_size == Cardinality(Founders)

VARIABLES
  listed,       \* coordinator -> node -> entries it lists for it
  members,      \* founder -> the member map that wait_for_group returned, or {}
  initialized,  \* founder -> the membership it initialized, or {}
  restarts      \* restarts so far

formation_vars == <<listed, members, initialized, restarts>>

\* Distinct nodes of a list, and the number of its entries
Distinct(c) == {n \in Ids : listed[c][n] > 0}

Entries(c) == Cardinality(Distinct(c)) + Cardinality({n \in Ids : listed[c][n] > 1})

FormationTypeOK ==
  /\ listed \in [Coordinators -> [Ids -> 0 .. 2]]
  /\ members \in [Founders -> SUBSET Ids]
  /\ initialized \in [Founders -> SUBSET Ids]
  /\ \A n \in Founders : initialized[n] # {} => n \in initialized[n]
  /\ restarts \in 0 .. MaxRestarts

FormationInit ==
  /\ listed = [c \in Coordinators |-> [n \in Ids |-> 0]]
  /\ members = [n \in Founders |-> {}]
  /\ initialized = [n \in Founders |-> {}]
  /\ restarts = 0

register_with_coordinator(n, c) ==
  /\ listed[c][n] = 0
  /\ listed' = [listed EXCEPT ![c][n] = 1]
  /\ UNCHANGED <<members, initialized, restarts>>

\* A founder starts again before it has formed a group: it registers with
\* the coordinators it reaches and polls from the beginning.
Restart(n, C) ==
  /\ restarts < MaxRestarts /\ restarts' = restarts + 1
  /\ initialized[n] = {}
  /\ members' = [members EXCEPT ![n] = {}]
  /\ listed' = [c \in Coordinators |->
       IF c \in C THEN [listed[c] EXCEPT ![n] = IF @ = 0 THEN 1 ELSE 2] ELSE listed[c]]
  /\ UNCHANGED initialized

ReapDuplicate(n, c) ==
  /\ listed[c][n] = 2
  /\ listed' = [listed EXCEPT ![c][n] = 1]
  /\ UNCHANGED <<members, initialized, restarts>>

\* Mutant: the first list with a member in it is taken for the group.
wait_for_group_TooEarly(n, c) ==
  /\ members[n] = {}
  /\ Distinct(c) # {}
  /\ members' = [members EXCEPT ![n] = Distinct(c)]
  /\ UNCHANGED <<listed, initialized, restarts>>

\* A poll that finds too few entries sleeps and polls again; the entries of
\* one node become one member of the map.
wait_for_group(n, c) ==
  /\ members[n] = {}
  /\ Entries(c) >= group_size
  /\ members' = [members EXCEPT ![n] = Distinct(c)]
  /\ UNCHANGED <<listed, initialized, restarts>>

\* Mutant: a member is compared with itself too.
bootstrap_group_Strict(n) ==
  /\ n \in members[n]
  /\ initialized[n] = {}
  /\ \A m \in members[n] : n < m
  /\ initialized' = [initialized EXCEPT ![n] = members[n]]
  /\ UNCHANGED <<listed, members, restarts>>

\* raft.initialize is refused on a member that has a log already, which it
\* has once the membership of another bootstrapper has reached it.
bootstrap_group(n) ==
  /\ n \in members[n]
  /\ initialized[n] = {}
  /\ \A m \in members[n] : n <= m
  /\ initialized' = [initialized EXCEPT ![n] = members[n]]
  /\ UNCHANGED <<listed, members, restarts>>

FormationNext ==
  \/ \E n \in Ids, c \in Coordinators : register_with_coordinator(n, c) \/ ReapDuplicate(n, c)
  \/ \E n \in Founders, C \in SUBSET Coordinators : Restart(n, C)
  \/ \E n \in Founders, c \in Coordinators : wait_for_group(n, c)
  \/ \E n \in Founders : bootstrap_group(n)

\* Heartbeats register a founder that a coordinator does not know, and the
\* polling loop never gives up: as long as a founder can go on, one does.  A
\* joining node need not be started.
FounderStep ==
  \E n \in Founders :
    \/ bootstrap_group(n)
    \/ \E c \in Coordinators : register_with_coordinator(n, c) \/ wait_for_group(n, c)

FormationFair == WF_formation_vars(FounderStep)

FormationSpec == FormationInit /\ [][FormationNext]_formation_vars /\ FormationFair

-----------------------------------------------------------------------------
\* The launch that bootstrap.rs is written for: no founder restarts while
\* it waits, and no joining node is started before the group is formed.
Clean == restarts = 0 /\ \A c \in Coordinators : Distinct(c) \subseteq Founders

\* The joining nodes that some coordinator lists already
Early == {n \in Joiners : \E c \in Coordinators : listed[c][n] > 0}

\* In a clean launch at most one member initializes the group, with exactly
\* the founders in it, whichever coordinators they registered with first and
\* polled ("deterministic over an identical set, so exactly one member
\* bootstraps").  After restarts, or with a joining node in the lists, entries
\* count that are no further founder and several members may initialize.  No
\* two of the memberships they start from are disjoint, so no two of them can
\* commit independently, as long as restarts and joining nodes together are
\* fewer than the founders; from then on a shard may get two groups.
OneGroup ==
  /\ Clean => \A m, n \in Founders :
       /\ initialized[n] \in {{}, Founders}
       /\ initialized[m] # {} /\ initialized[n] # {} => m = n
  /\ restarts + Cardinality(Early) < group_size =>
       \A m, n \in Founders :
         initialized[m] # {} /\ initialized[n] # {} => initialized[m] \cap initialized[n] # {}
=============================================================================

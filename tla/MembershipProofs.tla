-------------------------- MODULE MembershipProofs --------------------------
(***************************************************************************)
(* A shard's raft group, for any founders, joining nodes, coordinators and *)
(* restarts while it forms, and for any number of nodes, drains and faults *)
(* while it is reconciled.                                                 *)
(*                                                                         *)
(* Formation.  The entries of a list beyond its distinct nodes are those   *)
(* of restarted founders, so every list that was accepted has group_size   *)
(* entries of which at most one for each restarted founder is a second one *)
(* (Accounted).  The restarted founders are a set that no variable keeps:  *)
(* the invariant says that there is one.                                   *)
(*                                                                         *)
(* Reconciliation.  Passes work off snapshots, and a mark may be cleared   *)
(* while a pass still acts on it.  What is not taken back is that a node   *)
(* was once marked: what a pass means to remove was (Marked), and so were  *)
(* the voters that its snapshot has and the group no longer has (Departed).*)
(***************************************************************************)
EXTENDS Membership, FiniteSetTheorems, WellFoundedInduction, TLAPS

\* Nodes that coordinator c lists twice
Twice(c) == {n \in Ids : listed[c][n] > 1}

\* A list with the nodes S can have group_size entries if only R is in it twice.
Full(S, R) == group_size <= Cardinality(S) + Cardinality(S \cap R)

Accounts(R) ==
  /\ Cardinality(R) <= restarts
  /\ \A c \in Coordinators : Twice(c) \subseteq R
  /\ \A n \in Founders : \A S \in {members[n], initialized[n]} :
       S # {} => S \subseteq Founders \cup Early /\ Full(S, R)

Accounted == \E R \in SUBSET Founders : Accounts(R)

Smallest == \A n \in Founders : \A m \in initialized[n] : n <= m

FormationInv == FormationTypeOK /\ Smallest /\ Accounted

Marked == \A n \in Nodes : task[n].drain \subseteq marked

Departed ==
  \A n \in Nodes : task[n].pc = "working" => task[n].voters \ voters \subseteq marked

ReconcilerInv == TypeOK /\ Marked /\ Departed

IInv == FormationInv /\ ReconcilerInv

-----------------------------------------------------------------------------
(* Formation                                                               *)

\* Sets of ids are finite.
LEMMA IdsFinite ==
  /\ IsFiniteSet(Ids)
  /\ \A S \in SUBSET Ids : IsFiniteSet(S) /\ Cardinality(S) \in Nat
  /\ IsFiniteSet(Founders) /\ group_size \in Nat
  /\ \A S \in SUBSET Founders : S \in SUBSET Ids
<1>1. IsFiniteSet(Founders) /\ IsFiniteSet(Joiners)
  BY IdsAssumption
<1>2. IsFiniteSet(Ids)
  BY <1>1, FS_Union DEF Ids
<1>3. \A S \in SUBSET Ids : IsFiniteSet(S) /\ Cardinality(S) \in Nat
  BY <1>2, FS_Subset, FS_CardinalityType
<1>4. \A S \in SUBSET Founders : S \in SUBSET Ids
  BY DEF Ids
<1>. QED BY <1>1, <1>2, <1>3, <1>4, FS_CardinalityType DEF group_size

\* A larger set of restarted founders excuses a list as well.
LEMMA FullMonotone ==
  ASSUME NEW S \in SUBSET Ids, NEW R \in SUBSET Founders, NEW Q \in SUBSET Founders,
         R \subseteq Q, Full(S, R)
  PROVE  Full(S, Q)
<1>1. S \cap Q \in SUBSET Ids /\ S \cap R \in SUBSET (S \cap Q)
  OBVIOUS
<1>2. IsFiniteSet(S \cap Q) /\ Cardinality(S \cap Q) \in Nat
  BY <1>1, IdsFinite
<1>3. Cardinality(S \cap R) <= Cardinality(S \cap Q)
  BY <1>1, <1>2, FS_Subset
<1>4. Cardinality(S \cap R) \in Nat /\ Cardinality(S) \in Nat /\ group_size \in Nat
  BY <1>1, IdsFinite
<1>. HIDE DEF group_size
<1>. QED BY <1>2, <1>3, <1>4 DEF Full

\* A founder registers, or its second entry is reaped.
LEMMA ListStep ==
  ASSUME FormationInv, NEW n \in Ids, NEW c \in Coordinators,
         register_with_coordinator(n, c) \/ ReapDuplicate(n, c)
  PROVE  FormationInv'
<1>1. /\ FormationTypeOK /\ UNCHANGED <<members, initialized, restarts>>
      /\ listed' = [listed EXCEPT ![c][n] = 1]
  BY DEF FormationInv, register_with_coordinator, ReapDuplicate
<1>2. \A b \in Coordinators, m \in Ids :
        /\ listed[b][m] \in 0 .. 2
        /\ listed'[b][m] = IF b = c /\ m = n THEN 1 ELSE listed[b][m]
  BY <1>1 DEF FormationTypeOK
<1>3. FormationTypeOK'
  BY <1>1 DEF FormationTypeOK
<1>4. Smallest'
  BY <1>1 DEF FormationInv, Smallest
<1>5. Early \subseteq Early' /\ \A b \in Coordinators : Twice(b)' \subseteq Twice(b)
  BY <1>2 DEF Early, Twice, Ids
<1>6. Accounted'
  <2>1. PICK R \in SUBSET Founders : Accounts(R)
    BY DEF FormationInv, Accounted
  <2>2. Accounts(R)'
    BY <1>1, <1>5, <2>1 DEF Accounts, Full
  <2>. QED BY <2>1, <2>2 DEF Accounted
<1>. QED BY <1>3, <1>4, <1>6 DEF FormationInv

\* A founder restarts: from now on its second entries are accounted for.
LEMMA RestartStep ==
  ASSUME FormationInv, NEW n \in Founders, NEW C \in SUBSET Coordinators, Restart(n, C)
  PROVE  FormationInv'
<1>1. /\ FormationTypeOK /\ restarts < MaxRestarts /\ restarts' = restarts + 1
      /\ members' = [members EXCEPT ![n] = {}] /\ initialized' = initialized
      /\ listed' = [c \in Coordinators |->
           IF c \in C THEN [listed[c] EXCEPT ![n] = IF @ = 0 THEN 1 ELSE 2] ELSE listed[c]]
      /\ restarts \in Nat
  BY MaxRestartsAssumption DEF FormationInv, FormationTypeOK, Restart
<1>2. \A c \in Coordinators, m \in Ids :
        /\ listed[c][m] \in 0 .. 2
        /\ m # n => listed'[c][m] = listed[c][m]
        /\ listed[c][m] > 0 => listed'[c][m] > 0
  BY <1>1 DEF FormationTypeOK
<1>3. FormationTypeOK'
  <2>1. listed' \in [Coordinators -> [Ids -> 0 .. 2]]
    <3>1. \A c \in Coordinators : listed[c] \in [Ids -> 0 .. 2]
      BY <1>1 DEF FormationTypeOK
    <3>2. \A c \in Coordinators :
            [listed[c] EXCEPT ![n] = IF @ = 0 THEN 1 ELSE 2] \in [Ids -> 0 .. 2]
      <4>1. \A v \in {1, 2} : v \in 0 .. 2
        OBVIOUS
      <4>2. \A f \in [Ids -> 0 .. 2], v \in {1, 2} : [f EXCEPT ![n] = v] \in [Ids -> 0 .. 2]
        BY <4>1
      <4>3. \A i : (IF i = 0 THEN 1 ELSE 2) \in {1, 2}
        OBVIOUS
      <4>. QED BY <3>1, <4>2, <4>3
    <3>. QED BY <1>1, <3>1, <3>2
  <2>2. restarts' \in 0 .. MaxRestarts
    BY <1>1, MaxRestartsAssumption
  <2>. QED BY <1>1, <2>1, <2>2 DEF FormationTypeOK
<1>4. Smallest'
  BY <1>1 DEF FormationInv, Smallest
<1>5. Early \subseteq Early' /\ \A c \in Coordinators : Twice(c)' \subseteq Twice(c) \cup {n}
  BY <1>2 DEF Early, Twice, Ids
<1>6. Accounted'
  <2>1. PICK R \in SUBSET Founders : Accounts(R)
    BY DEF FormationInv, Accounted
  <2>. DEFINE Q == R \cup {n}
  <2>2. IsFiniteSet(R) /\ Cardinality(R) \in Nat
    BY IdsFinite
  <2>3. Cardinality(Q) <= restarts'
    <3>1. Cardinality(Q) <= Cardinality(R) + 1 /\ Cardinality(Q) \in Nat
      BY <2>2, FS_AddElement
    <3>2. Cardinality(R) <= restarts
      BY <2>1 DEF Accounts
    <3>. HIDE DEF Q
    <3>. QED BY <1>1, <2>2, <3>1, <3>2
  <2>4. Q \in SUBSET Founders /\ R \subseteq Q /\ \A c \in Coordinators : Twice(c)' \subseteq Q
    BY <1>5, <2>1 DEF Accounts
  <2>. HIDE DEF Q
  <2>5. ASSUME NEW m \in Founders, NEW S \in {members'[m], initialized'[m]}, S # {}
        PROVE  S \subseteq Founders \cup Early' /\ Full(S, Q)
    <3>1. S \in {members[m], initialized[m]} /\ S \in SUBSET Ids
      BY <1>1, <2>5 DEF FormationTypeOK
    <3>2. S \subseteq Founders \cup Early /\ Full(S, R)
      BY <2>1, <2>5, <3>1 DEF Accounts
    <3>. QED BY <1>5, <2>4, <3>1, <3>2, FullMonotone
  <2>6. Accounts(Q)'
    BY <2>3, <2>4, <2>5 DEF Accounts, Full
  <2>. QED BY <2>4, <2>6 DEF Accounted
<1>. QED BY <1>3, <1>4, <1>6 DEF FormationInv

\* A founder accepts a list with group_size entries.
LEMMA WaitStep ==
  ASSUME FormationInv, NEW n \in Founders, NEW c \in Coordinators, wait_for_group(n, c)
  PROVE  FormationInv'
<1>. DEFINE D == Distinct(c)
<1>1. /\ FormationTypeOK /\ Entries(c) >= group_size
      /\ members' = [members EXCEPT ![n] = D]
      /\ UNCHANGED <<listed, initialized, restarts>>
  BY DEF FormationInv, wait_for_group
<1>2. D \in SUBSET Ids /\ D \subseteq Founders \cup Early
  BY DEF Distinct, Early, Ids
<1>3. FormationTypeOK'
  BY <1>1, <1>2 DEF FormationTypeOK
<1>4. Smallest'
  BY <1>1 DEF FormationInv, Smallest
<1>5. Accounted'
  <2>1. PICK R \in SUBSET Founders : Accounts(R)
    BY DEF FormationInv, Accounted
  <2>2. Twice(c) \in SUBSET (D \cap R) /\ D \cap R \in SUBSET Ids
    <3>1. \A m \in Ids : listed[c][m] \in Int
      BY <1>1 DEF FormationTypeOK
    <3>2. Twice(c) \subseteq D
      BY <3>1 DEF Twice, Distinct
    <3>. QED BY <1>2, <2>1, <3>2 DEF Accounts
  <2>3. IsFiniteSet(D \cap R) /\ Cardinality(D \cap R) \in Nat /\ Cardinality(D) \in Nat
    BY <1>2, <2>2, IdsFinite
  <2>4. Cardinality(Twice(c)) <= Cardinality(D \cap R) /\ Cardinality(Twice(c)) \in Nat
    BY <2>2, <2>3, FS_Subset, IdsFinite
  <2>5. Full(D, R)
    <3>1. Entries(c) = Cardinality(D) + Cardinality(Twice(c))
      BY DEF Entries, Twice
    <3>2. group_size \in Nat
      BY IdsFinite
    <3>. HIDE DEF D
    <3>. QED BY <1>1, <2>3, <2>4, <3>1, <3>2 DEF Full
  <2>. HIDE DEF D
  <2>6. \A m \in Founders : members'[m] = IF m = n THEN D ELSE members[m]
    BY <1>1 DEF FormationTypeOK
  <2>7. Early' = Early /\ \A b \in Coordinators : Twice(b)' = Twice(b)
    BY <1>1 DEF Early, Twice
  <2>8. Accounts(R)'
    BY <1>1, <1>2, <2>1, <2>5, <2>6, <2>7 DEF Accounts, Full
  <2>. QED BY <2>1, <2>8 DEF Accounted
<1>. QED BY <1>3, <1>4, <1>5 DEF FormationInv

\* The smallest member of the list a founder accepted initializes the group.
LEMMA BootstrapStep ==
  ASSUME FormationInv, NEW n \in Founders, bootstrap_group(n) PROVE FormationInv'
<1>1. /\ FormationTypeOK /\ n \in members[n] /\ \A m \in members[n] : n <= m
      /\ initialized' = [initialized EXCEPT ![n] = members[n]]
      /\ UNCHANGED <<listed, members, restarts>>
  BY DEF FormationInv, bootstrap_group
<1>2. \A m \in Founders : initialized'[m] = IF m = n THEN members[n] ELSE initialized[m]
  BY <1>1 DEF FormationTypeOK
<1>3. FormationTypeOK'
  BY <1>1, <1>2 DEF FormationTypeOK
<1>4. Smallest'
  BY <1>1, <1>2 DEF FormationInv, Smallest
<1>5. Early' = Early /\ \A b \in Coordinators : Twice(b)' = Twice(b)
  BY <1>1 DEF Early, Twice
<1>6. Accounted'
  <2>1. PICK R \in SUBSET Founders : Accounts(R)
    BY DEF FormationInv, Accounted
  <2>2. Accounts(R)'
    BY <1>1, <1>2, <1>5, <2>1 DEF Accounts, Full
  <2>. QED BY <2>1, <2>2 DEF Accounted
<1>. QED BY <1>3, <1>4, <1>6 DEF FormationInv

\* Nothing happens to the formation.
LEMMA FormationStutter ==
  ASSUME FormationInv, UNCHANGED formation_vars PROVE FormationInv'
<1>. USE DEF formation_vars
<1>1. FormationTypeOK' /\ Smallest'
  BY DEF FormationInv, FormationTypeOK, Smallest
<1>2. Early' = Early /\ \A b \in Coordinators : Twice(b)' = Twice(b)
  BY DEF Early, Twice
<1>3. Accounted'
  <2>1. PICK R \in SUBSET Founders : Accounts(R)
    BY DEF FormationInv, Accounted
  <2>2. Accounts(R)'
    BY <1>2, <2>1 DEF Accounts, Full
  <2>. QED BY <2>1, <2>2 DEF Accounted
<1>. QED BY <1>1, <1>3 DEF FormationInv

\* No one is listed and no one has initialized at the beginning.
LEMMA FormationStart == ASSUME FormationInit PROVE FormationInv
<1>1. FormationTypeOK /\ Smallest
  BY MaxRestartsAssumption DEF FormationInit, FormationTypeOK, Smallest
<1>2. Accounts({})
  <2>1. Cardinality({}) <= restarts
    BY FS_EmptySet DEF FormationInit
  <2>2. \A c \in Coordinators : Twice(c) = {}
    BY DEF FormationInit, Twice
  <2>. QED BY <2>1, <2>2 DEF FormationInit, Accounts
<1>. QED BY <1>1, <1>2 DEF FormationInv, Accounted

\* Disjoint memberships need as many restarts and joining nodes as founders.
LEMMA Overlap ==
  ASSUME FormationInv, restarts + Cardinality(Early) < group_size,
         NEW m \in Founders, NEW n \in Founders, initialized[m] # {}, initialized[n] # {}
  PROVE  initialized[m] \cap initialized[n] # {}
<1>. DEFINE A == initialized[m]
            B == initialized[n]
<1>1. PICK R \in SUBSET Founders : Accounts(R)
  BY DEF FormationInv, Accounted
<1>2. /\ A \subseteq Founders \cup Early /\ B \subseteq Founders \cup Early
      /\ Full(A, R) /\ Full(B, R)
      /\ A \in SUBSET Ids /\ B \in SUBSET Ids /\ restarts \in Nat
  BY <1>1 DEF FormationInv, Accounts, FormationTypeOK
<1>. HIDE DEF A, B
<1>. SUFFICES ASSUME A \cap B = {} PROVE FALSE
  BY DEF A, B
<1>3. Early \in SUBSET Ids /\ R \in SUBSET Ids
  BY DEF Early, Ids
<1>4. /\ \A S \in {A, B, A \cap R, B \cap R, Early, R, Founders} :
           IsFiniteSet(S) /\ Cardinality(S) \in Nat
      /\ group_size \in Nat
  BY <1>2, <1>3, IdsFinite
<1>5. Cardinality(A) + Cardinality(B) <= group_size + Cardinality(Early)
  <2>1. Cardinality(A \cup B) = Cardinality(A) + Cardinality(B)
    <3>1. Cardinality(A \cup B) = Cardinality(A) + Cardinality(B) - Cardinality(A \cap B)
      BY <1>4, FS_Union
    <3>2. Cardinality(A \cap B) = 0
      BY FS_EmptySet
    <3>3. Cardinality(A) \in Nat /\ Cardinality(B) \in Nat
      BY <1>4
    <3>. QED BY <3>1, <3>2, <3>3
  <2>2. /\ IsFiniteSet(Founders \cup Early)
        /\ Cardinality(Founders \cup Early) <= group_size + Cardinality(Early)
    <3>1. /\ IsFiniteSet(Founders \cup Early)
          /\ Cardinality(Founders \cup Early) =
               Cardinality(Founders) + Cardinality(Early) - Cardinality(Founders \cap Early)
      BY <1>4, FS_Union
    <3>2. Cardinality(Founders \cap Early) \in Nat
      BY IdsFinite
    <3>3. group_size = Cardinality(Founders)
      BY DEF group_size
    <3>. HIDE DEF group_size
    <3>. QED BY <1>4, <3>1, <3>2, <3>3
  <2>3. Cardinality(A \cup B) <= Cardinality(Founders \cup Early)
    BY <1>2, <2>2, FS_Subset
  <2>4. Cardinality(Founders \cup Early) \in Nat
    BY <2>2, FS_CardinalityType
  <2>. HIDE DEF group_size
  <2>. QED BY <1>4, <2>1, <2>2, <2>3, <2>4
<1>6. Cardinality(A \cap R) + Cardinality(B \cap R) <= restarts
  <2>1. (A \cap R) \cap (B \cap R) = {} /\ (A \cap R) \cup (B \cap R) \in SUBSET R
    OBVIOUS
  <2>2. Cardinality((A \cap R) \cup (B \cap R)) = Cardinality(A \cap R) + Cardinality(B \cap R)
    <3>1. Cardinality((A \cap R) \cup (B \cap R)) =
            Cardinality(A \cap R) + Cardinality(B \cap R) - Cardinality({})
      BY <1>4, <2>1, FS_Union
    <3>. QED BY <1>4, <3>1, FS_EmptySet
  <2>3. Cardinality((A \cap R) \cup (B \cap R)) <= Cardinality(R)
    BY <1>4, <2>1, FS_Subset
  <2>4. Cardinality(R) <= restarts
    BY <1>1 DEF Accounts
  <2>. QED BY <1>2, <1>4, <2>2, <2>3, <2>4
<1>. HIDE DEF group_size
<1>. QED BY <1>2, <1>4, <1>5, <1>6 DEF Full

\* What the invariant says of the groups that were initialized.
LEMMA OneGroupHolds == ASSUME FormationInv PROVE OneGroup
<1>1. ASSUME Clean, NEW n \in Founders, initialized[n] # {}
      PROVE  initialized[n] = Founders /\ \A m \in Founders : n <= m
  <2>1. PICK R \in SUBSET Founders : Accounts(R)
    BY DEF FormationInv, Accounted
  <2>2. Early = {} /\ restarts = 0
    BY <1>1, IdsAssumption DEF Clean, Distinct, Early, Ids
  <2>3. R = {}
    <3>1. IsFiniteSet(R) /\ Cardinality(R) \in Nat /\ Cardinality(R) <= 0
      BY <2>1, <2>2, IdsFinite DEF Accounts
    <3>. QED BY <3>1, FS_EmptySet
  <2>4. initialized[n] \in SUBSET Founders /\ Full(initialized[n], {})
    BY <1>1, <2>1, <2>2, <2>3 DEF Accounts
  <2>5. Cardinality(Founders) <= Cardinality(initialized[n])
    <3>1. initialized[n] \cap {} = {} /\ Cardinality(initialized[n]) \in Nat
      BY <2>4, IdsFinite
    <3>. QED BY <2>4, <3>1, FS_EmptySet DEF Full, group_size
  <2>6. initialized[n] = Founders
    <3>1. /\ Cardinality(initialized[n]) <= Cardinality(Founders)
          /\ Cardinality(Founders) = Cardinality(initialized[n]) => Founders = initialized[n]
      BY <2>4, IdsFinite, FS_Subset
    <3>2. Cardinality(initialized[n]) \in Nat /\ Cardinality(Founders) \in Nat
      BY <2>4, IdsFinite
    <3>. QED BY <2>5, <3>1, <3>2
  <2>. QED BY <2>6 DEF FormationInv, Smallest
<1>2. Clean => \A m, n \in Founders :
        /\ initialized[n] \in {{}, Founders}
        /\ initialized[m] # {} /\ initialized[n] # {} => m = n
  <2>1. Founders \subseteq Nat
    BY IdsAssumption
  <2>. QED BY <1>1, <2>1
<1>. QED BY <1>2, Overlap DEF OneGroup

-----------------------------------------------------------------------------
(* Reconciliation                                                          *)

\* The state of a pass.
Task == [pc : {"idle", "listed", "working"}, drain : SUBSET Nodes, desired : SUBSET Nodes,
         in_group : SUBSET Nodes, voters : SUBSET Nodes]

\* A non-empty set of nodes has a lowest one.
LEMMA LowestFacts ==
  ASSUME NEW S \in SUBSET Nodes, S # {} PROVE Lowest(S) \in S
<1>. DEFINE R == OpToRel(<, Nat)
<1>1. S \subseteq Nat
  BY DEF Nodes
<1>2. \E x \in S : \A y \in S : ~ (<<y, x>> \in R)
  <2>1. IsWellFoundedOn(R, Nat)
    BY NatLessThanWellFounded
  <2>. HIDE DEF R
  <2>. QED BY <1>1, <2>1, WFMin
<1>3. \A x, y \in Nat : ~ (<<y, x>> \in R) => x <= y
  BY DEF OpToRel
<1>. HIDE DEF R
<1>4. \E x \in S : \A y \in S : x <= y
  BY <1>1, <1>2, <1>3
<1>. QED BY <1>4 DEF Lowest

\* A change of the membership, for the voters and learners asked for, is
\* made or is not.
LEMMA ChangeFacts ==
  ASSUME TypeOK, NEW n \in Nodes, NEW v, NEW l, Change(n, v, l)
  PROVE  /\ <<voters', learners'>> = <<v, l>> \/ <<voters', learners'>> = <<voters, learners>>
         /\ voters' = v \/ leader' = leader
         /\ leader' = leader \/ leader' \in v \cup {0}
         /\ faults' \in 0 .. MaxFaults
<1>1. leader # n \/ leader = n
  OBVIOUS
<1>2. faults' \in 0 .. MaxFaults
  BY BoundsAssumption DEF TypeOK, Change, Fault
<1>. QED BY <1>2 DEF Change, Fault

\* A pass that starts records the marks of that moment; voters are not
\* touched.
LEMMA PassBoundaryStep ==
  ASSUME ReconcilerInv, NEW n \in Nodes, List(n) \/ Compare(n) \/ EndPass(n)
  PROVE  ReconcilerInv'
<1>1. /\ TypeOK /\ UNCHANGED <<lists, voters, learners, leader, faults>>
      /\ task \in [Nodes -> Task]
  BY DEF ReconcilerInv, TypeOK, Task, List, Compare, EndPass
<1>2. PICK t \in Task :
        /\ task' = [task EXCEPT ![n] = t]
        /\ t.drain \subseteq marked
        /\ t.pc = "working" => t.voters = voters
  <2>1. CASE List(n)
    <3>. DEFINE t == [Idle EXCEPT !.pc = "listed", !.drain = registered \cap draining,
                                  !.desired = registered \ draining]
    <3>1. t \in Task /\ t.drain \subseteq marked /\ t.pc = "listed"
      BY <1>1 DEF Idle, Task, TypeOK
    <3>2. task' = [task EXCEPT ![n] = t]
      BY <2>1 DEF List
    <3>. HIDE DEF t
    <3>. QED BY <3>1, <3>2
  <2>2. CASE Compare(n)
    <3>. DEFINE t == [task[n] EXCEPT !.pc = "working", !.in_group = voters \cup learners,
                                     !.voters = voters]
    <3>1. t \in Task /\ t.drain = task[n].drain /\ t.voters = voters
      <4>1. task[n] \in Task /\ voters \in SUBSET Nodes /\ voters \cup learners \in SUBSET Nodes
        BY <1>1 DEF TypeOK
      <4>. QED BY <4>1 DEF Task
    <3>2. task' = [task EXCEPT ![n] = t]
      BY <2>2 DEF Compare
    <3>. HIDE DEF t
    <3>. QED BY <3>1, <3>2 DEF ReconcilerInv, Marked
  <2>3. CASE EndPass(n)
    <3>1. Idle \in Task /\ Idle.drain \subseteq marked /\ Idle.pc = "idle"
      BY DEF Idle, Task
    <3>. QED BY <2>3, <3>1 DEF EndPass
  <2>. QED BY <2>1, <2>2, <2>3
<1>3. \A m \in Nodes : task'[m] = IF m = n THEN t ELSE task[m]
  BY <1>1, <1>2
<1>4. TypeOK'
  BY <1>1, <1>2 DEF TypeOK, Task, lists
<1>5. Marked' /\ Departed'
  BY <1>1, <1>2, <1>3 DEF ReconcilerInv, Marked, Departed, lists
<1>. QED BY <1>4, <1>5 DEF ReconcilerInv

\* What one change of a pass does: only a marked node leaves, a voter only if
\* the snapshot of the pass has four.
Shrinks(n) ==
  /\ voters \ voters' \subseteq marked
  /\ (voters \cup learners) \ (voters' \cup learners') \subseteq marked
  /\ voters' \subseteq voters /\ voters' # voters =>
       task[n].pc = "working" /\ MayRemoveVoter(n)

\* Both kinds of change shrink the group only so.
LEMMA ChangeShrinks ==
  ASSUME ReconcilerInv, NEW n \in Nodes, Remove(n) \/ Admit(n)
  PROVE  /\ Shrinks(n)
         /\ voters' \subseteq Nodes /\ learners' \subseteq Nodes
         /\ voters' # {} /\ voters' \cap learners' = {}
         /\ leader' \in voters' \cup {0} /\ faults' \in 0 .. MaxFaults
         /\ \E t \in Task : /\ task' = [task EXCEPT ![n] = t]
                            /\ t.drain \subseteq task[n].drain
                            /\ t.pc = task[n].pc /\ t.voters = task[n].voters
<1>. DEFINE t == task[n]
<1>1. /\ TypeOK /\ t \in Task /\ t.pc = "working" /\ t.drain \subseteq marked
      /\ t.drain \in SUBSET Nodes /\ t.desired \in SUBSET Nodes
  BY DEF ReconcilerInv, Marked, TypeOK, Task, Remove, Admit
<1>2. CASE Remove(n)
  <2>. DEFINE id == Lowest(t.drain)
              new == [t EXCEPT !.drain = @ \ {id}]
  <2>1. id \in t.drain /\ id \in marked
    BY <1>1, <1>2, LowestFacts DEF Remove
  <2>2. /\ new \in Task /\ new.drain \subseteq t.drain /\ new.pc = t.pc /\ new.voters = t.voters
        /\ task' = [task EXCEPT ![n] = new]
    BY <1>1, <1>2 DEF Remove, Task, TypeOK
  <2>. HIDE DEF new
  <2>3. CASE UNCHANGED <<voters, learners, leader, faults>>
    BY <1>1, <2>2, <2>3 DEF TypeOK, Shrinks
  <2>4. CASE id \in t.in_group \cap t.voters /\ MayRemoveVoter(n) /\ RemoveVoters(n, id)
    <3>. DEFINE v == IF voters = {id} THEN voters ELSE voters \ {id}
    <3>1. v \subseteq voters /\ v # {} /\ voters \ v \subseteq {id}
      BY <1>1 DEF TypeOK
    <3>2. Change(n, v, learners)
      BY <2>4 DEF RemoveVoters
    <3>. HIDE DEF v
    <3>3. /\ learners' = learners
          /\ voters' = v \/ voters' = voters
          /\ voters' = v \/ leader' = leader
          /\ leader' = leader \/ leader' \in v \cup {0}
          /\ faults' \in 0 .. MaxFaults
      BY <1>1, <3>2, ChangeFacts
    <3>4. leader' \in voters' \cup {0}
      BY <1>1, <3>2, <3>3 DEF Change, TypeOK
    <3>. QED BY <1>1, <2>1, <2>2, <2>4, <3>1, <3>3, <3>4 DEF TypeOK, Shrinks
  <2>5. CASE RemoveNodes(n, id)
    <3>1. Change(n, voters, learners \ {id})
      BY <2>5 DEF RemoveNodes
    <3>2. /\ voters' = voters /\ learners' \subseteq learners /\ learners \ learners' \subseteq {id}
          /\ faults' \in 0 .. MaxFaults
      BY <1>1, <3>1, ChangeFacts
    <3>3. leader' \in voters' \cup {0}
      BY <1>1, <3>1, <3>2 DEF Change, TypeOK
    <3>. QED BY <1>1, <2>1, <2>2, <3>2, <3>3 DEF TypeOK, Shrinks
  <2>. QED BY <1>2, <2>3, <2>4, <2>5 DEF Remove
<1>3. CASE Admit(n)
  <2>. DEFINE id == Lowest(t.desired)
              new == [t EXCEPT !.desired = @ \ {id}]
  <2>1. id \in Nodes
    BY <1>1, <1>3, LowestFacts DEF Admit
  <2>2. /\ new \in Task /\ new.drain \subseteq t.drain /\ new.pc = t.pc /\ new.voters = t.voters
        /\ task' = [task EXCEPT ![n] = new]
    BY <1>1, <1>3 DEF Admit, Task, TypeOK
  <2>. HIDE DEF new, id
  <2>3. CASE UNCHANGED <<voters, learners, leader, faults>>
    BY <1>1, <2>2, <2>3 DEF TypeOK, Shrinks
  <2>4. CASE \E v, l \in SUBSET Nodes :
               /\ Change(n, v, l) /\ voters \subseteq v /\ v \cap l = {}
               /\ voters \cup learners \subseteq v \cup l
    <3>1. PICK v \in SUBSET Nodes, l \in SUBSET Nodes :
            /\ Change(n, v, l) /\ voters \subseteq v /\ v \cap l = {}
            /\ voters \cup learners \subseteq v \cup l
      BY <2>4
    <3>2. /\ <<voters', learners'>> = <<v, l>> \/ <<voters', learners'>> = <<voters, learners>>
          /\ faults' \in 0 .. MaxFaults
      BY <1>1, <3>1, ChangeFacts
    <3>3. leader' \in voters' \cup {0}
      BY <1>1, <3>1 DEF Change, TypeOK
    <3>4. /\ voters \subseteq voters' /\ voters \cup learners \subseteq voters' \cup learners'
          /\ voters' \subseteq Nodes /\ learners' \subseteq Nodes
          /\ voters' # {} /\ voters' \cap learners' = {}
      BY <1>1, <3>1, <3>2 DEF TypeOK
    <3>. QED BY <2>2, <3>2, <3>3, <3>4 DEF Shrinks
  <2>5. CASE Change(n, voters, IF id \in voters THEN learners ELSE learners \cup {id})
    <3>. DEFINE l == IF id \in voters THEN learners ELSE learners \cup {id}
    <3>1. l \in SUBSET Nodes /\ voters \in SUBSET Nodes /\ voters \cap l = {} /\ learners \subseteq l
      BY <1>1, <2>1 DEF TypeOK
    <3>2. Change(n, voters, l)
      BY <2>5
    <3>. HIDE DEF l
    <3>. QED BY <2>4, <3>1, <3>2
  <2>6. CASE Change(n, IF id \in learners THEN voters \cup {id} ELSE voters, learners \ {id})
    <3>. DEFINE v == IF id \in learners THEN voters \cup {id} ELSE voters
                l == learners \ {id}
    <3>1. /\ v \in SUBSET Nodes /\ l \in SUBSET Nodes /\ v \cap l = {} /\ voters \subseteq v
          /\ voters \cup learners \subseteq v \cup l
      BY <1>1, <2>1 DEF TypeOK
    <3>2. Change(n, v, l)
      BY <2>6
    <3>. HIDE DEF v, l
    <3>. QED BY <2>4, <3>1, <3>2
  <2>. QED BY <1>3, <2>3, <2>5, <2>6 DEF Admit, id
<1>. QED BY <1>2, <1>3

\* A change of a pass keeps the invariant.
LEMMA ChangeStep ==
  ASSUME ReconcilerInv, NEW n \in Nodes, Remove(n) \/ Admit(n) PROVE ReconcilerInv'
<1>1. /\ TypeOK /\ UNCHANGED lists /\ task \in [Nodes -> Task]
  BY DEF ReconcilerInv, TypeOK, Task, Remove, Admit
<1>2. /\ Shrinks(n)
      /\ voters' \subseteq Nodes /\ learners' \subseteq Nodes
      /\ voters' # {} /\ voters' \cap learners' = {}
      /\ leader' \in voters' \cup {0} /\ faults' \in 0 .. MaxFaults
  BY ChangeShrinks
<1>3. PICK t \in Task : /\ task' = [task EXCEPT ![n] = t]
                        /\ t.drain \subseteq task[n].drain
                        /\ t.pc = task[n].pc /\ t.voters = task[n].voters
  BY ChangeShrinks
<1>4. \A m \in Nodes : /\ task'[m].drain \subseteq task[m].drain
                       /\ task'[m].pc = task[m].pc /\ task'[m].voters = task[m].voters
  BY <1>1, <1>3
<1>5. TypeOK'
  BY <1>1, <1>2, <1>3 DEF TypeOK, Task, lists
<1>6. Marked' /\ Departed'
  BY <1>1, <1>2, <1>4 DEF ReconcilerInv, Marked, Departed, Shrinks, lists
<1>. QED BY <1>5, <1>6 DEF ReconcilerInv

\* Nodes come and go in the list, are marked and are elected.
LEMMA EnvironmentStep ==
  ASSUME ReconcilerInv,
         \/ \E n \in Nodes : Register(n) \/ Vanish(n) \/ Drain(n) \/ Elect(n)
         \/ UNCHANGED vars
  PROVE  ReconcilerInv'
<1>1. /\ TypeOK /\ UNCHANGED <<voters, learners, task>> /\ marked \subseteq marked'
      /\ draining' \subseteq marked' /\ marked' \subseteq Nodes /\ registered' \subseteq Nodes
  BY DEF ReconcilerInv, TypeOK, Register, Vanish, Drain, Elect, lists, vars
<1>2. leader' \in voters \cup {0}
  BY <1>1 DEF TypeOK, Register, Vanish, Drain, Elect, lists, vars
<1>3. faults' \in 0 .. MaxFaults
  <2>1. faults' = faults \/ (faults < MaxFaults /\ faults' = faults + 1)
    BY DEF Register, Vanish, Drain, Elect, Fault, vars
  <2>. QED BY <1>1, <2>1, BoundsAssumption DEF TypeOK
<1>4. TypeOK'
  BY <1>1, <1>2, <1>3 DEF TypeOK
<1>5. Marked' /\ Departed'
  BY <1>1 DEF ReconcilerInv, Marked, Departed
<1>. QED BY <1>4, <1>5 DEF ReconcilerInv

\* Every step of the second stage keeps the invariant.
LEMMA ReconcilerStep == ASSUME ReconcilerInv, [Next]_vars PROVE ReconcilerInv'
BY PassBoundaryStep, ChangeStep, EnvironmentStep DEF Next, Pass

\* No pass is under way at the beginning.
LEMMA ReconcilerStart == ASSUME Init PROVE ReconcilerInv
<1>1. TypeOK
  BY VotersAssumption, BoundsAssumption DEF Init, TypeOK, Idle, Nodes
<1>2. Marked /\ Departed
  BY DEF Init, Marked, Departed, Idle
<1>. QED BY <1>1, <1>2 DEF ReconcilerInv

-----------------------------------------------------------------------------
(* The theorems                                                            *)

\* The invariant of both stages.
THEOREM Inductive == MembershipSpec => []IInv
<1>1. MembershipInit => IInv
  BY FormationStart, ReconcilerStart DEF MembershipInit, IInv
<1>2. ASSUME IInv, [MembershipNext]_stages PROVE IInv'
  <2>1. CASE Forming(FormationNext)
    <3>1. FormationInv'
      BY <1>2, <2>1, ListStep, RestartStep, WaitStep, BootstrapStep
      DEF IInv, Forming, FormationNext
    <3>2. ReconcilerInv'
      BY <1>2, <2>1, EnvironmentStep DEF IInv, Forming
    <3>. QED BY <3>1, <3>2 DEF IInv
  <2>2. CASE Formed(Next)
    BY <1>2, <2>2, FormationStutter, ReconcilerStep DEF IInv, Formed
  <2>3. CASE UNCHANGED stages
    BY <1>2, <2>3, FormationStutter, EnvironmentStep DEF IInv, stages
  <2>. QED BY <1>2, <2>1, <2>2, <2>3 DEF MembershipNext
<1>. QED BY <1>1, <1>2, PTL DEF MembershipSpec

\* Every variable of both stages keeps its type; the group always has a voter
\* and no node is voter and learner at once.
THEOREM TypeCorrect == MembershipSpec => [](TypeOK /\ FormationTypeOK)
<1>1. IInv => TypeOK /\ FormationTypeOK
  BY DEF IInv, ReconcilerInv, FormationInv
<1>. QED BY <1>1, Inductive, PTL

\* A clean launch initializes one group, of exactly the founders; otherwise
\* the initialized memberships overlap pairwise as long as restarts and
\* joining nodes are fewer than the founders.
THEOREM GroupsOverlap == MembershipSpec => []OneGroup
<1>1. IInv => OneGroup
  BY OneGroupHolds DEF IInv
<1>. QED BY <1>1, Inductive, PTL

\* A step of either stage takes voters and learners out of the group only as
\* Shrinks allows.
LEMMA StepShrinks ==
  ASSUME IInv, [MembershipNext]_stages
  PROVE  UNCHANGED <<voters, learners>> \/ \E n \in Nodes : Shrinks(n) /\ (Remove(n) \/ Admit(n))
<1>1. CASE Formed(Next)
  BY <1>1, ChangeShrinks
  DEF IInv, Formed, Next, Pass, List, Compare, EndPass, Register, Vanish, Drain, Elect
<1>2. CASE Forming(FormationNext) \/ UNCHANGED stages
  BY <1>2 DEF Forming, stages, vars
<1>. QED BY <1>1, <1>2 DEF MembershipNext

\* Only nodes that an operator marked leave the group, over all overlaps of
\* the passes of successive leaders.
THEOREM OnlyMarkedLeave == MembershipSpec => OnlyDrainedLeave
<1>1. ASSUME IInv, [MembershipNext]_stages
      PROVE  [(voters \cup learners) \ (voters \cup learners)' \subseteq marked]_vars
  BY <1>1, StepShrinks DEF Shrinks
<1>. QED BY <1>1, Inductive, PTL DEF MembershipSpec, OnlyDrainedLeave

\* A step that takes out a voter leaves four, less one for every node that was
\* ever marked.
LEMMA VotersLeft ==
  ASSUME IInv, [MembershipNext]_stages, voters' \subseteq voters, voters' # voters
  PROVE  /\ Cardinality(voters') \in Nat /\ Cardinality(marked) \in Nat
         /\ Cardinality(voters') >= 4 - Cardinality(marked)
<1>1. PICK n \in Nodes : Shrinks(n)
  BY StepShrinks
<1>. DEFINE S == task[n].voters
<1>2. /\ task[n].pc = "working" /\ Cardinality(S) > 3
      /\ voters \ voters' \subseteq marked /\ S \ voters \subseteq marked
      /\ TypeOK
  BY <1>1 DEF Shrinks, MayRemoveVoter, IInv, ReconcilerInv, Departed
<1>3. S \in SUBSET Nodes /\ voters' \in SUBSET Nodes /\ marked \in SUBSET Nodes
  BY <1>1, <1>2 DEF TypeOK
<1>4. \A T \in SUBSET Nodes : IsFiniteSet(T) /\ Cardinality(T) \in Nat
  <2>1. IsFiniteSet(Nodes)
    BY SizeAssumption, FS_Interval DEF Nodes
  <2>. QED BY <2>1, FS_Subset, FS_CardinalityType
<1>. HIDE DEF S
<1>5. S \in SUBSET (voters' \cup marked)
  BY <1>2
<1>6. Cardinality(S) <= Cardinality(voters' \cup marked)
  BY <1>3, <1>4, <1>5, FS_Subset
<1>7. Cardinality(voters' \cup marked) <= Cardinality(voters') + Cardinality(marked)
  <2>1. Cardinality(voters' \cup marked)
          = Cardinality(voters') + Cardinality(marked) - Cardinality(voters' \cap marked)
    BY <1>3, <1>4, FS_Union
  <2>2. Cardinality(voters' \cap marked) \in Nat
    BY <1>3, <1>4
  <2>3. Cardinality(voters') \in Nat /\ Cardinality(marked) \in Nat
    BY <1>3, <1>4
  <2>. QED BY <2>1, <2>2, <2>3
<1>8. /\ Cardinality(S) \in Nat /\ Cardinality(voters') \in Nat /\ Cardinality(marked) \in Nat
      /\ Cardinality(voters' \cup marked) \in Nat
  BY <1>3, <1>4
<1>. QED BY <1>2, <1>6, <1>7, <1>8

\* The hard floor of three voters, in a group in which one node is all that was
\* ever marked: the passes of any leaders, with snapshots of any age, take out
\* that node alone (run_membership_reconciler).
THEOREM FloorHolds == MembershipSpec => Floor
<1>1. ASSUME IInv, [MembershipNext]_stages
      PROVE  [voters' \subseteq voters /\ voters' # voters /\ Cardinality(marked) <= 1
                => Cardinality(voters') >= 3]_vars
  BY <1>1, VotersLeft
<1>. QED BY <1>1, Inductive, PTL DEF MembershipSpec, Floor
=============================================================================

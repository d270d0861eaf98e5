-------------------------- MODULE PlacementProofs --------------------------
(***************************************************************************)
(* A shard group never holds a slice that no committed table gave it, for  *)
(* any number of members, groups, virtual shards, documents, moves,        *)
(* elections and restarts.  RightSlice is not inductive: a batch is        *)
(* filtered by a view that may be stale when it is written, and a member   *)
(* without a table takes the modulo slice.  The invariant adds that what   *)
(* a batch holds was given to the group by some table (RightBatches), and  *)
(* that only groups counted as fellback have members without a table       *)
(* (Tabled).  It is enough because tables are only ever appended.          *)
(***************************************************************************)
EXTENDS Placement, TLAPS

\* Some committed table gives group g the virtual shard of document d.
Given(g, d) == \E i \in 1 .. Len(tables) : tables[i][vshard_for(d)] = g

RightBatches ==
  \A m \in Members : GroupOf[m] \notin fellback =>
    \A d \in batch[m].docs : Given(GroupOf[m], d)

Tabled == \A m \in Members : view[m] = Modulo => GroupOf[m] \in fellback

IInv == TypeOK /\ RightBatches /\ Tabled /\ RightSlice

\* Hashes fall into virtual shards.
LEMMA VShardType == \A d \in Docs : vshard_for(d) \in VShards
BY VAssumption, DocsAssumption DEF vshard_for, VShards

\* The group of a member is a group.
LEMMA GroupType == \A m \in Members : GroupOf[m] \in Groups
BY GroupAssumption DEF Groups

\* The round-robin table is a table.
LEMMA RoundRobinType == RoundRobin \in [VShards -> Groups]
BY NAssumption, VAssumption DEF RoundRobin, VShards, Groups

\* What the tables give does not change while they do not.
LEMMA SameTables ==
  ASSUME UNCHANGED tables PROVE \A g, d : Given(g, d)' <=> Given(g, d)
BY DEF Given

\* The empty batch.
LEMMA NoBatchFacts ==
  ASSUME TypeOK
  PROVE  NoBatch \in [docs : SUBSET Docs, round : 0 .. round] /\ NoBatch.docs = {}
BY DEF TypeOK, NoBatch

-----------------------------------------------------------------------------
(* The steps                                                               *)

\* A new table is appended: what the earlier ones gave stays given.
LEMMA ReassignStep ==
  ASSUME IInv, NEW v \in VShards, NEW g \in Groups, Reassign(v, g) PROVE IInv'
<1>. DEFINE t == [Last(tables) EXCEPT ![v] = g]
<1>1. /\ TypeOK /\ tables' = Append(tables, t)
      /\ UNCHANGED <<slowest, view, leader, held, round, batch, doomed, fellback, elections,
                     restarts>>
  BY DEF IInv, Reassign, bounds
<1>2. /\ tables \in Seq([VShards -> Groups]) /\ Len(tables) \in Nat \ {0}
      /\ t \in [VShards -> Groups]
  BY <1>1 DEF TypeOK, Last
<1>. HIDE DEF t
<1>3. /\ tables' \in Seq([VShards -> Groups]) /\ Len(tables') = Len(tables) + 1
      /\ \A i \in 1 .. Len(tables) : tables'[i] = tables[i] /\ i \in 1 .. Len(tables')
  BY <1>1, <1>2
<1>4. TypeOK'
  <2>1. slowest \in 1 .. Len(tables') /\ view \in [Members -> 0 .. Len(tables')]
    BY <1>1, <1>2, <1>3 DEF TypeOK
  <2>. QED BY <1>1, <1>2, <1>3, <2>1 DEF TypeOK
<1>5. \A h, d : Given(h, d) => Given(h, d)'
  BY <1>3 DEF Given, vshard_for
<1>6. RightBatches' /\ Tabled'
  BY <1>1, <1>5 DEF IInv, RightBatches, Tabled
<1>7. RightSlice'
  <2>1. RightSlice => \A h \in Groups \ fellback, d \in Docs : held[h][d] # 0 => Given(h, d)
    BY DEF RightSlice, Given
  <2>2. (\A h \in Groups \ fellback, d \in Docs : held[h][d] # 0 => Given(h, d)') => RightSlice'
    BY <1>1 DEF RightSlice, Given
  <2>. QED BY <1>5, <2>1, <2>2 DEF IInv
<1>. QED BY <1>4, <1>6, <1>7 DEF IInv

\* A step that moves neither documents nor tables, and leaves no member
\* without a table.
LEMMA QuietStep ==
  ASSUME IInv, TypeOK', UNCHANGED <<tables, held, batch, fellback>>,
         \A m \in Members : view'[m] = Modulo => view[m] = Modulo
  PROVE  IInv'
BY DEF IInv, RightBatches, Given, Tabled, RightSlice

\* Coordinators catch up, the feed goes on, leaders change, views follow the
\* tables, and watchers look for misplaced virtual shards.
LEMMA SurroundingsStep ==
  ASSUME IInv,
         \/ CatchUp \/ Observe
         \/ \E m \in Members : Elect(m) \/ run_vshard_view(m) \/ WatcherTick(m)
  PROVE  IInv'
<1>1. /\ TypeOK /\ Len(tables) \in Nat \ {0} /\ round \in Nat /\ elections \in Nat
  BY DEF IInv, TypeOK
<1>2. CASE CatchUp
  <2>1. slowest' \in 1 .. Len(tables)
    BY <1>1, <1>2 DEF CatchUp, TypeOK
  <2>2. TypeOK'
    BY <1>1, <1>2, <2>1 DEF CatchUp, TypeOK, bounds
  <2>. QED BY <1>2, <2>2, QuietStep DEF CatchUp, bounds
<1>3. CASE Observe
  <2>1. round' = round + 1 /\ round' \in Nat
    BY <1>1, <1>3 DEF Observe
  <2>2. \A i : i \in 0 .. round => i \in 0 .. round'
    BY <1>1, <2>1
  <2>3. /\ held' = held /\ batch' = batch
        /\ held \in [Groups -> [Docs -> 0 .. round']]
        /\ batch \in [Members -> [docs : SUBSET Docs, round : 0 .. round']]
    BY <1>1, <1>3, <2>2 DEF Observe, TypeOK
  <2>4. TypeOK'
    BY <1>1, <1>3, <2>1, <2>3 DEF Observe, TypeOK, bounds
  <2>. QED BY <1>3, <2>4, QuietStep DEF Observe, bounds
<1>4. ASSUME NEW m \in Members, Elect(m) PROVE IInv'
  <2>1. leader' = [leader EXCEPT ![GroupOf[m]] = m] /\ elections' \in Nat
    BY <1>1, <1>4 DEF Elect
  <2>2. TypeOK'
    BY <1>1, <1>4, <2>1, GroupType DEF Elect, TypeOK
  <2>. QED BY <1>4, <2>2, QuietStep DEF Elect
<1>5. ASSUME NEW m \in Members, run_vshard_view(m) PROVE IInv'
  <2>1. PICK i \in slowest .. Len(tables) : view' = [view EXCEPT ![m] = i]
    BY <1>5 DEF run_vshard_view
  <2>2. i \in 0 .. Len(tables) /\ i # Modulo
    BY <1>1 DEF TypeOK, Modulo
  <2>3. TypeOK'
    BY <1>1, <1>5, <2>1, <2>2 DEF run_vshard_view, TypeOK, bounds
  <2>4. \A n \in Members : view'[n] = Modulo => view[n] = Modulo
    BY <1>1, <2>1, <2>2 DEF TypeOK
  <2>. QED BY <1>5, <2>3, <2>4, QuietStep DEF run_vshard_view, bounds
<1>6. ASSUME NEW m \in Members, WatcherTick(m) PROVE IInv'
  <2>1. Misplaced(m) \subseteq VShards
    BY VShardType DEF Misplaced
  <2>2. TypeOK'
    BY <1>1, <1>6, <2>1 DEF WatcherTick, TypeOK, bounds
  <2>. QED BY <1>6, <2>2, QuietStep DEF WatcherTick, bounds
<1>. QED BY <1>2, <1>3, <1>4, <1>5, <1>6

\* A leader filters a round of the feed by its view.
LEMMA FetchStep == ASSUME IInv, NEW m \in Members, Fetch(m) PROVE IInv'
<1>. DEFINE b == [docs |-> {d \in Docs : Owns(m, d)}, round |-> round]
<1>1. /\ TypeOK /\ batch' = [batch EXCEPT ![m] = b]
      /\ UNCHANGED <<tables, slowest, view, leader, held, round, doomed, fellback, elections,
                     restarts>>
  BY DEF IInv, Fetch, bounds
<1>2. b \in [docs : SUBSET Docs, round : 0 .. round]
  BY <1>1 DEF TypeOK
<1>3. TypeOK'
  BY <1>1, <1>2 DEF TypeOK
<1>4. GroupOf[m] \notin fellback => \A d \in b.docs : Given(GroupOf[m], d)
  <2>. SUFFICES ASSUME GroupOf[m] \notin fellback, NEW d \in Docs, Owns(m, d)
                PROVE  Given(GroupOf[m], d)
    OBVIOUS
  <2>1. view[m] # Modulo /\ view[m] \in 0 .. Len(tables) /\ Len(tables) \in Nat
    BY <1>1 DEF IInv, Tabled, TypeOK
  <2>2. view[m] \in 1 .. Len(tables)
    BY <2>1 DEF Modulo
  <2>. QED BY <2>1, <2>2 DEF Owns, Given
<1>. HIDE DEF b
<1>5. RightBatches'
  <2>1. \A n \in Members : batch'[n] = IF n = m THEN b ELSE batch[n]
    BY <1>1 DEF TypeOK
  <2>. QED BY <1>1, <1>4, <2>1, SameTables DEF IInv, RightBatches
<1>6. Tabled' /\ RightSlice'
  BY <1>1 DEF IInv, Tabled, RightSlice
<1>. QED BY <1>3, <1>5, <1>6 DEF IInv

\* The batch is applied by the group, or dropped.
LEMMA WriteStep == ASSUME IInv, NEW m \in Members, Write(m) PROVE IInv'
<1>. DEFINE g == GroupOf[m]
            b == batch[m]
<1>1. /\ TypeOK /\ g \in Groups /\ b \in [docs : SUBSET Docs, round : 0 .. round]
      /\ batch' = [batch EXCEPT ![m] = NoBatch]
      /\ held' = IF Leads(m) THEN Indexed(g, b) ELSE held
      /\ UNCHANGED <<tables, slowest, view, leader, round, doomed, fellback, elections, restarts>>
  BY GroupType DEF IInv, Write, bounds, TypeOK
<1>. HIDE DEF g, b
<1>2. /\ Indexed(g, b) \in [Groups -> [Docs -> 0 .. round]]
      /\ \A h \in Groups, d \in Docs :
           Indexed(g, b)[h][d] = IF h = g /\ d \in b.docs THEN b.round ELSE held[h][d]
  BY <1>1 DEF TypeOK, Indexed
<1>3. TypeOK'
  BY <1>1, <1>2, NoBatchFacts DEF TypeOK
<1>4. RightBatches'
  <2>1. \A n \in Members : batch'[n] = IF n = m THEN NoBatch ELSE batch[n]
    BY <1>1 DEF TypeOK
  <2>. QED BY <1>1, <2>1, SameTables, NoBatchFacts DEF IInv, RightBatches
<1>5. RightSlice'
  <2>1. g \notin fellback => \A d \in b.docs : Given(g, d)
    BY DEF IInv, RightBatches, g, b
  <2>2. \A h \in Groups \ fellback, d \in Docs : held[h][d] # 0 => Given(h, d)
    BY DEF IInv, RightSlice, Given
  <2>3. \A h \in Groups \ fellback, d \in Docs : held'[h][d] # 0 => Given(h, d)
    BY <1>1, <1>2, <2>1, <2>2
  <2>. QED BY <1>1, <2>3 DEF RightSlice, Given
<1>6. Tabled'
  BY <1>1 DEF IInv, Tabled
<1>. QED BY <1>3, <1>4, <1>5, <1>6 DEF IInv

\* A virtual shard is evicted, or the proposal is refused.
LEMMA EvictStep == ASSUME IInv, NEW m \in Members, NEW v \in VShards, Evict(m, v) PROVE IInv'
<1>. DEFINE g == GroupOf[m]
<1>1. /\ TypeOK /\ g \in Groups
      /\ held' = IF Leads(m) THEN Evicted(g, v) ELSE held
      /\ doomed' \in [Members -> SUBSET VShards]
      /\ UNCHANGED <<tables, slowest, view, leader, round, batch, fellback, elections, restarts>>
  BY GroupType DEF IInv, Evict, bounds, TypeOK
<1>. HIDE DEF g
<1>2. /\ Evicted(g, v) \in [Groups -> [Docs -> 0 .. round]]
      /\ \A h \in Groups, d \in Docs : Evicted(g, v)[h][d] \in {0, held[h][d]}
  BY <1>1 DEF TypeOK, Evicted
<1>3. TypeOK'
  BY <1>1, <1>2 DEF TypeOK
<1>4. RightSlice'
  BY <1>1, <1>2 DEF IInv, RightSlice
<1>5. RightBatches' /\ Tabled'
  BY <1>1, SameTables DEF IInv, RightBatches, Tabled
<1>. QED BY <1>3, <1>4, <1>5 DEF IInv

\* A member starts again, with a table or, its group fallen back, without.
LEMMA RestartStep == ASSUME IInv, NEW m \in Members, Restart(m) PROVE IInv'
<1>. DEFINE g == GroupOf[m]
<1>1. /\ TypeOK /\ g \in Groups
      /\ batch' = [batch EXCEPT ![m] = NoBatch]
      /\ doomed' = [doomed EXCEPT ![m] = {}]
      /\ leader' = [leader EXCEPT ![g] = IF Leads(m) THEN NoMember ELSE @]
      /\ restarts' \in Nat
      /\ UNCHANGED <<tables, slowest, held, round, elections>>
  BY GroupType DEF IInv, Restart, TypeOK
<1>2. PICK i \in 0 .. Len(tables) :
        /\ view' = [view EXCEPT ![m] = i]
        /\ fellback \subseteq fellback' /\ fellback' \subseteq Groups
        /\ i = Modulo => g \in fellback'
  <2>1. CASE \E i \in slowest .. Len(tables) : view' = [view EXCEPT ![m] = i] /\ UNCHANGED fellback
    <3>1. PICK i \in slowest .. Len(tables) :
            view' = [view EXCEPT ![m] = i] /\ UNCHANGED fellback
      BY <2>1
    <3>2. i \in 0 .. Len(tables) /\ i # Modulo /\ fellback \subseteq Groups
      BY <1>1 DEF TypeOK, Modulo
    <3>. QED BY <3>1, <3>2
  <2>2. CASE view' = [view EXCEPT ![m] = Modulo] /\ fellback' = fellback \cup {g}
    <3>1. Modulo \in 0 .. Len(tables) /\ fellback \subseteq Groups
      BY <1>1 DEF TypeOK, Modulo
    <3>. QED BY <1>1, <2>2, <3>1
  <2>. QED BY <2>1, <2>2 DEF Restart
<1>. HIDE DEF g
<1>3. TypeOK'
  <2>1. /\ leader' \in [Groups -> Members \cup {NoMember}]
        /\ \A h \in Groups : leader'[h] = NoMember \/ GroupOf[leader'[h]] = h
    BY <1>1 DEF TypeOK
  <2>. QED BY <1>1, <1>2, <2>1, NoBatchFacts DEF TypeOK
<1>4. RightBatches'
  <2>1. \A n \in Members : batch'[n] = IF n = m THEN NoBatch ELSE batch[n]
    BY <1>1 DEF TypeOK
  <2>. QED BY <1>1, <1>2, <2>1, SameTables, NoBatchFacts DEF IInv, RightBatches
<1>5. Tabled'
  <2>1. \A n \in Members : view'[n] = IF n = m THEN i ELSE view[n]
    BY <1>1, <1>2 DEF TypeOK
  <2>. QED BY <1>2, <2>1 DEF IInv, Tabled, g
<1>6. RightSlice'
  BY <1>1, <1>2 DEF IInv, RightSlice
<1>. QED BY <1>3, <1>4, <1>5, <1>6 DEF IInv

-----------------------------------------------------------------------------
(* The theorems                                                            *)

\* The invariant holds in the initial state, ...
LEMMA InitIInv == ASSUME Init PROVE IInv
<1>1. TypeOK
  <2>1. /\ tables \in Seq([VShards -> Groups]) /\ Len(tables) = 1 /\ slowest \in 1 .. Len(tables)
    BY RoundRobinType DEF Init
  <2>2. view \in [Members -> 0 .. Len(tables)]
    BY <2>1 DEF Init
  <2>3. /\ leader \in [Groups -> Members \cup {NoMember}]
        /\ \A g \in Groups : leader[g] = NoMember
    BY DEF Init
  <2>4. /\ round = 1 /\ held \in [Groups -> [Docs -> 0 .. round]]
        /\ batch \in [Members -> [docs : SUBSET Docs, round : 0 .. round]]
    BY DEF Init, NoBatch
  <2>. QED BY <2>1, <2>2, <2>3, <2>4 DEF Init, TypeOK
<1>2. RightBatches /\ Tabled /\ RightSlice
  BY DEF Init, RightBatches, Tabled, RightSlice, NoBatch, Modulo
<1>. QED BY <1>1, <1>2 DEF IInv

\* ... and every step preserves it.
LEMMA NextIInv == ASSUME IInv, [Next]_vars PROVE IInv'
<1>1. CASE UNCHANGED vars
  BY <1>1 DEF IInv, vars, bounds, TypeOK, RightBatches, Given, Tabled, RightSlice
<1>2. CASE Surroundings
  BY <1>2, SurroundingsStep, ReassignStep DEF Surroundings
<1>3. ASSUME NEW m \in Members, Elect(m) \/ Task(m) \/ Restart(m) PROVE IInv'
  BY <1>3, SurroundingsStep, FetchStep, WriteStep, EvictStep, RestartStep DEF Task
<1>. QED BY <1>1, <1>2, <1>3 DEF Next

\* The invariant.
THEOREM Inductive == Spec => []IInv
BY InitIInv, NextIInv, PTL DEF Spec

\* Every variable keeps its type; a group is led by a member of its own.
THEOREM TypeCorrect == Spec => []TypeOK
<1>1. IInv => TypeOK
  BY DEF IInv
<1>. QED BY <1>1, Inductive, PTL

\* Ingestion with stale views and late batches never brings a group a slice
\* that no table gave it, unless a member of the group runs without a table.
THEOREM SlicesRight == Spec => []RightSlice
<1>1. IInv => RightSlice
  BY DEF IInv
<1>. QED BY <1>1, Inductive, PTL
=============================================================================

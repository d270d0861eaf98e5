--------------------------- MODULE ServiceProofs ---------------------------
(***************************************************************************)
(* The services around the shards, for any number of nodes, shards,        *)
(* timeouts, questions, tools, recipients, namespaces, writers, times,     *)
(* processes and requests: the coordinator's shard map (Registry), and     *)
(* what runs in front of the engine (Frontends): the evidence of a         *)
(* briefing, the government of agent memory, and the dashboard's hold on   *)
(* the processes it started.                                               *)
(***************************************************************************)
EXTENDS Registry, Frontends, FiniteSetTheorems, FunctionTheorems,
        SequenceTheorems, WellFoundedInduction, TLAPS

-----------------------------------------------------------------------------
(* The shard map                                                           *)

\* A set built by replacing every element of a finite set is finite.
LEMMA ImageFinite ==
  ASSUME NEW S, IsFiniteSet(S), NEW f, f \in [S -> {f[x] : x \in S}]
  PROVE  IsFiniteSet({f[x] : x \in S})
<1>1. f \in Surjection(S, {f[x] : x \in S})
  BY DEF Surjection
<1>. QED BY <1>1, FS_Surjection

\* Vec::remove changes indices only: what Reindex yields is well-typed,
\* finite, and has the same shards, nodes and ages as what it is given.
LEMMA ReindexFacts ==
  ASSUME NEW S, S \subseteq FollowerEntry, IsFiniteSet(S)
  PROVE  /\ Reindex(S) \subseteq FollowerEntry
         /\ IsFiniteSet(Reindex(S))
         /\ \A e \in S : \E f \in Reindex(S) : AsLeader(f) = AsLeader(e)
         /\ \A f \in Reindex(S) : \E e \in S : AsLeader(f) = AsLeader(e)
<1>. DEFINE Before(e) == {f \in InShard(S, e.shard) : f.idx < e.idx}
            Moved(e) == [e EXCEPT !.idx = Cardinality(Before(e))]
            m == [e \in S |-> Moved(e)]
<1>1. \A e \in S : Cardinality(Before(e)) \in Nat
  <2>. TAKE e \in S
  <2>1. Before(e) \in SUBSET S
    BY DEF InShard
  <2>2. IsFiniteSet(Before(e))
    BY <2>1, FS_Subset
  <2>. QED BY <2>2, FS_CardinalityType
<1>2. \A e \in S : Moved(e) \in FollowerEntry /\ AsLeader(Moved(e)) = AsLeader(e)
  BY <1>1 DEF FollowerEntry, AsLeader
<1>3. Reindex(S) = {Moved(e) : e \in S}
  BY DEF Reindex
<1>4. Reindex(S) = {m[e] : e \in S}
  BY <1>3
<1>5. IsFiniteSet(Reindex(S))
  <2>1. m \in [S -> {m[x] : x \in S}]
    OBVIOUS
  <2>. HIDE DEF m
  <2>. QED BY <1>4, <2>1, ImageFinite
<1>. QED BY <1>2, <1>3, <1>5

\* Vec::push keeps the Vec well-typed and finite, and adds the entry.
LEMMA PushedFacts ==
  ASSUME NEW S, S \subseteq FollowerEntry, IsFiniteSet(S), NEW e \in LeaderEntry
  PROVE  /\ Pushed(S, e) \subseteq FollowerEntry
         /\ IsFiniteSet(Pushed(S, e))
         /\ S \subseteq Pushed(S, e)
         /\ \E f \in Pushed(S, e) : AsLeader(f) = e
<1>. DEFINE k == Cardinality(InShard(S, e.shard))
            f == [shard |-> e.shard, idx |-> k, node |-> e.node, age |-> e.age]
<1>1. k \in Nat
  <2>1. InShard(S, e.shard) \in SUBSET S
    BY DEF InShard
  <2>. QED BY <2>1, FS_Subset, FS_CardinalityType
<1>2. f \in FollowerEntry /\ AsLeader(f) = e
  BY <1>1 DEF FollowerEntry, LeaderEntry, AsLeader
<1>3. Pushed(S, e) = S \cup {f}
  BY DEF Pushed
<1>4. IsFiniteSet(S \cup {f})
  BY FS_AddElement
<1>. QED BY <1>2, <1>3, <1>4

\* Vec::pop of a non-empty Vec takes one of its entries.
LEMMA LastFacts ==
  ASSUME NEW S, S \subseteq FollowerEntry, IsFiniteSet(S), S # {}
  PROVE  LastFollower(S) \in S
<1>. DEFINE HasLast(U) == \E e \in U : \A f \in U : f.idx <= e.idx
            Bad == {U \in FiniteSubsetsOf(S) : U # {} /\ ~HasLast(U)}
            R == StrictSubsetOrdering(S)
<1>1. SUFFICES HasLast(S)
  BY DEF LastFollower
<1>2. SUFFICES ASSUME ~HasLast(S) PROVE FALSE
  OBVIOUS
<1>3. S \in Bad
  BY <1>2 DEF FiniteSubsetsOf
<1>4. PICK U \in Bad : \A V \in Bad : <<V, U>> \notin R
  <2>1. IsWellFoundedOn(R, FiniteSubsetsOf(S))
    BY FS_StrictSubsetOrderingWellFounded
  <2>2. Bad \subseteq FiniteSubsetsOf(S) /\ Bad # {}
    BY <1>3
  <2>. HIDE DEF Bad, R
  <2>. QED BY <2>1, <2>2, WFMin
<1>5. PICK x \in U : TRUE
  OBVIOUS
<1>6. /\ U \subseteq S
      /\ IsFiniteSet(U)
  BY DEF FiniteSubsetsOf
<1>7. U \ {x} \in FiniteSubsetsOf(S) /\ <<U \ {x}, U>> \in R
  BY <1>5, <1>6, FS_RemoveElement DEF FiniteSubsetsOf, StrictSubsetOrdering
<1>8. U \ {x} = {} \/ HasLast(U \ {x})
  BY <1>4, <1>7
<1>9. \A e \in U : e.idx \in Nat
  BY <1>6 DEF FollowerEntry
<1>10. CASE U \ {x} = {}
  BY <1>4, <1>5, <1>9, <1>10
<1>11. CASE HasLast(U \ {x})
  <2>1. PICK y \in U \ {x} : \A f \in U \ {x} : f.idx <= y.idx
    BY <1>11
  <2>2. HasLast(U)
    <3>1. CASE x.idx <= y.idx
      BY <2>1, <3>1
    <3>2. CASE y.idx <= x.idx
      BY <1>5, <1>9, <2>1, <3>2
    <3>. QED BY <1>5, <1>9, <2>1, <3>1, <3>2
  <2>. QED BY <1>4, <2>2
<1>. QED BY <1>8, <1>10, <1>11

\* What promote_orphaned_shards takes: for each orphaned shard the last of
\* its followers, one per shard.
LEMMA PromotedFacts ==
  ASSUME NEW lead, NEW foll, foll \subseteq FollowerEntry, IsFiniteSet(foll),
         NEW up, up = {LastFollower(InShard(foll, s)) : s \in Orphaned(lead, foll)},
         NEW e \in up
  PROVE  /\ e = LastFollower(InShard(foll, e.shard))
         /\ e \in foll
         /\ InShard(lead, e.shard) = {}
<1>1. PICK s \in Orphaned(lead, foll) : e = LastFollower(InShard(foll, s))
  OBVIOUS
<1>2. InShard(foll, s) # {} /\ InShard(lead, s) = {}
  BY DEF Orphaned
<1>3. InShard(foll, s) \in SUBSET foll
  BY DEF InShard
<1>4. e \in InShard(foll, s)
  BY <1>1, <1>2, <1>3, FS_Subset, LastFacts
<1>5. e.shard = s /\ e \in foll
  BY <1>4 DEF InShard
<1>. QED BY <1>1, <1>2, <1>5

\* Making time pass over a set of entries keeps it finite.
LEMMA AgedFinite ==
  ASSUME NEW S, IsFiniteSet(S)
  PROVE  IsFiniteSet({[e EXCEPT !.age = Older(e.age)] : e \in S})
<1>. DEFINE m == [e \in S |-> [e EXCEPT !.age = Older(e.age)]]
<1>1. m \in [S -> {m[x] : x \in S}]
  OBVIOUS
<1>2. {[e EXCEPT !.age = Older(e.age)] : e \in S} = {m[x] : x \in S}
  OBVIOUS
<1>. HIDE DEF m
<1>. QED BY <1>1, <1>2, ImageFinite

\* An entry the heartbeat refreshes stays an entry of the same kind.
LEMMA FreshFacts ==
  ASSUME NEW S, NEW e \in S, IsFiniteSet(S), S \subseteq FollowerEntry
  PROVE  Fresh(S, e) \subseteq FollowerEntry /\ IsFiniteSet(Fresh(S, e))
<1>1. [e EXCEPT !.age = 0] \in FollowerEntry
  BY TimeoutAssumption DEF FollowerEntry, Ages
<1>2. IsFiniteSet(S \ {e})
  BY FS_RemoveElement
<1>3. IsFiniteSet((S \ {e}) \cup {[e EXCEPT !.age = 0]})
  BY <1>2, FS_AddElement
<1>. QED BY <1>1, <1>3 DEF Fresh

-----------------------------------------------------------------------------
LEMMA TypeInit == Init => TypeOK
BY FS_EmptySet, TimeoutAssumption DEF Init, TypeOK, Ages

LEMMA TypeStep == TypeOK /\ [Next]_vars => TypeOK'
<1>. SUFFICES ASSUME TypeOK, [Next]_vars
             PROVE  TypeOK'
  OBVIOUS
<1>. USE TimeoutAssumption
<1>1. ASSUME NEW n \in Nodes, NEW s \in Shards, RegisterLeader(n, s)
      PROVE  TypeOK'
  BY <1>1 DEF RegisterLeader, TypeOK, LeaderEntry, InShard, Ages
<1>2. ASSUME NEW n \in Nodes, NEW s \in Shards, RegisterFollower(n, s)
      PROVE  TypeOK'
  <2>1. heard' \in [Nodes -> Ages]
    BY <1>2 DEF RegisterFollower, TypeOK, Ages
  <2>2. CASE \E e \in FirstFollowers(n) : followers' = Fresh(followers, e)
    BY <1>2, <2>1, <2>2, FreshFacts DEF RegisterFollower, TypeOK, FirstFollowers
  <2>3. CASE followers' = Pushed(followers, [shard |-> s, node |-> n, age |-> 0])
    <3>1. [shard |-> s, node |-> n, age |-> 0] \in LeaderEntry
      BY DEF LeaderEntry, Ages
    <3>2. followers' \subseteq FollowerEntry /\ IsFiniteSet(followers')
      BY <2>3, <3>1, PushedFacts DEF TypeOK
    <3>. QED BY <1>2, <2>1, <3>2 DEF RegisterFollower, TypeOK
  <2>. QED BY <1>2, <2>2, <2>3 DEF RegisterFollower
<1>3. ASSUME NEW n \in Nodes, HeartbeatOfLeader(n)
      PROVE  TypeOK'
  BY <1>3 DEF HeartbeatOfLeader, TypeOK, LedBy, Fresh, LeaderEntry, Ages
<1>4. ASSUME NEW n \in Nodes, HeartbeatOfFollower(n)
      PROVE  TypeOK'
  <2>1. heard' \in [Nodes -> Ages]
    BY <1>4 DEF HeartbeatOfFollower, TypeOK, Ages
  <2>. QED BY <1>4, <2>1, FreshFacts DEF HeartbeatOfFollower, TypeOK, FirstFollowers
<1>5. ASSUME NEW n \in Nodes, HeartbeatOfRaftLeader(n)
      PROVE  TypeOK'
  <2>1. heard' \in [Nodes -> Ages]
    BY <1>5 DEF HeartbeatOfRaftLeader, TypeOK, Ages
  <2>2. PICK e \in FirstFollowers(n) :
          /\ leaders' = (leaders \ InShard(leaders, e.shard))
                          \cup {[AsLeader(e) EXCEPT !.age = 0]}
          /\ \/ followers' = Reindex(followers \ {e})
             \/ \E o \in InShard(leaders, e.shard) :
                  followers' = Pushed(Reindex(followers \ {e}), o)
    BY <1>5 DEF HeartbeatOfRaftLeader
  <2>3. e \in FollowerEntry
    BY DEF FirstFollowers, TypeOK
  <2>4. /\ leaders' \subseteq LeaderEntry
        /\ \A a, b \in leaders' : a.shard = b.shard => a = b
    <3>1. AsLeader(e).shard = e.shard
      BY DEF AsLeader
    <3>2. [AsLeader(e) EXCEPT !.age = 0] \in LeaderEntry
      BY <2>3 DEF AsLeader, LeaderEntry, FollowerEntry, Ages
    <3>3. [AsLeader(e) EXCEPT !.age = 0].shard = e.shard
      BY DEF AsLeader
    <3>. QED BY <2>2, <3>2, <3>3 DEF TypeOK, InShard
  <2>5. /\ Reindex(followers \ {e}) \subseteq FollowerEntry
        /\ IsFiniteSet(Reindex(followers \ {e}))
    BY ReindexFacts, FS_RemoveElement DEF TypeOK
  <2>6. followers' \subseteq FollowerEntry /\ IsFiniteSet(followers')
    <3>. DEFINE rest == Reindex(followers \ {e})
    <3>1. \A o \in InShard(leaders, e.shard) : o \in LeaderEntry
      BY DEF TypeOK, InShard
    <3>2. \A o \in LeaderEntry : /\ Pushed(rest, o) \subseteq FollowerEntry
                                /\ IsFiniteSet(Pushed(rest, o))
      BY <2>5, PushedFacts
    <3>. HIDE DEF rest
    <3>. QED BY <2>2, <2>5, <3>1, <3>2 DEF rest
  <2>. QED BY <1>5, <2>1, <2>4, <2>6 DEF HeartbeatOfRaftLeader, TypeOK
<1>6. CASE Reap
  <2>. DEFINE lead == Surviving(leaders)
              foll == Reindex(Surviving(followers))
              up == Promoted(lead, foll)
  <2>1. /\ leaders' = lead \cup {AsLeader(e) : e \in up}
        /\ followers' = foll \ up
    BY <1>6 DEF Reap
  <2>2. lead \subseteq leaders
    BY DEF Surviving
  <2>3. foll \subseteq FollowerEntry /\ IsFiniteSet(foll)
    <3>1. Surviving(followers) \in SUBSET followers
      BY DEF Surviving
    <3>. QED BY <3>1, ReindexFacts, FS_Subset DEF TypeOK
  <2>4. up = {LastFollower(InShard(foll, s)) : s \in Orphaned(lead, foll)}
    BY DEF Promoted
  <2>. HIDE DEF lead, foll, up
  <2>5. \A e \in up : /\ e = LastFollower(InShard(foll, e.shard))
                      /\ e \in foll
                      /\ InShard(lead, e.shard) = {}
    BY <2>3, <2>4, PromotedFacts
  <2>6. followers' \subseteq FollowerEntry /\ IsFiniteSet(followers')
    <3>1. followers' \in SUBSET foll
      BY <2>1
    <3>. QED BY <2>3, <3>1, FS_Subset
  <2>7. leaders' \subseteq LeaderEntry
    <3>1. \A e \in up : AsLeader(e) \in LeaderEntry
      BY <2>3, <2>5 DEF AsLeader, LeaderEntry, FollowerEntry
    <3>. QED BY <2>1, <2>2, <3>1 DEF TypeOK
  <2>8. ASSUME NEW a \in leaders', NEW b \in leaders', a.shard = b.shard
        PROVE  a = b
    <3>1. \A e \in up : AsLeader(e).shard = e.shard
      BY DEF AsLeader
    <3>2. CASE a \in lead /\ b \in lead
      BY <2>2, <2>8, <3>2 DEF TypeOK
    <3>3. ASSUME NEW k \in lead, NEW e \in up, k.shard = AsLeader(e).shard
          PROVE  FALSE
      BY <2>5, <3>1, <3>3 DEF InShard
    <3>4. ASSUME NEW e \in up, NEW f \in up, AsLeader(e).shard = AsLeader(f).shard
          PROVE  e = f
      <4>1. e.shard = f.shard
        BY <3>1, <3>4
      <4>2. e = LastFollower(InShard(foll, e.shard)) /\ f = LastFollower(InShard(foll, f.shard))
        BY <2>5
      <4>. QED BY <4>1, <4>2
    <3>. QED BY <2>1, <2>8, <3>2, <3>3, <3>4
  <2>. QED BY <1>6, <2>6, <2>7, <2>8 DEF Reap, TypeOK, DrainingAfterReap
<1>7. ASSUME NEW n \in Nodes, mark_draining(n)
      PROVE  TypeOK'
  BY <1>7 DEF mark_draining, TypeOK
<1>8. CASE Restart
  BY <1>8, FS_EmptySet DEF Restart, TypeOK, Ages
<1>9. CASE Tick
  <2>1. \A a \in Ages : Older(a) \in Ages
    BY DEF Ages, Older
  <2>2. IsFiniteSet(followers')
    BY <1>9, AgedFinite DEF Tick, TypeOK
  <2>3. followers' \subseteq FollowerEntry /\ leaders' \subseteq LeaderEntry
    BY <1>9, <2>1 DEF Tick, TypeOK, FollowerEntry, LeaderEntry
  <2>4. \A a, b \in leaders' : a.shard = b.shard => a = b
    BY <1>9 DEF Tick, TypeOK, LeaderEntry
  <2>5. heard' \in [Nodes -> Ages]
    BY <1>9, <2>1 DEF Tick, TypeOK
  <2>. QED BY <1>9, <2>2, <2>3, <2>4, <2>5 DEF Tick, TypeOK
<1>10. CASE UNCHANGED vars
  BY <1>10 DEF vars, TypeOK
<1>. QED
  BY <1>1, <1>2, <1>3, <1>4, <1>5, <1>6, <1>7, <1>8, <1>9, <1>10
     DEF Next, RegisterRejected, HeartbeatUnknown

\* The shard map is well-formed in every reachable state: one leader entry
\* per shard, finitely many followers, ages within the saturated window.
THEOREM TypeCorrect == Spec => []TypeOK
BY TypeInit, TypeStep, PTL DEF Spec

-----------------------------------------------------------------------------
(* NeverForgotten is inductive relative to TypeOK.                         *)

\* Some entry of node m after the step is at most as old as a.
FreshEntryAfter(m, a) ==
  \E f \in leaders' \cup followers' : f.node = m /\ f.age <= a

\* A step preserves NeverForgotten if every node either got a fresh entry
\* with its contact, or had no contact and kept its live entries.
LEMMA KeptSuffices ==
  ASSUME TypeOK, TypeOK', NeverForgotten,
         \A m \in Nodes :
           \/ heard'[m] = 0 /\ FreshEntryAfter(m, 0)
           \/ /\ heard'[m] = heard[m]
              /\ \A e \in leaders \cup followers :
                   e.node = m /\ Live(e) => FreshEntryAfter(m, e.age)
  PROVE  NeverForgotten'
<1>. SUFFICES ASSUME NEW m \in Nodes, heard'[m] <= Timeout
             PROVE  FreshEntryAfter(m, heard'[m])
  BY DEF NeverForgotten, FreshEntryAfter
<1>1. CASE heard'[m] = 0 /\ FreshEntryAfter(m, 0)
  BY <1>1
<1>2. CASE /\ heard'[m] = heard[m]
           /\ \A e \in leaders \cup followers :
                e.node = m /\ Live(e) => FreshEntryAfter(m, e.age)
  <2>1. PICK e \in leaders \cup followers : e.node = m /\ e.age <= heard[m]
    BY <1>2 DEF NeverForgotten
  <2>2. e.age \in Ages /\ heard[m] \in Ages
    BY DEF TypeOK, LeaderEntry, FollowerEntry
  <2>3. Live(e)
    BY <1>2, <2>1, <2>2, TimeoutAssumption DEF Live, Ages
  <2>4. PICK f \in leaders' \cup followers' : f.node = m /\ f.age <= e.age
    BY <1>2, <2>1, <2>3 DEF FreshEntryAfter
  <2>5. f.age \in Ages'
    BY DEF TypeOK, LeaderEntry, FollowerEntry
  <2>6. f.age <= heard'[m]
    BY <1>2, <2>1, <2>2, <2>4, <2>5, TimeoutAssumption DEF Ages
  <2>. QED BY <2>4, <2>6 DEF FreshEntryAfter
<1>. QED BY <1>1, <1>2

\* Refreshing an entry leaves every other entry alone and keeps its node.
LEMMA FreshKeeps ==
  ASSUME NEW S, NEW e \in S, NEW n, e.node = n, e \in LeaderEntry \cup FollowerEntry
  PROVE  /\ \E f \in Fresh(S, e) : f.node = n /\ f.age = 0
         /\ \A g \in S : g.node # n => g \in Fresh(S, e)
<1>1. [e EXCEPT !.age = 0].node = n /\ [e EXCEPT !.age = 0].age = 0
  BY DEF LeaderEntry, FollowerEntry
<1>. QED BY <1>1 DEF Fresh

LEMMA NeverForgottenStep ==
  TypeOK /\ TypeOK' /\ NeverForgotten /\ [Next]_vars => NeverForgotten'
<1>. SUFFICES ASSUME TypeOK, TypeOK', NeverForgotten, [Next]_vars
             PROVE  NeverForgotten'
  OBVIOUS
<1>. DEFINE Kept(m) == /\ heard'[m] = heard[m]
                       /\ \A e \in leaders \cup followers :
                            e.node = m /\ Live(e) => FreshEntryAfter(m, e.age)
            Renewed(m) == heard'[m] = 0 /\ FreshEntryAfter(m, 0)
<1>0. ASSUME \A m \in Nodes : Renewed(m) \/ Kept(m)
      PROVE  NeverForgotten'
  BY <1>0, KeptSuffices
\* An entry that is still there is as fresh as it was.
<1>s. ASSUME NEW e \in leaders' \cup followers', e \in leaders \cup followers,
             NEW m, e.node = m
      PROVE  FreshEntryAfter(m, e.age)
  <2>1. e.age \in Int
    BY <1>s DEF TypeOK, LeaderEntry, FollowerEntry, Ages
  <2>. QED BY <1>s, <2>1 DEF FreshEntryAfter
<1>1. ASSUME NEW n \in Nodes, NEW s \in Shards, RegisterLeader(n, s)
      PROVE  NeverForgotten'
  <2>1. Renewed(n)
    <3>. DEFINE f == [shard |-> s, node |-> n, age |-> 0]
    <3>1. f \in leaders' /\ f.node = n /\ f.age <= 0 /\ heard'[n] = 0
      BY <1>1 DEF RegisterLeader, TypeOK
    <3>. HIDE DEF f
    <3>. QED BY <3>1 DEF FreshEntryAfter
  <2>2. ASSUME NEW m \in Nodes, m # n PROVE Kept(m)
    <3>1. heard'[m] = heard[m]
      BY <1>1, <2>2 DEF RegisterLeader, TypeOK
    <3>2. ASSUME NEW e \in leaders \cup followers, e.node = m, Live(e)
          PROVE  e \in leaders' \cup followers'
      BY <1>1, <2>2, <3>2 DEF RegisterLeader, LiveIncumbent, InShard
    <3>. QED BY <3>1, <3>2, <1>s
  <2>. HIDE DEF Kept, Renewed
  <2>. QED BY <1>0, <2>1, <2>2
<1>2. ASSUME NEW n \in Nodes, NEW s \in Shards, RegisterFollower(n, s)
      PROVE  NeverForgotten'
  <2>1. /\ \E f \in followers' : f.node = n /\ f.age = 0
        /\ \A g \in followers : g.node # n => g \in followers'
    <3>1. CASE \E e \in FirstFollowers(n) : followers' = Fresh(followers, e)
      BY <3>1, FreshKeeps DEF FirstFollowers, TypeOK
    <3>2. CASE followers' = Pushed(followers, [shard |-> s, node |-> n, age |-> 0])
      <4>1. [shard |-> s, node |-> n, age |-> 0] \in LeaderEntry
        BY TimeoutAssumption DEF LeaderEntry, Ages
      <4>2. PICK f \in followers' : AsLeader(f) = [shard |-> s, node |-> n, age |-> 0]
        BY <3>2, <4>1, PushedFacts DEF TypeOK
      <4>3. f.node = n /\ f.age = 0
        BY <4>2 DEF AsLeader
      <4>. QED BY <3>2, <4>3 DEF Pushed
    <3>. QED BY <1>2, <3>1, <3>2 DEF RegisterFollower
  <2>2. Renewed(n)
    BY <1>2, <2>1 DEF FreshEntryAfter, RegisterFollower, TypeOK
  <2>3. ASSUME NEW m \in Nodes, m # n PROVE Kept(m)
    <3>1. heard'[m] = heard[m] /\ leaders' = leaders
      BY <1>2, <2>3 DEF RegisterFollower, TypeOK
    <3>. QED BY <2>1, <2>3, <3>1, <1>s
  <2>. HIDE DEF Kept, Renewed
  <2>. QED BY <1>0, <2>2, <2>3
<1>3. ASSUME NEW n \in Nodes, HeartbeatOfLeader(n)
      PROVE  NeverForgotten'
  <2>1. /\ \E f \in leaders' : f.node = n /\ f.age = 0
        /\ \A g \in leaders : g.node # n => g \in leaders'
    BY <1>3, FreshKeeps DEF HeartbeatOfLeader, LedBy, TypeOK
  <2>2. Renewed(n)
    BY <1>3, <2>1 DEF FreshEntryAfter, HeartbeatOfLeader, TypeOK
  <2>3. ASSUME NEW m \in Nodes, m # n PROVE Kept(m)
    <3>1. heard'[m] = heard[m] /\ followers' = followers
      BY <1>3, <2>3 DEF HeartbeatOfLeader, TypeOK
    <3>. QED BY <2>1, <2>3, <3>1, <1>s
  <2>. HIDE DEF Kept, Renewed
  <2>. QED BY <1>0, <2>2, <2>3
<1>4. ASSUME NEW n \in Nodes, HeartbeatOfFollower(n)
      PROVE  NeverForgotten'
  <2>1. /\ \E f \in followers' : f.node = n /\ f.age = 0
        /\ \A g \in followers : g.node # n => g \in followers'
    BY <1>4, FreshKeeps DEF HeartbeatOfFollower, FirstFollowers, TypeOK
  <2>2. Renewed(n)
    BY <1>4, <2>1 DEF FreshEntryAfter, HeartbeatOfFollower, TypeOK
  <2>3. ASSUME NEW m \in Nodes, m # n PROVE Kept(m)
    <3>1. heard'[m] = heard[m] /\ leaders' = leaders
      BY <1>4, <2>3 DEF HeartbeatOfFollower, TypeOK
    <3>. QED BY <2>1, <2>3, <3>1, <1>s
  <2>. HIDE DEF Kept, Renewed
  <2>. QED BY <1>0, <2>2, <2>3
<1>5. ASSUME NEW n \in Nodes, HeartbeatOfRaftLeader(n)
      PROVE  NeverForgotten'
  <2>1. PICK e \in FirstFollowers(n) :
          /\ leaders' = (leaders \ InShard(leaders, e.shard))
                          \cup {[AsLeader(e) EXCEPT !.age = 0]}
          /\ \/ /\ InShard(leaders, e.shard) = {}
                /\ followers' = Reindex(followers \ {e})
             \/ \E o \in InShard(leaders, e.shard) :
                  followers' = Pushed(Reindex(followers \ {e}), o)
    BY <1>5 DEF HeartbeatOfRaftLeader
  <2>. DEFINE rest == Reindex(followers \ {e})
              top == [AsLeader(e) EXCEPT !.age = 0]
  <2>2. e \in followers /\ e.node = n
    BY DEF FirstFollowers
  <2>3. Renewed(n)
    <3>1. top.node = n /\ top.age <= 0 /\ top \in leaders'
      BY <2>1, <2>2 DEF AsLeader
    <3>2. heard'[n] = 0
      BY <1>5 DEF HeartbeatOfRaftLeader, TypeOK
    <3>. HIDE DEF top
    <3>. QED BY <3>1, <3>2 DEF FreshEntryAfter
  <2>4. /\ rest \subseteq FollowerEntry /\ IsFiniteSet(rest)
        /\ \A g \in followers \ {e} : \E f \in rest : AsLeader(f) = AsLeader(g)
    BY ReindexFacts, FS_RemoveElement DEF TypeOK
  <2>5. rest \subseteq followers'
    <3>. HIDE DEF rest
    <3>. QED BY <2>1 DEF rest, Pushed
  <2>6. ASSUME NEW o \in InShard(leaders, e.shard)
        PROVE  \E f \in followers' : AsLeader(f) = o
    <3>1. o \in LeaderEntry
      BY DEF InShard, TypeOK
    <3>2. \A p \in InShard(leaders, e.shard) : p = o
      BY DEF InShard, TypeOK
    <3>3. followers' = Pushed(rest, o)
      <4>. HIDE DEF rest
      <4>. QED BY <2>1, <3>2 DEF rest
    <3>4. \E f \in Pushed(rest, o) : AsLeader(f) = o
      BY <2>4, <3>1, PushedFacts
    <3>. QED BY <3>3, <3>4
  <2>. HIDE DEF rest
  <2>7. ASSUME NEW m \in Nodes, m # n PROVE Kept(m)
    <3>1. heard'[m] = heard[m]
      BY <1>5, <2>7 DEF HeartbeatOfRaftLeader, TypeOK
    <3>2. ASSUME NEW g \in leaders \cup followers, g.node = m
          PROVE  FreshEntryAfter(m, g.age)
      <4>1. g.age \in Int
        BY DEF TypeOK, LeaderEntry, FollowerEntry, Ages
      <4>2. CASE g \in followers
        <5>1. PICK f \in followers' : AsLeader(f) = AsLeader(g)
          BY <2>2, <2>4, <2>5, <2>7, <3>2, <4>2
        <5>2. f.node = m /\ f.age = g.age
          BY <3>2, <5>1 DEF AsLeader
        <5>. QED BY <4>1, <5>2 DEF FreshEntryAfter
      <4>3. CASE g \in InShard(leaders, e.shard)
        <5>1. PICK f \in followers' : AsLeader(f) = g
          BY <2>6, <4>3
        <5>2. f.node = m /\ f.age = g.age
          BY <3>2, <5>1 DEF AsLeader
        <5>. QED BY <4>1, <5>2 DEF FreshEntryAfter
      <4>4. CASE g \in leaders \ InShard(leaders, e.shard)
        <5>1. g \in leaders'
          BY <2>1, <4>4
        <5>. QED BY <3>2, <5>1, <1>s
      <4>. QED BY <4>2, <4>3, <4>4
    <3>. QED BY <3>1, <3>2
  <2>. HIDE DEF Kept, Renewed
  <2>. QED BY <1>0, <2>3, <2>7
<1>6. CASE Reap
  <2>. DEFINE lead == Surviving(leaders)
              foll == Reindex(Surviving(followers))
              up == Promoted(lead, foll)
  <2>1. /\ leaders' = lead \cup {AsLeader(e) : e \in up}
        /\ followers' = foll \ up
        /\ heard' = heard
    BY <1>6 DEF Reap
  <2>2. \A g \in Surviving(followers) : \E f \in foll : AsLeader(f) = AsLeader(g)
    <3>1. Surviving(followers) \in SUBSET followers
      BY DEF Surviving
    <3>. QED BY <3>1, ReindexFacts, FS_Subset DEF TypeOK
  <2>3. \A g \in leaders : Live(g) => g \in lead
    BY DEF Surviving
  <2>. HIDE DEF lead, foll, up
  <2>4. ASSUME NEW m \in Nodes, NEW g \in leaders \cup followers, g.node = m, Live(g)
        PROVE  FreshEntryAfter(m, g.age)
    <3>1. g.age \in Int
      BY DEF TypeOK, LeaderEntry, FollowerEntry, Ages
    <3>2. CASE g \in leaders
      BY <2>1, <2>3, <2>4, <3>1, <3>2 DEF FreshEntryAfter
    <3>3. CASE g \in followers
      <4>1. PICK f \in foll : AsLeader(f) = AsLeader(g)
        BY <2>2, <2>4, <3>3 DEF Surviving
      <4>2. /\ f.node = m /\ f.age = g.age
            /\ AsLeader(f).node = m /\ AsLeader(f).age = g.age
        BY <2>4, <4>1 DEF AsLeader
      <4>3. f \in followers' \/ AsLeader(f) \in leaders'
        BY <2>1
      <4>. QED BY <3>1, <4>2, <4>3 DEF FreshEntryAfter
    <3>. QED BY <3>2, <3>3
  <2>. QED BY <1>0, <2>1, <2>4
<1>7. ASSUME NEW n \in Nodes, mark_draining(n)
      PROVE  NeverForgotten'
  BY <1>7 DEF mark_draining, NeverForgotten
<1>8. CASE Restart
  BY <1>8, TimeoutAssumption DEF Restart, NeverForgotten
<1>9. CASE Tick
  <2>. SUFFICES ASSUME NEW m \in Nodes, heard'[m] <= Timeout
               PROVE  FreshEntryAfter(m, heard'[m])
    BY DEF NeverForgotten, FreshEntryAfter
  <2>1. heard[m] \in Ages /\ heard'[m] = Older(heard[m])
    BY <1>9 DEF Tick, TypeOK
  <2>2. heard[m] <= Timeout /\ heard'[m] = heard[m] + 1
    BY <2>1, TimeoutAssumption DEF Older, Ages
  <2>3. PICK e \in leaders \cup followers : e.node = m /\ e.age <= heard[m]
    BY <2>2 DEF NeverForgotten
  <2>. DEFINE f == [e EXCEPT !.age = Older(e.age)]
  <2>4. f \in leaders' \cup followers'
    BY <1>9 DEF Tick
  <2>5. e.age \in Ages /\ f.node = m /\ f.age = Older(e.age)
    BY <2>3 DEF TypeOK, LeaderEntry, FollowerEntry
  <2>6. Older(e.age) <= heard[m] + 1
    BY <2>1, <2>2, <2>3, <2>5, TimeoutAssumption DEF Older, Ages
  <2>. HIDE DEF f
  <2>. QED BY <2>2, <2>4, <2>5, <2>6 DEF FreshEntryAfter
<1>10. CASE UNCHANGED vars
  BY <1>10 DEF vars, NeverForgotten
<1>. QED
  BY <1>1, <1>2, <1>3, <1>4, <1>5, <1>6, <1>7, <1>8, <1>9, <1>10
     DEF Next, RegisterRejected, HeartbeatUnknown

\* A node heard from within the liveness window always has an entry as fresh
\* as that contact: no interleaving of registrations, leader reports and
\* reaper passes by other nodes makes the coordinator forget it.
THEOREM NodesNeverForgotten == Spec => []NeverForgotten
<1>1. Init => NeverForgotten
  BY TimeoutAssumption DEF Init, NeverForgotten
<1>. QED BY <1>1, TypeCorrect, NeverForgottenStep, PTL DEF Spec

-----------------------------------------------------------------------------
(* The two action properties.                                              *)

KeptLeaders ==
  \A l \in leaders : Live(l) =>
    \/ \E k \in leaders' : k.shard = l.shard /\ k.node = l.node
    \/ \E n \in Nodes : HeartbeatOfRaftLeader(n)
    \/ Restart

\* A live leader loses its shard to a raft report or to a restart only.
THEOREM LiveLeadersKept == Spec => LiveLeaderKept
<1>1. TypeOK /\ [Next]_vars => [KeptLeaders]_vars
  <2>. SUFFICES ASSUME TypeOK, Next, NEW l \in leaders, Live(l),
                      ~ \E n \in Nodes : HeartbeatOfRaftLeader(n), ~Restart
               PROVE  \E k \in leaders' : k.shard = l.shard /\ k.node = l.node
    BY DEF KeptLeaders
  <2>1. ASSUME NEW n \in Nodes, NEW s \in Shards, RegisterLeader(n, s)
        PROVE  \E k \in leaders' : k.shard = l.shard /\ k.node = l.node
    <3>1. CASE l.shard # s
      BY <2>1, <3>1 DEF RegisterLeader, InShard
    <3>2. CASE l.shard = s
      <4>1. l.node = n
        BY <2>1, <3>2 DEF RegisterLeader, LiveIncumbent
      <4>. DEFINE k == [shard |-> s, node |-> n, age |-> 0]
      <4>2. k \in leaders' /\ k.shard = s /\ k.node = n
        BY <2>1 DEF RegisterLeader
      <4>. HIDE DEF k
      <4>. QED BY <3>2, <4>1, <4>2
    <3>. QED BY <3>1, <3>2
  <2>2. ASSUME NEW n \in Nodes, HeartbeatOfLeader(n)
        PROVE  \E k \in leaders' : k.shard = l.shard /\ k.node = l.node
    <3>1. PICK e \in leaders : leaders' = Fresh(leaders, e)
      BY <2>2 DEF HeartbeatOfLeader, LedBy
    <3>. DEFINE k == [e EXCEPT !.age = 0]
    <3>2. k \in leaders' /\ k.shard = e.shard /\ k.node = e.node
      BY <3>1 DEF Fresh, TypeOK, LeaderEntry
    <3>3. l # e => l \in leaders'
      BY <3>1 DEF Fresh
    <3>. HIDE DEF k
    <3>. QED BY <3>2, <3>3
  <2>3. CASE Reap
    BY <2>3 DEF Reap, Surviving
  <2>4. CASE Tick
    <3>. DEFINE k == [l EXCEPT !.age = Older(l.age)]
    <3>1. k \in leaders' /\ k.shard = l.shard /\ k.node = l.node
      BY <2>4 DEF Tick, TypeOK, LeaderEntry
    <3>. HIDE DEF k
    <3>. QED BY <3>1
  <2>5. CASE UNCHANGED leaders
    BY <2>5
  <2>. QED
    BY <2>1, <2>2, <2>3, <2>4, <2>5
       DEF Next, RegisterRejected, RegisterFollower, HeartbeatUnknown, vars,
           HeartbeatOfFollower, mark_draining
<1>. QED BY <1>1, TypeCorrect, PTL DEF Spec, LiveLeaderKept, KeptLeaders

\* A reaper pass completes failover: it routes to live nodes only, and every
\* shard that had a live entry has a leader after it.
THEOREM ReapCompletesFailover == Spec => FailoverComplete
<1>. DEFINE Routed == Reap => /\ \A k \in leaders' : Live(k)
                              /\ \A e \in leaders \cup followers : Live(e) =>
                                   \E k \in leaders' : k.shard = e.shard
<1>1. TypeOK /\ [Next]_vars => [Routed]_vars
  <2>. SUFFICES ASSUME TypeOK, Reap
               PROVE  /\ \A k \in leaders' : Live(k)
                      /\ \A e \in leaders \cup followers : Live(e) =>
                           \E k \in leaders' : k.shard = e.shard
    OBVIOUS
  <2>. DEFINE lead == Surviving(leaders)
              foll == Reindex(Surviving(followers))
              up == Promoted(lead, foll)
  <2>1. leaders' = lead \cup {AsLeader(e) : e \in up}
    BY DEF Reap
  <2>2. Surviving(followers) \in SUBSET followers
    BY DEF Surviving
  <2>3. /\ foll \subseteq FollowerEntry /\ IsFiniteSet(foll)
        /\ \A g \in Surviving(followers) : \E f \in foll : AsLeader(f) = AsLeader(g)
        /\ \A f \in foll : \E g \in Surviving(followers) : AsLeader(f) = AsLeader(g)
    BY <2>2, ReindexFacts, FS_Subset DEF TypeOK
  <2>4. up = {LastFollower(InShard(foll, s)) : s \in Orphaned(lead, foll)}
    BY DEF Promoted
  <2>5. lead = {e \in leaders : Live(e)}
    BY DEF Surviving
  <2>. HIDE DEF lead, foll, up
  <2>6. \A e \in up : e \in foll
    BY <2>3, <2>4, PromotedFacts
  <2>7. ASSUME NEW k \in leaders'
        PROVE  Live(k)
    <3>1. CASE k \in lead
      BY <2>5, <3>1
    <3>2. ASSUME NEW e \in up, k = AsLeader(e)
          PROVE  Live(k)
      <4>1. PICK g \in Surviving(followers) : AsLeader(e) = AsLeader(g)
        BY <2>3, <2>6
      <4>2. k.age = g.age /\ Live(g)
        BY <3>2, <4>1 DEF AsLeader, Surviving
      <4>. QED BY <4>2 DEF Live
    <3>. QED BY <2>1, <3>1, <3>2
  <2>8. ASSUME NEW e \in leaders \cup followers, Live(e)
        PROVE  \E k \in leaders' : k.shard = e.shard
    <3>1. CASE e \in leaders
      BY <2>1, <2>5, <2>8, <3>1
    <3>2. CASE e \in followers
      <4>1. PICK f \in foll : AsLeader(f) = AsLeader(e)
        BY <2>3, <2>8, <3>2 DEF Surviving
      <4>2. f.shard = e.shard /\ e.shard \in Shards /\ f \in InShard(foll, e.shard)
        BY <3>2, <4>1 DEF AsLeader, InShard, TypeOK, FollowerEntry
      <4>3. CASE InShard(lead, e.shard) # {}
        BY <2>1, <4>3 DEF InShard
      <4>4. CASE InShard(lead, e.shard) = {}
        <5>. DEFINE p == LastFollower(InShard(foll, e.shard))
        <5>1. p \in up
          BY <2>4, <4>2, <4>4 DEF Orphaned
        <5>2. p \in InShard(foll, e.shard)
          <6>1. InShard(foll, e.shard) \in SUBSET foll
            BY DEF InShard
          <6>. QED BY <2>3, <4>2, <6>1, FS_Subset, LastFacts
        <5>3. AsLeader(p) \in leaders' /\ AsLeader(p).shard = e.shard
          BY <2>1, <5>1, <5>2 DEF AsLeader, InShard
        <5>. QED BY <5>3
      <4>. QED BY <4>3, <4>4
    <3>. QED BY <3>1, <3>2
  <2>. QED BY <2>7, <2>8
<1>. QED BY <1>1, TypeCorrect, PTL DEF Spec, FailoverComplete

\* A drain marker outlives every step that keeps a singly listed node.
THEOREM DrainsSticky == Spec => DrainSticky
<1>. DEFINE Kept == \A n \in draining \ draining' :
                      knows_node(n)' => \E a, b \in EntriesOf(n) : a # b
<1>1. TypeOK /\ [Next]_vars => [Kept]_vars
  <2>. SUFFICES ASSUME TypeOK, Next, NEW n \in draining \ draining', knows_node(n)'
               PROVE  \E a, b \in EntriesOf(n) : a # b
    OBVIOUS
  <2>1. CASE Reap
    <3>. DEFINE foll == Reindex(Surviving(followers))
                up == Promoted(Surviving(leaders), foll)
    <3>1. PICK d \in leaders \cup followers : ~Live(d) /\ d.node = n
      BY <2>1 DEF Reap, DrainingAfterReap
    <3>2. /\ leaders' = Surviving(leaders) \cup {AsLeader(e) : e \in up}
          /\ followers' = foll \ up
      BY <2>1 DEF Reap
    <3>3. Surviving(followers) \in SUBSET followers
      BY DEF Surviving
    <3>4. /\ foll \subseteq FollowerEntry /\ IsFiniteSet(foll)
          /\ \A f \in foll : \E g \in Surviving(followers) : AsLeader(f) = AsLeader(g)
      BY <3>3, ReindexFacts, FS_Subset DEF TypeOK
    <3>. HIDE DEF foll
    <3>5. \A e \in up : e \in foll
      <4>1. up = {LastFollower(InShard(foll, s)) : s \in Orphaned(Surviving(leaders), foll)}
        BY DEF Promoted
      <4>. QED BY <3>4, <4>1, PromotedFacts
    <3>. HIDE DEF up
    <3>6. PICK k \in leaders' \cup followers' : k.node = n
      BY DEF knows_node, EntriesOf
    <3>7. PICK g \in leaders \cup followers : Live(g) /\ g.node = n
      <4>1. CASE k \in Surviving(leaders)
        BY <3>6, <4>1 DEF Surviving
      <4>2. CASE \E f \in foll : f.node = n
        <5>1. PICK f \in foll : f.node = n
          BY <4>2
        <5>2. PICK h \in Surviving(followers) : AsLeader(f) = AsLeader(h)
          BY <3>4
        <5>. QED BY <5>1, <5>2 DEF AsLeader, Surviving
      <4>3. \A e \in up : AsLeader(e).node = e.node
        BY DEF AsLeader
      <4>. QED BY <3>2, <3>5, <3>6, <4>1, <4>2, <4>3
    <3>. QED BY <3>1, <3>7 DEF EntriesOf
  <2>2. CASE Restart
    BY <2>2 DEF Restart, knows_node, EntriesOf
  <2>3. CASE draining \subseteq draining'
    BY <2>3
  <2>. QED
    BY <2>1, <2>2, <2>3
       DEF Next, RegisterLeader, RegisterRejected, RegisterFollower,
           HeartbeatUnknown, HeartbeatOfLeader, HeartbeatOfFollower,
           HeartbeatOfRaftLeader, mark_draining, Tick, vars
<1>. QED BY <1>1, TypeCorrect, PTL DEF Spec, DrainSticky

-----------------------------------------------------------------------------
(* Agents                                                                  *)

AnswerOf ==
  [text : {"error", "answer", "nothing", "partial"}, exhausted : BOOLEAN,
   provenance : Seq(Nat), calls : Nat]

AgentsTypeOK ==
  /\ question \in Nat /\ calls \in Nat
  /\ provenance \in Seq(Nat) /\ sent \in Nat /\ mimics \in Nat
  /\ answers \in Seq(AnswerOf)
  /\ mails \in Seq({"refused", "delivered", "failed"})

\* F[i] is the evidence of the first i answers.
Gathers(F) ==
  F = [i \in 1 .. Len(answers) |->
         IF i = 1 THEN answers[i].provenance ELSE F[i - 1] \o answers[i].provenance]

\* The evidence of the answers, then that of the question in hand
GatheredInto(E) ==
  \/ answers = <<>> /\ provenance = E
  \/ \E F : /\ answers # <<>> /\ Gathers(F) /\ F[Len(answers)] \in Seq(Nat)
            /\ F[Len(answers)] \o provenance = E

\* It has the manifests in order, and none that is still to be sent.
Gathered ==
  \E E \in Seq(Nat) : GatheredInto(E) /\ Faithful(E) /\ \A i \in DOMAIN E : E[i] <= sent

Budgeted ==
  /\ calls <= max_tool_calls
  /\ \A i \in DOMAIN answers :
       answers[i].calls <= max_tool_calls
         /\ (answers[i].exhausted => answers[i].calls = max_tool_calls)

Allowlisted == left = DOMAIN mails \cap Allowed

AgentsInv == AgentsTypeOK /\ Gathered /\ Budgeted /\ Allowlisted

-----------------------------------------------------------------------------
(* Memory                                                                  *)

MemoryTypeOK ==
  /\ accepted \subseteq MemoryEntry /\ memory \subseteq accepted /\ IsFiniteSet(memory)
  /\ next_id \in Nat /\ now_ms \in 0 .. MaxClock /\ latest \in Nat
  /\ refused \subseteq [namespace : Namespaces, writer : Writers]

\* Ids are handed out once.
Numbered ==
  /\ \A e \in accepted : e.id < next_id
  /\ \A e, f \in accepted : e.id = f.id => e = f

Quotas == \A ns \in Namespaces, w \in Writers : Cardinality(HeldBy(memory, ns, w)) <= Quota

FairRefusal ==
  \A r \in refused : Cardinality(HeldBy(recall(r.namespace), r.namespace, r.writer)) = Quota

\* What is not due yet, by any clock so far, has not been swept.
Kept ==
  /\ now_ms <= latest
  /\ \A e \in accepted : ~Wraps(e) /\ (e.ttl_secs = 0 \/ latest < Due(e)) => e \in memory

MemoryInv == MemoryTypeOK /\ Numbered /\ Quotas /\ FairRefusal /\ Kept

-----------------------------------------------------------------------------
(* Supervisor                                                              *)

ProcessName ==
  [shard : Int, name : {"coordinator", "leader", "f", "m"}, seq : Nat]

SupervisorTypeOK ==
  /\ serving \in {"booting", "serving", "stopping", "exited"}
  /\ children \subseteq [id : ProcessName, process : Nat]
  /\ adding \subseteq [id : ProcessName, process : Nat]
  /\ started \in Nat /\ follower_seq \in Nat \ {0}

\* Names of followers are used once, so that no entry of the table replaces
\* another.
FreshNames ==
  /\ \A c \in children : c.id.name = "f" => c.id.seq < follower_seq
  /\ \A a \in adding : a.id.name = "f" /\ a.id.seq < follower_seq
  /\ \A a \in adding, c \in children : a.id # c.id
  /\ \A a, b \in adding : a.id = b.id => a = b

\* Requests are under way only while the dashboard serves or stops.
Underway == serving \in {"booting", "exited"} => adding = {}

SupervisorInv == SupervisorTypeOK /\ FreshNames /\ Underway /\ NoOrphans

FrontendsInv == AgentsInv /\ MemoryInv /\ SupervisorInv

-----------------------------------------------------------------------------
(* Proofs: the supervisor                                                  *)

\* The names of the initial topology are names, and only f0 of a follower.
LEMMA SpawnedNames ==
  ASSUME NEW id \in Spawned
  PROVE  id \in ProcessName /\ (id.name = "f" => id.seq = 0)
<1>1. CASE id = Coordinator
  BY <1>1 DEF Coordinator, ProcessName
<1>2. CASE id \in InitialTopology
  <2>1. PICK s \in 0 .. ShardCount - 1 :
          id \in IF mode_raft THEN {Name(s, "m", i) : i \in 0 .. 2}
                ELSE {Name(s, "leader", 0), Name(s, "f", 0)}
    BY <1>2 DEF InitialTopology
  <2>2. s \in Int
    BY SupervisorAssumption
  <2>3. CASE mode_raft
    BY <2>1, <2>2, <2>3 DEF Name, ProcessName
  <2>4. CASE ~mode_raft
    BY <2>1, <2>2, <2>4 DEF Name, ProcessName
  <2>. QED BY <2>3, <2>4
<1>. QED BY <1>1, <1>2 DEF Spawned

\* Processes are started one after the other before the dashboard serves.
LEMMA BootStep ==
  ASSUME SupervisorInv, NEW id \in Spawned, Boot(id)
  PROVE  SupervisorInv'
<1>1. /\ serving = "booting" /\ \A c \in children : c.id # id
      /\ started' = started + 1 /\ running' = running \cup {started + 1}
      /\ children' = Enter(id, started + 1)
      /\ UNCHANGED <<serving, follower_seq, adding>>
  BY DEF Boot
<1>2. adding = {}
  BY <1>1 DEF SupervisorInv, Underway
<1>3. children' = children \cup {[id |-> id, process |-> started + 1]}
  BY <1>1 DEF Enter
<1>4. SupervisorTypeOK'
  BY <1>1, <1>3, SpawnedNames DEF SupervisorInv, SupervisorTypeOK
<1>5. FreshNames'
  <2>1. 0 < follower_seq
    BY DEF SupervisorInv, SupervisorTypeOK
  <2>. QED BY <1>1, <1>2, <1>3, <2>1, SpawnedNames DEF SupervisorInv, FreshNames
<1>6. NoOrphans'
  BY <1>1, <1>2, <1>3 DEF SupervisorInv, NoOrphans
<1>. QED BY <1>1, <1>2, <1>4, <1>5, <1>6 DEF SupervisorInv, Underway

\* A request starts a process under a name that no other has.
LEMMA AddFollowerStep ==
  ASSUME SupervisorInv, NEW shard \in 0 .. ShardCount - 1, add_follower(shard)
  PROVE  SupervisorInv'
<1>. DEFINE a == [id |-> Name(shard, "f", follower_seq), process |-> started + 1]
<1>1. /\ serving \in {"serving", "stopping"} /\ follower_seq' = follower_seq + 1
      /\ started' = started + 1 /\ running' = running \cup {started + 1}
      /\ adding' = adding \cup {a}
      /\ UNCHANGED <<serving, children>>
  BY DEF add_follower
<1>2. /\ a.id \in ProcessName /\ a.id.name = "f" /\ a.id.seq = follower_seq
      /\ a.process = started + 1 /\ a \in [id : ProcessName, process : Nat]
  BY SupervisorAssumption DEF Name, ProcessName, SupervisorInv, SupervisorTypeOK
<1>. HIDE DEF a
<1>3. SupervisorTypeOK'
  BY <1>1, <1>2 DEF SupervisorInv, SupervisorTypeOK
<1>4. \A x \in children \cup adding :
        x.id.seq \in Nat /\ (x.id.name = "f" => x.id.seq < follower_seq)
  BY DEF SupervisorInv, SupervisorTypeOK, FreshNames, ProcessName
<1>5. \A x \in children \cup adding : x.id # a.id
  BY <1>2, <1>4 DEF SupervisorInv, SupervisorTypeOK
<1>6. FreshNames'
  <2>1. \A x \in children \cup adding' : x.id.name = "f" => x.id.seq < follower_seq'
    BY <1>1, <1>2, <1>4 DEF SupervisorInv, SupervisorTypeOK
  <2>. QED BY <1>1, <1>2, <1>5, <2>1 DEF SupervisorInv, FreshNames
<1>7. NoOrphans'
  BY <1>1, <1>2 DEF SupervisorInv, NoOrphans
<1>. QED BY <1>1, <1>3, <1>6, <1>7 DEF SupervisorInv, Underway

\* The process is entered, and replaces no other.
LEMMA InsertStep ==
  ASSUME SupervisorInv, NEW a \in adding, Insert(a)
  PROVE  SupervisorInv'
<1>1. /\ adding' = adding \ {a} /\ children' = Enter(a.id, a.process)
      /\ UNCHANGED <<serving, running, started, follower_seq>>
  BY DEF Insert
<1>2. \A c \in children : c.id # a.id
  BY DEF SupervisorInv, FreshNames
<1>3. a = [id |-> a.id, process |-> a.process]
  BY DEF SupervisorInv, SupervisorTypeOK
<1>4. children' = children \cup {a}
  BY <1>1, <1>2, <1>3 DEF Enter
<1>5. SupervisorTypeOK'
  BY <1>1, <1>4 DEF SupervisorInv, SupervisorTypeOK
<1>6. FreshNames'
  BY <1>1, <1>4 DEF SupervisorInv, FreshNames
<1>7. NoOrphans'
  BY <1>1, <1>4 DEF SupervisorInv, NoOrphans
<1>. QED BY <1>1, <1>5, <1>6, <1>7 DEF SupervisorInv, Underway

\* Every other step ends processes, and their entries only with them.
LEMMA EndingStep ==
  ASSUME SupervisorInv,
         \/ Serve \/ SpawnFails \/ CtrlC \/ Exit
         \/ \E id : kill(id)
         \/ \E p \in running : Die(p)
  PROVE  SupervisorInv'
<1>1. CASE Serve
  BY <1>1 DEF Serve, SupervisorInv, SupervisorTypeOK, FreshNames, Underway, NoOrphans
<1>2. CASE SpawnFails
  <2>1. CASE serving \in {"serving", "stopping"}
    <3>1. follower_seq' = follower_seq + 1 /\ UNCHANGED <<serving, children, running, adding, started>>
      BY <1>2, <2>1 DEF SpawnFails
    <3>2. \A x \in children \cup adding :
            x.id.seq \in Nat /\ (x.id.name = "f" => x.id.seq < follower_seq + 1)
      BY DEF SupervisorInv, SupervisorTypeOK, FreshNames, ProcessName
    <3>3. FreshNames'
      BY <3>1, <3>2 DEF SupervisorInv, FreshNames
    <3>. QED BY <3>1, <3>3 DEF SupervisorInv, SupervisorTypeOK, Underway, NoOrphans
  <2>2. CASE serving \notin {"serving", "stopping"}
    <3>1. /\ serving = "booting" /\ serving' = "exited" /\ children' = {}
          /\ running' = running \ {c.process : c \in children}
          /\ UNCHANGED <<follower_seq, adding, started>>
      BY <1>2, <2>2 DEF SpawnFails
    <3>2. adding = {}
      BY <3>1 DEF SupervisorInv, Underway
    <3>3. running' = {}
      BY <3>1, <3>2 DEF SupervisorInv, NoOrphans
    <3>. QED BY <3>1, <3>2, <3>3 DEF SupervisorInv, SupervisorTypeOK, FreshNames, Underway, NoOrphans
  <2>. QED BY <2>1, <2>2
<1>3. CASE CtrlC
  <2>1. /\ serving' = "stopping" /\ children' = {}
        /\ running' = running \ {c.process : c \in children}
        /\ UNCHANGED <<follower_seq, adding, started>>
    BY <1>3 DEF CtrlC, Killed
  <2>2. running' \subseteq {a.process : a \in adding}
    BY <2>1 DEF SupervisorInv, NoOrphans
  <2>. QED BY <2>1, <2>2 DEF SupervisorInv, SupervisorTypeOK, FreshNames, Underway, NoOrphans
<1>4. CASE Exit
  <2>1. /\ serving' = "exited" /\ children' = {} /\ adding = {}
        /\ running' = running \ {c.process : c \in children}
        /\ UNCHANGED <<follower_seq, adding, started>>
    BY <1>4 DEF Exit, Killed
  <2>2. running' = {}
    BY <2>1 DEF SupervisorInv, NoOrphans
  <2>. QED BY <2>1, <2>2 DEF SupervisorInv, SupervisorTypeOK, FreshNames, Underway, NoOrphans
<1>5. ASSUME NEW id, kill(id)
      PROVE  SupervisorInv'
  <2>1. PICK c \in children : children' = children \ {c} /\ running' = running \ {c.process}
    BY <1>5 DEF kill
  <2>2. UNCHANGED <<serving, started, follower_seq, adding>>
    BY <1>5 DEF kill
  <2>3. NoOrphans'
    BY <2>1, <2>2 DEF SupervisorInv, NoOrphans
  <2>. QED BY <2>1, <2>2, <2>3 DEF SupervisorInv, SupervisorTypeOK, FreshNames, Underway
<1>6. ASSUME NEW p \in running, Die(p)
      PROVE  SupervisorInv'
  BY <1>6 DEF Die, SupervisorInv, SupervisorTypeOK, FreshNames, Underway, NoOrphans
<1>. QED BY <1>1, <1>2, <1>3, <1>4, <1>5, <1>6

\* Every step of the supervisor keeps its invariant.
LEMMA SupervisorStep ==
  ASSUME SupervisorInv, [SupervisorNext]_sup_vars
  PROVE  SupervisorInv'
<1>1. CASE UNCHANGED sup_vars
  BY <1>1 DEF sup_vars, SupervisorInv, SupervisorTypeOK, FreshNames, Underway, NoOrphans
<1>. QED BY <1>1, BootStep, AddFollowerStep, InsertStep, EndingStep DEF SupervisorNext

\* Nothing runs before the dashboard starts anything.
LEMMA SupervisorStart == SupervisorInit => SupervisorInv
BY DEF SupervisorInit, SupervisorInv, SupervisorTypeOK, FreshNames, Underway, NoOrphans

-----------------------------------------------------------------------------
(* Proofs: agent memory                                                    *)

\* Below the width of a time, counting in milliseconds does not wrap.
LEMMA Unwrapped ==
  ASSUME NEW e \in MemoryEntry, ~Wraps(e), NEW t
  PROVE  expired_at(e, t) <=> e.ttl_secs # 0 /\ t >= Due(e)
<1>1. e.ttl_secs \in Nat /\ e.created_ms \in Nat /\ Milli \in Nat /\ Width \in Nat
  BY MemoryTimesAssumption DEF MemoryEntry
<1>2. PICK x \in Nat : x = e.ttl_secs * Milli
  BY <1>1
<1>3. e.created_ms + x < Width
  BY <1>1, <1>2 DEF Wraps, Due
<1>4. x % Width = x /\ (e.created_ms + x) % Width = e.created_ms + x
  <2>1. \A y \in Nat : y < Width => y % Width = y
    BY <1>1
  <2>2. x < Width /\ e.created_ms + x \in Nat
    BY <1>1, <1>3
  <2>. QED BY <1>3, <2>1, <2>2
<1>. QED BY <1>2, <1>4 DEF expired_at, Due

\* What a writer holds of a smaller store is no more.
LEMMA HeldLess ==
  ASSUME NEW S, NEW T, S \subseteq T, IsFiniteSet(T), NEW ns, NEW w
  PROVE  /\ Cardinality(HeldBy(S, ns, w)) <= Cardinality(HeldBy(T, ns, w))
         /\ Cardinality(HeldBy(S, ns, w)) \in Nat
         /\ Cardinality(HeldBy(T, ns, w)) \in Nat
         /\ IsFiniteSet(HeldBy(S, ns, w))
<1>1. HeldBy(S, ns, w) \subseteq HeldBy(T, ns, w) /\ HeldBy(T, ns, w) \subseteq T
  BY DEF HeldBy
<1>2. IsFiniteSet(HeldBy(T, ns, w))
  BY <1>1, FS_Subset
<1>. QED BY <1>1, <1>2, FS_Subset, FS_CardinalityType

\* A sweep leaves a part of the store, with all that is not due yet.
LEMMA SweptFacts ==
  ASSUME MemoryInv, NEW S, S \subseteq memory,
         \A e \in memory \ S : expired_at(e, now_ms)
  PROVE  /\ IsFiniteSet(S)
         /\ \A ns \in Namespaces, w \in Writers : Cardinality(HeldBy(S, ns, w)) <= Quota
         /\ \A e \in accepted : ~Wraps(e) /\ (e.ttl_secs = 0 \/ latest < Due(e)) => e \in S
<1>1. IsFiniteSet(memory)
  BY DEF MemoryInv, MemoryTypeOK
<1>2. IsFiniteSet(S)
  BY <1>1, FS_Subset
<1>3. \A ns \in Namespaces, w \in Writers : Cardinality(HeldBy(S, ns, w)) <= Quota
  BY <1>1, HeldLess, QuotaAssumption DEF MemoryInv, Quotas
<1>4. ASSUME NEW e \in accepted, ~Wraps(e), e.ttl_secs = 0 \/ latest < Due(e)
      PROVE  e \in S
  <2>1. e \in MemoryEntry /\ e \in memory
    BY <1>4 DEF MemoryInv, MemoryTypeOK, Kept
  <2>2. e.ttl_secs \in Nat /\ e.created_ms \in Nat /\ Milli \in Nat
    BY <2>1, MemoryTimesAssumption DEF MemoryEntry
  <2>3. Due(e) \in Nat
    BY <2>2 DEF Due
  <2>4. now_ms \in Int /\ latest \in Nat /\ now_ms <= latest
    BY DEF MemoryInv, MemoryTypeOK, Kept
  <2>5. ~expired_at(e, now_ms)
    BY <1>4, <2>1, <2>3, <2>4, Unwrapped
  <2>. QED BY <2>1, <2>5
<1>. QED BY <1>2, <1>3, <1>4

\* A write sweeps its namespace and is then counted against its quota.
LEMMA RememberStep ==
  ASSUME MemoryInv, NEW ns \in Namespaces, NEW w \in Writers, NEW ttl \in Ttls,
         remember(ns, w, ttl)
  PROVE  MemoryInv'
<1>. DEFINE swept == sweep_namespace(ns)
            entry == [id |-> next_id, namespace |-> ns, writer |-> w,
                      created_ms |-> now_ms, ttl_secs |-> ttl]
<1>1. now_ms' = now_ms /\ latest' = latest
  BY DEF remember
<1>2. swept \subseteq memory /\ \A e \in memory \ swept : expired_at(e, now_ms)
  BY DEF sweep_namespace
<1>3. \A e \in swept : e.namespace = ns => ~expired_at(e, now_ms)
  BY DEF sweep_namespace
<1>4. /\ IsFiniteSet(swept)
      /\ \A n \in Namespaces, v \in Writers : Cardinality(HeldBy(swept, n, v)) <= Quota
      /\ \A e \in accepted : ~Wraps(e) /\ (e.ttl_secs = 0 \/ latest < Due(e)) => e \in swept
  BY <1>2, SweptFacts
<1>5. CASE Cardinality(HeldBy(swept, ns, w)) >= Quota
  <2>1. memory' = swept /\ refused' = {[namespace |-> ns, writer |-> w]}
        /\ UNCHANGED <<next_id, accepted>>
    BY <1>5 DEF remember
  <2>. HIDE DEF swept
  <2>2. MemoryTypeOK'
    BY <1>1, <1>2, <1>4, <2>1 DEF MemoryInv, MemoryTypeOK
  <2>3. FairRefusal'
    <3>1. HeldBy(recall(ns)', ns, w) = HeldBy(swept, ns, w)
      BY <1>1, <1>3, <2>1 DEF HeldBy, recall
    <3>2. Cardinality(HeldBy(swept, ns, w)) = Quota
      BY <1>4, <1>5, HeldLess, QuotaAssumption
    <3>3. \A r \in refused' : r.namespace = ns /\ r.writer = w
      BY <2>1
    <3>4. Cardinality(HeldBy(recall(ns), ns, w))' = Quota
      BY <3>1, <3>2 DEF HeldBy
    <3>. QED BY <3>3, <3>4 DEF FairRefusal
  <2>4. Quotas' /\ Kept'
    BY <1>1, <1>4, <2>1 DEF MemoryInv, Quotas, Kept, HeldBy, Wraps, Due
  <2>. QED BY <2>1, <2>2, <2>3, <2>4 DEF MemoryInv, Numbered
<1>6. CASE ~(Cardinality(HeldBy(swept, ns, w)) >= Quota)
  <2>1. /\ memory' = swept \cup {entry} /\ refused' = {}
        /\ next_id' = next_id + 1 /\ accepted' = accepted \cup {entry}
    BY <1>6 DEF remember
  <2>2. now_ms \in Nat /\ next_id \in Nat
    BY MemoryTimesAssumption DEF MemoryInv, MemoryTypeOK
  <2>3. /\ entry \in MemoryEntry /\ entry.id = next_id
        /\ entry.namespace = ns /\ entry.writer = w
    BY <2>2 DEF MemoryEntry
  <2>. HIDE DEF swept, entry
  <2>4. MemoryTypeOK'
    <3>1. IsFiniteSet(swept \cup {entry})
      BY <1>4, FS_AddElement
    <3>. QED BY <1>1, <1>2, <2>1, <2>2, <2>3, <3>1 DEF MemoryInv, MemoryTypeOK
  <2>5. Numbered'
    <3>1. \A e \in accepted : e.id \in Nat /\ e.id < next_id
      BY DEF MemoryInv, MemoryTypeOK, Numbered, MemoryEntry
    <3>2. \A e \in accepted : e.id # entry.id
      BY <2>2, <2>3, <3>1
    <3>3. \A e \in accepted' : e.id < next_id'
      BY <2>1, <2>2, <2>3, <3>1
    <3>. QED BY <2>1, <3>2, <3>3 DEF MemoryInv, Numbered
  <2>6. Quotas'
    <3>. SUFFICES ASSUME NEW n \in Namespaces, NEW v \in Writers
                  PROVE  Cardinality(HeldBy(memory', n, v)) <= Quota
      BY DEF Quotas, HeldBy
    <3>1. CASE n = ns /\ v = w
      <4>1. HeldBy(memory', n, v) = HeldBy(swept, ns, w) \cup {entry}
        BY <2>1, <2>3, <3>1 DEF HeldBy
      <4>2. /\ Cardinality(HeldBy(swept, ns, w)) \in Nat
            /\ IsFiniteSet(HeldBy(swept, ns, w))
        BY <1>4, HeldLess
      <4>3. \/ Cardinality(HeldBy(memory', n, v)) = Cardinality(HeldBy(swept, ns, w))
            \/ Cardinality(HeldBy(memory', n, v)) = Cardinality(HeldBy(swept, ns, w)) + 1
        <5>1. PICK H : H = HeldBy(swept, ns, w) /\ IsFiniteSet(H)
          BY <4>2
        <5>2. Cardinality(H \cup {entry}) = IF entry \in H THEN Cardinality(H) ELSE Cardinality(H) + 1
          BY <5>1, FS_AddElement
        <5>. QED BY <4>1, <5>1, <5>2
      <4>. QED BY <1>6, <4>2, <4>3, QuotaAssumption
    <3>2. CASE ~(n = ns /\ v = w)
      <4>1. HeldBy(memory', n, v) = HeldBy(swept, n, v)
        BY <2>1, <2>3, <3>2 DEF HeldBy
      <4>. QED BY <1>4, <4>1
    <3>. QED BY <3>1, <3>2
  <2>7. Kept'
    BY <1>1, <1>4, <2>1 DEF MemoryInv, Kept, Wraps, Due
  <2>8. FairRefusal'
    BY <2>1 DEF FairRefusal
  <2>. QED BY <2>4, <2>5, <2>6, <2>7, <2>8 DEF MemoryInv
<1>. QED BY <1>5, <1>6

\* The periodic sweep takes what is expired and nothing else.
LEMMA SweepStep == ASSUME MemoryInv, sweep PROVE MemoryInv'
<1>1. /\ memory' = {e \in memory : e \in sweep_namespace(e.namespace)} /\ refused' = {}
      /\ UNCHANGED <<next_id, now_ms, accepted, latest>>
  BY DEF sweep
<1>2. memory' \subseteq memory /\ \A e \in memory \ memory' : expired_at(e, now_ms)
  BY <1>1 DEF sweep_namespace
<1>3. /\ IsFiniteSet(memory')
      /\ \A n \in Namespaces, v \in Writers : Cardinality(HeldBy(memory', n, v)) <= Quota
      /\ \A e \in accepted : ~Wraps(e) /\ (e.ttl_secs = 0 \/ latest < Due(e)) => e \in memory'
  <2>. DEFINE S == memory'
  <2>1. S \subseteq memory /\ \A e \in memory \ S : expired_at(e, now_ms)
    BY <1>2
  <2>. HIDE DEF S
  <2>2. /\ IsFiniteSet(S)
        /\ \A n \in Namespaces, v \in Writers : Cardinality(HeldBy(S, n, v)) <= Quota
        /\ \A e \in accepted : ~Wraps(e) /\ (e.ttl_secs = 0 \/ latest < Due(e)) => e \in S
    BY <2>1, SweptFacts
  <2>. QED BY <2>2 DEF S
<1>4. MemoryTypeOK'
  BY <1>1, <1>2, <1>3 DEF MemoryInv, MemoryTypeOK
<1>5. Quotas' /\ Kept' /\ Numbered'
  BY <1>1, <1>3 DEF MemoryInv, Quotas, Kept, Numbered, HeldBy, Wraps, Due
<1>6. FairRefusal'
  BY <1>1 DEF FairRefusal
<1>. QED BY <1>4, <1>5, <1>6 DEF MemoryInv

\* A clock that goes on, or is set back, changes no entry.
LEMMA ClockStep == ASSUME MemoryInv, NEW t \in 0 .. MaxClock, Clock(t) PROVE MemoryInv'
<1>1. /\ now_ms' = t /\ latest' = (IF t > latest THEN t ELSE latest) /\ refused' = {}
      /\ UNCHANGED <<memory, next_id, accepted>>
  BY DEF Clock
<1>2. t \in Nat /\ latest \in Nat /\ latest' \in Nat /\ latest <= latest' /\ t <= latest'
  BY <1>1, MemoryTimesAssumption DEF MemoryInv, MemoryTypeOK
<1>3. MemoryTypeOK'
  BY <1>1, <1>2 DEF MemoryInv, MemoryTypeOK
<1>4. Kept'
  <2>1. ASSUME NEW e \in accepted, latest' < Due(e)
        PROVE  latest < Due(e)
    <3>1. e.ttl_secs \in Nat /\ e.created_ms \in Nat /\ Milli \in Nat
      BY MemoryTimesAssumption DEF MemoryInv, MemoryTypeOK, MemoryEntry
    <3>2. Due(e) \in Nat
      BY <3>1 DEF Due
    <3>. QED BY <1>2, <2>1, <3>2
  <2>2. \A e : Due(e)' = Due(e) /\ (Wraps(e)' <=> Wraps(e))
    BY DEF Due, Wraps
  <2>. QED BY <1>1, <1>2, <2>1, <2>2 DEF MemoryInv, Kept
<1>5. FairRefusal' /\ Quotas' /\ Numbered'
  BY <1>1 DEF MemoryInv, FairRefusal, Quotas, Numbered, HeldBy
<1>. QED BY <1>3, <1>4, <1>5 DEF MemoryInv

\* Every step of agent memory keeps its invariant.
LEMMA MemoryStep ==
  ASSUME MemoryInv, [MemoryNext]_memory_vars
  PROVE  MemoryInv'
<1>1. CASE UNCHANGED memory_vars
  <2>1. MemoryTypeOK' /\ Numbered' /\ Quotas' /\ Kept'
    BY <1>1 DEF memory_vars, MemoryInv, MemoryTypeOK, Numbered, Quotas, Kept, HeldBy, Wraps, Due
  <2>2. \A n : recall(n)' = recall(n)
    BY <1>1 DEF memory_vars, recall, expired_at
  <2>3. FairRefusal'
    BY <1>1, <2>2 DEF memory_vars, MemoryInv, FairRefusal, HeldBy
  <2>. QED BY <2>1, <2>3 DEF MemoryInv
<1>. QED BY <1>1, RememberStep, SweepStep, ClockStep DEF MemoryNext

\* Agent memory starts empty.
LEMMA MemoryStart == MemoryInit => MemoryInv
<1>. SUFFICES ASSUME MemoryInit PROVE MemoryInv
  OBVIOUS
<1>1. memory = {} /\ accepted = {} /\ refused = {} /\ now_ms = 0 /\ latest = 0 /\ next_id = 0
  BY DEF MemoryInit
<1>2. IsFiniteSet(memory) /\ Cardinality({}) = 0
  BY <1>1, FS_EmptySet
<1>3. \A ns, w : HeldBy(memory, ns, w) = {}
  BY <1>1 DEF HeldBy
<1>. QED BY <1>1, <1>2, <1>3, QuotaAssumption, MemoryTimesAssumption
         DEF MemoryInv, MemoryTypeOK, Numbered, Quotas, FairRefusal, Kept

\* What the invariant says of writers and of callers.
LEMMA MemoryIsGoverned == ASSUME MemoryInv PROVE MemoryGoverned
<1>1. ASSUME NEW e \in accepted, ~Wraps(e)
      PROVE  /\ e.ttl_secs = 0 \/ latest < Due(e) => e \in recall(e.namespace)
             /\ e \in recall(e.namespace) => e.ttl_secs = 0 \/ now_ms < Due(e)
  <2>1. e \in MemoryEntry
    BY DEF MemoryInv, MemoryTypeOK
  <2>2. e.ttl_secs \in Nat /\ e.created_ms \in Nat /\ Milli \in Nat
    BY <2>1, MemoryTimesAssumption DEF MemoryEntry
  <2>3. Due(e) \in Nat
    BY <2>2 DEF Due
  <2>4. now_ms \in Int /\ latest \in Nat /\ now_ms <= latest
    BY DEF MemoryInv, MemoryTypeOK, Kept
  <2>5. expired_at(e, now_ms) <=> e.ttl_secs # 0 /\ now_ms >= Due(e)
    BY <1>1, <2>1, Unwrapped
  <2>. QED BY <1>1, <2>3, <2>4, <2>5 DEF MemoryInv, Kept, recall
<1>2. \A e, f \in memory : e.id = f.id => e = f
  BY DEF MemoryInv, MemoryTypeOK, Numbered
<1>. QED BY <1>1, <1>2 DEF MemoryInv, MemoryGoverned, Quotas, FairRefusal

-----------------------------------------------------------------------------
(* Proofs: the agents                                                      *)

\* A non-empty set of numbers has a least element.
LEMMA LeastNumber ==
  ASSUME NEW D, D \subseteq Nat, D # {}
  PROVE  \E d \in D : \A e \in D : d <= e
<1>. DEFINE R == OpToRel(<, Nat)
<1>1. PICK d \in D : \A e \in D : <<e, d>> \notin R
  <2>1. IsWellFoundedOn(R, Nat)
    BY NatLessThanWellFounded
  <2>. HIDE DEF R
  <2>. QED BY <2>1, WFMin
<1>2. \A e \in D : ~(e < d)
  BY <1>1 DEF OpToRel
<1>. QED BY <1>2

\* There is one way to gather the evidence of a list of answers.
LEMMA GathersOnce ==
  ASSUME AgentsTypeOK, NEW F, NEW G, Gathers(F), Gathers(G)
  PROVE  \A i \in 1 .. Len(answers) : F[i] = G[i]
<1>. DEFINE D == {i \in 1 .. Len(answers) : F[i] # G[i]}
<1>. SUFFICES ASSUME D # {} PROVE FALSE
  OBVIOUS
<1>1. Len(answers) \in Nat
  BY DEF AgentsTypeOK
<1>2. PICK d \in D : \A e \in D : d <= e
  <2>1. D \subseteq Nat
    BY <1>1
  <2>. HIDE DEF D
  <2>. QED BY <2>1, LeastNumber
<1>3. d \in 1 .. Len(answers) /\ F[d] # G[d]
  OBVIOUS
<1>4. /\ F[d] = IF d = 1 THEN answers[d].provenance ELSE F[d - 1] \o answers[d].provenance
      /\ G[d] = IF d = 1 THEN answers[d].provenance ELSE G[d - 1] \o answers[d].provenance
  BY <1>3 DEF Gathers
<1>5. d # 1 /\ F[d - 1] # G[d - 1]
  BY <1>3, <1>4
<1>6. d - 1 \in D
  BY <1>1, <1>3, <1>5
<1>. QED BY <1>2, <1>3, <1>6

\* Flattening gathers.
LEMMA EvidenceGathered ==
  ASSUME AgentsTypeOK, NEW F, Gathers(F), answers # <<>>
  PROVE  Evidence = F[Len(answers)]
<1>. DEFINE s == [i \in DOMAIN answers |-> answers[i].provenance]
            n == Len(answers)
<1>1. n \in Nat /\ n # 0 /\ DOMAIN answers = 1 .. n
  BY DEF AgentsTypeOK
<1>2. s \in Seq(Seq(Nat)) /\ Len(s) = n
  <2>1. \A i \in 1 .. n : answers[i] \in AnswerOf
    BY <1>1 DEF AgentsTypeOK
  <2>2. \A i \in 1 .. n : answers[i].provenance \in Seq(Nat)
    BY <2>1 DEF AnswerOf
  <2>3. s = [i \in 1 .. n |-> answers[i].provenance]
    BY <1>1
  <2>4. s \in [1 .. n -> Seq(Nat)]
    BY <2>2, <2>3
  <2>. HIDE DEF s, n
  <2>. QED BY <1>1, <2>4
<1>3. \A G : Gathers(G) <=> G = [i \in 1 .. Len(s) |-> IF i = 1 THEN s[i] ELSE G[i - 1] \o s[i]]
  BY <1>1, <1>2 DEF Gathers
<1>. DEFINE H == CHOOSE G : G = [i \in 1 .. Len(s) |-> IF i = 1 THEN s[i] ELSE G[i - 1] \o s[i]]
<1>4. Evidence = H[n]
  BY <1>1, <1>2 DEF Evidence, FlattenSeq
<1>5. Gathers(H)
  BY <1>3
<1>. HIDE DEF H, s
<1>. QED BY <1>1, <1>4, <1>5, GathersOnce

\* The answer of a question takes the evidence of the question with it.
LEMMA ReturnStep ==
  ASSUME AgentsInv, NEW text \in {"error", "answer", "nothing", "partial"}, NEW exhausted \in BOOLEAN,
         exhausted => calls = max_tool_calls, Return(text, exhausted)
  PROVE  AgentsInv'
<1>. DEFINE a == [text |-> text, exhausted |-> exhausted, provenance |-> provenance, calls |-> calls]
            n == Len(answers)
<1>1. /\ answers' = Append(answers, a) /\ question' = question + 1
      /\ provenance' = <<>> /\ calls' = 0
      /\ UNCHANGED <<mails, left, sent, mimics>>
  BY DEF Return
<1>2. /\ a \in AnswerOf /\ a.provenance = provenance /\ a.calls = calls
      /\ a.exhausted = exhausted /\ provenance \in Seq(Nat)
  BY DEF AgentsInv, AgentsTypeOK, AnswerOf
<1>. HIDE DEF a
<1>3. answers \in Seq(AnswerOf) /\ n \in Nat
  BY DEF AgentsInv, AgentsTypeOK
<1>4. /\ answers' \in Seq(AnswerOf) /\ Len(answers') = n + 1 /\ answers' # <<>>
      /\ answers'[n + 1] = a /\ \A i \in 1 .. n : answers'[i] = answers[i]
      /\ DOMAIN answers' = 1 .. n + 1 /\ DOMAIN answers = 1 .. n
  BY <1>1, <1>2, <1>3, AppendProperties, LenProperties
<1>5. AgentsTypeOK'
  BY <1>1, <1>4, EmptySeq DEF AgentsInv, AgentsTypeOK
<1>6. Budgeted'
  <2>1. 0 <= max_tool_calls
    BY AgentsAssumption
  <2>2. \A i \in 1 .. n + 1 : i \in 1 .. n \/ i = n + 1
    BY <1>3
  <2>. QED BY <1>1, <1>2, <1>4, <2>1, <2>2 DEF AgentsInv, Budgeted
<1>7. Allowlisted'
  BY <1>1 DEF AgentsInv, Allowlisted
<1>8. PICK E \in Seq(Nat) : GatheredInto(E) /\ Faithful(E) /\ \A i \in DOMAIN E : E[i] <= sent
  BY DEF AgentsInv, Gathered
<1>9. ASSUME NEW G, G = [i \in 1 .. n + 1 |-> IF i = 1 THEN answers'[i].provenance
                                              ELSE G[i - 1] \o answers'[i].provenance],
             G[n + 1] = E
      PROVE  Gathered'
  <2>1. Gathers(G)'
    BY <1>4, <1>9 DEF Gathers
  <2>2. E \o <<>> = E
    BY <1>8, ConcatEmptySeq
  <2>3. GatheredInto(E)'
    BY <1>1, <1>4, <1>9, <2>1, <2>2 DEF GatheredInto
  <2>4. Faithful(E)' /\ \A i \in DOMAIN E : E[i] <= sent'
    BY <1>1, <1>8 DEF Faithful
  <2>. QED BY <1>8, <2>3, <2>4 DEF Gathered
<1>10. Gathered'
  <2>1. CASE answers = <<>>
    <3>1. n = 0 /\ provenance = E
      BY <1>8, <2>1, EmptySeq DEF GatheredInto
    <3>. DEFINE G == [i \in 1 .. n + 1 |-> provenance]
    <3>2. G = [i \in 1 .. n + 1 |-> IF i = 1 THEN answers'[i].provenance
                                   ELSE G[i - 1] \o answers'[i].provenance]
      BY <1>2, <1>4, <3>1
    <3>3. G[n + 1] = E
      BY <3>1
    <3>. HIDE DEF G
    <3>. QED BY <1>9, <3>2, <3>3
  <2>2. CASE answers # <<>>
    <3>1. PICK F : Gathers(F) /\ F[n] \o provenance = E
      BY <1>8, <2>2 DEF GatheredInto
    <3>2. n # 0 /\ n \in 1 .. n
      BY <1>3, <2>2, EmptySeq
    <3>. DEFINE G == [i \in 1 .. n + 1 |-> IF i = n + 1 THEN E ELSE F[i]]
    <3>3. ASSUME NEW i \in 1 .. n + 1
          PROVE  G[i] = IF i = 1 THEN answers'[i].provenance ELSE G[i - 1] \o answers'[i].provenance
      <4>1. CASE i = n + 1
        <5>1. i # 1 /\ G[i] = E /\ G[i - 1] = F[n]
          BY <1>3, <3>2, <4>1
        <5>. QED BY <1>2, <1>4, <3>1, <4>1, <5>1
      <4>2. CASE i # n + 1
        <5>1. i \in 1 .. n /\ G[i] = F[i] /\ answers'[i] = answers[i]
          BY <1>3, <1>4, <4>2
        <5>2. i # 1 => G[i - 1] = F[i - 1]
          BY <1>3, <5>1
        <5>3. F[i] = IF i = 1 THEN answers[i].provenance ELSE F[i - 1] \o answers[i].provenance
          BY <3>1, <5>1 DEF Gathers
        <5>. QED BY <5>1, <5>2, <5>3
      <4>. QED BY <4>1, <4>2
    <3>4. G[n + 1] = E
      BY <1>3
    <3>5. G = [i \in 1 .. n + 1 |-> IF i = 1 THEN answers'[i].provenance
                                   ELSE G[i - 1] \o answers'[i].provenance]
      <4>1. G = [i \in 1 .. n + 1 |-> G[i]]
        OBVIOUS
      <4>. HIDE DEF G
      <4>. QED BY <3>3, <4>1
    <3>. HIDE DEF G
    <3>. QED BY <1>9, <3>4, <3>5
  <2>. QED BY <2>1, <2>2
<1>. QED BY <1>5, <1>6, <1>7, <1>10 DEF AgentsInv

\* Evidence that gets the lines of one more output stays faithful: its
\* lookalikes, and a manifest with the next number.
LEMMA FaithfulGrows ==
  ASSUME NEW E \in Seq(Nat), NEW n \in Nat, NEW new \in {0, 1}, NEW E2 \in Seq(Nat),
         sent \in Nat, mimics \in Nat,
         Faithful(E), \A i \in DOMAIN E : E[i] <= sent,
         sent' = sent + new, mimics' = mimics + n,
         Len(E2) = Len(E) + n + new,
         \A i \in 1 .. Len(E) : E2[i] = E[i],
         \A i \in Len(E) + 1 .. Len(E) + n : E2[i] = 0,
         new = 1 => E2[Len(E) + n + 1] = sent + 1
  PROVE  Faithful(E2)' /\ \A i \in DOMAIN E2 : E2[i] <= sent'
<1>1. /\ Len(E) \in Nat /\ DOMAIN E = 1 .. Len(E) /\ \A i \in 1 .. Len(E) : E[i] \in Nat
      /\ DOMAIN E2 = 1 .. Len(E2) /\ \A i \in 1 .. Len(E2) : E2[i] \in Nat
  BY LenProperties
<1>2. \A i \in 1 .. Len(E2) :
        \/ i \in 1 .. Len(E)
        \/ E2[i] = 0
        \/ new = 1 /\ i = Len(E2) /\ E2[i] = sent + 1
  <2>1. \A i \in 1 .. Len(E2) :
          \/ i \in 1 .. Len(E)
          \/ i \in Len(E) + 1 .. Len(E) + n
          \/ new = 1 /\ i = Len(E2) /\ i = Len(E) + n + 1
    BY <1>1
  <2>. QED BY <2>1
<1>3. \A i \in DOMAIN E2 : E2[i] <= sent'
  <2>1. \A i \in 1 .. Len(E) : E2[i] \in Nat /\ E2[i] <= sent /\ sent <= sent'
    BY <1>1
  <2>2. 0 <= sent' /\ (new = 1 => sent' = sent + 1 /\ sent + 1 <= sent + 1)
    OBVIOUS
  <2>3. \A i \in 1 .. Len(E) : E2[i] <= sent'
    BY <2>1
  <2>. QED BY <1>1, <1>2, <2>2, <2>3
<1>4. \A m \in 1 .. sent + new : \E i \in DOMAIN E2 : E2[i] = m
  <2>. SUFFICES ASSUME NEW m \in 1 .. sent + new PROVE \E i \in DOMAIN E2 : E2[i] = m
    OBVIOUS
  <2>1. CASE m \in 1 .. sent
    <3>1. PICK i \in 1 .. Len(E) : E[i] = m
      BY <1>1, <2>1 DEF Faithful
    <3>. QED BY <1>1, <3>1
  <2>2. CASE m \notin 1 .. sent
    <3>1. new = 1 /\ m = sent + 1 /\ Len(E) + n + 1 \in 1 .. Len(E2)
      BY <1>1, <2>2
    <3>. QED BY <1>1, <3>1
  <2>. QED BY <2>1, <2>2
<1>5. ASSUME NEW i \in DOMAIN E2, NEW j \in DOMAIN E2, i < j, E2[i] # 0, E2[j] # 0
      PROVE  E2[i] < E2[j]
  <2>1. i \in 1 .. Len(E)
    BY <1>1, <1>2, <1>5
  <2>2. CASE j \in 1 .. Len(E)
    BY <1>1, <1>5, <2>1, <2>2 DEF Faithful, Lookalike
  <2>3. CASE j \notin 1 .. Len(E)
    <3>1. E2[j] = sent + 1
      BY <1>1, <1>2, <1>5, <2>3
    <3>. QED BY <1>1, <2>1, <3>1
  <2>. QED BY <2>2, <2>3
<1>6. Len(E2) = sent' + mimics'
  BY <1>1 DEF Faithful
<1>. QED BY <1>3, <1>4, <1>5, <1>6 DEF Faithful, Lookalike

\* Evidence is put together line by line.
LEMMA LinesAssociate ==
  ASSUME NEW s \in Seq(Nat), NEW t \in Seq(Nat), NEW u \in Seq(Nat)
  PROVE  (s \o t) \o u = s \o (t \o u)
BY ConcatAssociative

\* A tool's manifest and its lookalikes go to the question's evidence.
LEMMA CallToolStep ==
  ASSUME AgentsInv, NEW n \in Nat, NEW manifest \in BOOLEAN, CallTool(n, manifest)
  PROVE  AgentsInv'
<1>1. CASE calls >= max_tool_calls
  <2>1. calls = max_tool_calls
    BY <1>1, AgentsAssumption DEF AgentsInv, AgentsTypeOK, Budgeted
  <2>2. Return("nothing", TRUE) \/ Return("partial", TRUE)
    BY <1>1 DEF CallTool
  <2>. QED BY <2>1, <2>2, ReturnStep
<1>2. CASE ~(calls >= max_tool_calls)
  <2>. DEFINE out == Prefixed(n, manifest)
              new == IF manifest THEN 1 ELSE 0
  <2>1. /\ calls' = calls + 1 /\ provenance' = provenance \o out
        /\ sent' = sent + new /\ mimics' = mimics + n
        /\ UNCHANGED <<question, answers, mails, left>>
    BY <1>2 DEF CallTool
  <2>2. sent \in Nat /\ mimics \in Nat /\ provenance \in Seq(Nat)
    BY DEF AgentsInv, AgentsTypeOK
  <2>3. new \in {0, 1}
    OBVIOUS
  <2>4. /\ out \in Seq(Nat) /\ Len(out) = n + new
        /\ \A i \in 1 .. n : out[i] = 0
        /\ new = 1 => out[n + 1] = sent + 1
    <3>. DEFINE body == [i \in 1 .. n |-> Lookalike]
                tail == IF manifest THEN <<sent + 1>> ELSE <<>>
    <3>1. body \in Seq(Nat) /\ Len(body) = n /\ \A i \in 1 .. n : body[i] = 0
      BY DEF Lookalike
    <3>2. tail \in Seq(Nat) /\ Len(tail) = new /\ (new = 1 => tail[1] = sent + 1)
      BY <2>2
    <3>3. out = body \o tail
      BY DEF Prefixed
    <3>. HIDE DEF body, tail, out, new
    <3>4. /\ body \o tail \in Seq(Nat) /\ Len(body \o tail) = n + new
          /\ \A i \in 1 .. n + new :
               (body \o tail)[i] = IF i <= n THEN body[i] ELSE tail[i - n]
      BY <2>3, <3>1, <3>2, ConcatProperties
    <3>. QED BY <2>3, <3>1, <3>2, <3>3, <3>4
  <2>. HIDE DEF out, new
  <2>5. AgentsTypeOK'
    BY <2>1, <2>2, <2>3, <2>4, ConcatProperties DEF AgentsInv, AgentsTypeOK
  <2>6. Budgeted'
    BY <1>2, <2>1, AgentsAssumption DEF AgentsInv, AgentsTypeOK, Budgeted
  <2>7. Allowlisted'
    BY <2>1 DEF AgentsInv, Allowlisted
  <2>8. PICK E \in Seq(Nat) : GatheredInto(E) /\ Faithful(E) /\ \A i \in DOMAIN E : E[i] <= sent
    BY DEF AgentsInv, Gathered
  <2>e. PICK E2 : E2 = E \o out
    OBVIOUS
  <2>k. PICK k : k = new
    OBVIOUS
  <2>9. /\ E2 \in Seq(Nat) /\ Len(E2) = Len(E) + n + new /\ Len(E) \in Nat
        /\ \A i \in 1 .. Len(E) + (n + new) : E2[i] = IF i <= Len(E) THEN E[i] ELSE out[i - Len(E)]
    <3>1. Len(E) \in Nat /\ Len(out) = n + new
      BY <2>4, <2>8, LenProperties
    <3>2. /\ E2 \in Seq(Nat) /\ Len(E2) = Len(E) + Len(out)
          /\ \A i \in 1 .. Len(E) + Len(out) : E2[i] = IF i <= Len(E) THEN E[i] ELSE out[i - Len(E)]
      BY <2>4, <2>8, <2>e, ConcatProperties
    <3>. QED BY <2>3, <3>1, <3>2
  <2>10. /\ \A i \in 1 .. Len(E) : E2[i] = E[i]
         /\ \A i \in Len(E) + 1 .. Len(E) + n : E2[i] = 0
         /\ new = 1 => E2[Len(E) + n + 1] = sent + 1
    <3>1. \A i \in Len(E) + 1 .. Len(E) + n : i - Len(E) \in 1 .. n /\ i \in 1 .. Len(E) + (n + new)
      BY <2>3, <2>9
    <3>2. new = 1 => /\ Len(E) + n + 1 \in 1 .. Len(E) + (n + new)
                     /\ (Len(E) + n + 1) - Len(E) = n + 1
                     /\ ~(Len(E) + n + 1 <= Len(E))
      BY <2>9
    <3>3. \A i \in 1 .. Len(E) : i \in 1 .. Len(E) + (n + new) /\ i <= Len(E)
      BY <2>3, <2>9
    <3>4. \A i \in Len(E) + 1 .. Len(E) + n : ~(i <= Len(E))
      BY <2>9
    <3>. QED BY <2>4, <2>9, <3>1, <3>2, <3>3, <3>4
  <2>11. Faithful(E2)' /\ \A i \in DOMAIN E2 : E2[i] <= sent'
    <3>1. /\ k \in {0, 1} /\ sent' = sent + k /\ mimics' = mimics + n
          /\ Len(E2) = Len(E) + n + k
          /\ k = 1 => E2[Len(E) + n + 1] = sent + 1
      BY <2>1, <2>3, <2>9, <2>10, <2>k
    <3>. QED BY <2>2, <2>8, <2>9, <2>10, <3>1, FaithfulGrows
  <2>12. ASSUME NEW s \in Seq(Nat), s \o provenance = E
         PROVE  s \o provenance' = E2
    <3>1. s \in Seq(Nat) /\ provenance \in Seq(Nat) /\ out \in Seq(Nat)
      BY <2>2, <2>4
    <3>2. (s \o provenance) \o out = s \o (provenance \o out)
      BY ONLY <3>1, LinesAssociate
    <3>. QED BY <2>1, <2>12, <2>e, <3>2
  <2>13. GatheredInto(E2)'
    <3>1. CASE answers = <<>>
      <4>1. provenance = E /\ provenance' = E2 /\ answers' = <<>>
        BY <2>1, <2>8, <2>e, <3>1 DEF GatheredInto
      <4>. QED BY <4>1 DEF GatheredInto
    <3>2. CASE answers # <<>>
      <4>1. PICK F : /\ Gathers(F) /\ F[Len(answers)] \in Seq(Nat)
                     /\ F[Len(answers)] \o provenance = E
        BY <2>8, <3>2 DEF GatheredInto
      <4>2. F[Len(answers)] \o provenance' = E2
        BY <2>12, <4>1
      <4>3. Gathers(F)'
        BY <2>1, <4>1 DEF Gathers
      <4>. QED BY <2>1, <3>2, <4>1, <4>2, <4>3 DEF GatheredInto
    <3>. QED BY <3>1, <3>2
  <2>14. Gathered'
    <3>. QED BY <2>9, <2>11, <2>13 DEF Gathered
  <2>. QED BY <2>5, <2>6, <2>7, <2>14 DEF AgentsInv
<1>. QED BY <1>1, <1>2

\* The next recipient is refused, or mail leaves for it.
LEMMA SendNextStep ==
  ASSUME AgentsInv, NEW ok \in BOOLEAN, SendNext(ok)
  PROVE  AgentsInv'
<1>. DEFINE r == Len(mails) + 1
<1>1. /\ UNCHANGED <<question, provenance, calls, answers, sent, mimics>>
      /\ \/ r \notin Allowed /\ mails' = Append(mails, "refused") /\ left' = left
         \/ /\ r \in Allowed /\ left' = left \cup {r}
            /\ mails' = Append(mails, IF ok THEN "delivered" ELSE "failed")
  BY DEF SendNext, allows
<1>2. mails' \in Seq({"refused", "delivered", "failed"}) /\ DOMAIN mails' = DOMAIN mails \cup {r}
  <2>1. mails \in Seq({"refused", "delivered", "failed"}) /\ Len(mails) \in Nat
    BY DEF AgentsInv, AgentsTypeOK
  <2>2. PICK x \in {"refused", "delivered", "failed"} : mails' = Append(mails, x)
    BY <1>1
  <2>3. mails' \in Seq({"refused", "delivered", "failed"}) /\ Len(mails') = r
    BY <2>1, <2>2, AppendProperties
  <2>4. DOMAIN mails' = 1 .. r /\ DOMAIN mails = 1 .. Len(mails)
    BY <2>1, <2>3, LenProperties
  <2>. QED BY <2>1, <2>3, <2>4
<1>3. AgentsTypeOK'
  BY <1>1, <1>2 DEF AgentsInv, AgentsTypeOK
<1>4. Allowlisted'
  BY <1>1, <1>2 DEF AgentsInv, Allowlisted
<1>5. Gathered'
  BY <1>1 DEF AgentsInv, Gathered, GatheredInto, Gathers, Faithful
<1>6. Budgeted'
  BY <1>1 DEF AgentsInv, Budgeted
<1>. QED BY <1>3, <1>4, <1>5, <1>6 DEF AgentsInv

\* Every step of the agents keeps their invariant.
LEMMA AgentsStep ==
  ASSUME AgentsInv, [AgentsNext]_agent_vars
  PROVE  AgentsInv'
<1>1. CASE UNCHANGED agent_vars
  <2>1. UNCHANGED <<question, provenance, calls, answers, mails, left, sent, mimics>>
    BY <1>1 DEF agent_vars
  <2>2. Gathered'
    BY <2>1 DEF AgentsInv, Gathered, GatheredInto, Gathers, Faithful
  <2>. QED BY <2>1, <2>2 DEF AgentsInv, AgentsTypeOK, Budgeted, Allowlisted
<1>2. CASE ModelFails \/ AnswerStep
  BY <1>2, ReturnStep DEF ModelFails, AnswerStep
<1>3. ASSUME NEW n \in 0 .. MaxLookalikes, NEW manifest \in BOOLEAN, CallTool(n, manifest)
      PROVE  AgentsInv'
  <2>1. n \in Nat
    BY AgentsAssumption
  <2>. QED BY <1>3, <2>1, CallToolStep
<1>. QED BY <1>1, <1>2, <1>3, SendNextStep DEF AgentsNext

\* A briefing starts with nothing.
LEMMA AgentsStart == AgentsInit => AgentsInv
<1>. SUFFICES ASSUME AgentsInit PROVE AgentsInv
  OBVIOUS
<1>1. AgentsTypeOK
  BY EmptySeq DEF AgentsInit, AgentsTypeOK
<1>2. Gathered
  <2>1. <<>> \in Seq(Nat) /\ DOMAIN <<>> = {} /\ Len(<<>>) = 0 /\ 1 .. 0 = {}
    BY EmptySeq
  <2>2. Faithful(<<>>) /\ GatheredInto(<<>>)
    BY <2>1 DEF AgentsInit, Faithful, GatheredInto
  <2>. QED BY <2>1, <2>2 DEF Gathered
<1>3. DOMAIN answers = {} /\ DOMAIN mails = {}
  BY DEF AgentsInit
<1>. QED BY <1>1, <1>2, <1>3, AgentsAssumption DEF AgentsInit, AgentsInv, Budgeted, Allowlisted

\* What the invariant says of a briefing.
LEMMA BriefingIsHonest == ASSUME AgentsInv PROVE BriefingHonest
<1>1. PICK E \in Seq(Nat) : GatheredInto(E) /\ Faithful(E)
  BY DEF AgentsInv, Gathered
<1>2. Evidence \o provenance = E
  <2>1. CASE answers = <<>>
    <3>1. Evidence = <<>>
      <4>1. [i \in DOMAIN answers |-> answers[i].provenance] = <<>>
        BY <2>1
      <4>. QED BY <4>1 DEF Evidence, FlattenSeq
    <3>2. <<>> \o provenance = provenance
      BY ConcatEmptySeq DEF AgentsInv, AgentsTypeOK
    <3>. QED BY <1>1, <2>1, <3>1, <3>2 DEF GatheredInto
  <2>2. CASE answers # <<>>
    <3>1. PICK F : Gathers(F) /\ F[Len(answers)] \o provenance = E
      BY <1>1, <2>2 DEF GatheredInto
    <3>2. Evidence = F[Len(answers)]
      BY <2>2, <3>1, EvidenceGathered DEF AgentsInv
    <3>. QED BY <3>1, <3>2
  <2>. QED BY <2>1, <2>2
<1>. QED BY <1>1, <1>2 DEF AgentsInv, Budgeted, Allowlisted, BriefingHonest

-----------------------------------------------------------------------------
(* The theorems                                                            *)

\* The invariants of the three frontends.
THEOREM Inductive == FrontendsSpec => []FrontendsInv
<1>1. FrontendsInit => FrontendsInv
  BY AgentsStart, MemoryStart, SupervisorStart DEF FrontendsInit, FrontendsInv
<1>2. FrontendsInv /\ [FrontendsNext]_<<agent_vars, memory_vars, sup_vars>> => FrontendsInv'
  <2>. SUFFICES ASSUME FrontendsInv, [FrontendsNext]_<<agent_vars, memory_vars, sup_vars>>
                PROVE  FrontendsInv'
    OBVIOUS
  <2>1. [AgentsNext]_agent_vars /\ [MemoryNext]_memory_vars /\ [SupervisorNext]_sup_vars
    BY DEF FrontendsNext, Others
  <2>. QED BY <2>1, AgentsStep, MemoryStep, SupervisorStep DEF FrontendsInv
<1>. QED BY <1>1, <1>2, PTL DEF FrontendsSpec

\* Whatever the model fails at and however many lines of the outputs read like
\* provenance, a briefing's evidence has every manifest the engine sent, in
\* order and once, and nothing else but those lines; no question has more calls
\* than its budget, and mail leaves for the allowed recipients and no others
\* (run, compose, brief_and_send).
THEOREM BriefingsHonest == FrontendsSpec => []BriefingHonest
<1>1. FrontendsInv => BriefingHonest
  BY BriefingIsHonest DEF FrontendsInv
<1>. QED BY <1>1, Inductive, PTL

\* Quotas, refusals, ids and times to live hold for any clock, also one that is
\* set back (remember, recall, sweep).
THEOREM MemoryAlwaysGoverned == FrontendsSpec => []MemoryGoverned
<1>1. FrontendsInv => MemoryGoverned
  BY MemoryIsGoverned DEF FrontendsInv
<1>. QED BY <1>1, Inductive, PTL

\* No child process is ever without a handle, and none outlives the dashboard
\* (add_follower, kill, kill_all, Drop).
THEOREM NothingOrphaned == FrontendsSpec => []NoOrphans
<1>1. FrontendsInv => NoOrphans
  BY DEF FrontendsInv, SupervisorInv
<1>. QED BY <1>1, Inductive, PTL
============================================================================

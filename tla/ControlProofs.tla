--------------------------- MODULE ControlProofs ---------------------------
(***************************************************************************)
(* Replicated operator intent: every coordinator replica holds exactly     *)
(* what the committed log up to its position says, for any number of       *)
(* replicas, nodes, virtual shards, commands, restarts and snapshots, but  *)
(* for what goes back to a torn snapshot.  The invariant says the same of  *)
(* every copy on its way (CopiesGood): the latest snapshot, the one being  *)
(* installed and the one whose last_applied the builder has yet to read.   *)
(* No position is beyond the log (Positions), so that later commands do    *)
(* not change what an earlier position says.                               *)
(*                                                                         *)
(* The second half follows one operator call through the coordinators      *)
(* (ControlCalls): whatever it is forwarded to, the answer its sender gets *)
(* is the truth about the log, and the log is still what the replicas hold.*)
(***************************************************************************)
EXTENDS ControlCalls, SequenceTheorems, TLAPS

\* Table t and drain set d are what the first k commands say.
Exact(k, t, d) ==
  /\ \A v \in VShards : PutsAt(k, v, t[v])
  /\ d = DrainedBy(k)

\* A snapshot that is not ahead of the log, and not torn unless it says so
Good(s) ==
  /\ s.index <= Len(log)
  /\ s.torn \/ Exact(s.index, s.vshards, s.draining)

\* What replica r holds in its registry, as a snapshot
Held(r) ==
  [index |-> Reached(r), vshards |-> vshards[r], draining |-> draining[r], torn |-> r \in torn]

\* What its builder has read, as a snapshot of the position it read
Read(r) == [builder[r].snap EXCEPT !.index = builder[r].to]

\* Every copy of the authority is good: the registry, the latest snapshot, the
\* one that is being installed and the one that is being built.
CopiesGood ==
  \A r \in Replicas : Good(Held(r)) /\ Good(snap[r]) /\ Good(worker[r].snap) /\ Good(Read(r))

\* last_applied is not ahead of the log, and a worker at no position is idle.
Positions ==
  \A r \in Replicas : applied[r] <= Len(log) /\ (worker[r].to = 0 => worker[r] = Idle)

IInv == TypeOK /\ Positions /\ CopiesGood

\* The round-robin table is a table.
LEMMA RoundRobinType == RoundRobin \in Table
BY NAssumption, VAssumption DEF RoundRobin, Table, VShards, Groups

\* Nothing has been moved or drained at the beginning of the log.
LEMMA LogStart ==
  ASSUME TypeOK
  PROVE  /\ \A v \in VShards : PutsAt(0, v, RoundRobin[v])
         /\ DrainedBy(0) = {}
<1>1. \A i \in 1 .. Len(log) : ~(i <= 0)
  BY DEF TypeOK
<1>. QED BY <1>1 DEF PutsAt, Moves, DrainedBy, RoundRobin

\* What a position of the log says does not depend on later commands.
LEMMA EarlierPositions ==
  ASSUME TypeOK, NEW cmd \in Command, log' = Append(log, cmd),
         NEW k \in Nat, k <= Len(log)
  PROVE  /\ \A v, g : PutsAt(k, v, g)' <=> PutsAt(k, v, g)
         /\ DrainedBy(k)' = DrainedBy(k)
<1>1. Len(log) \in Nat /\ Len(log') = Len(log) + 1
  BY DEF TypeOK
<1>2. \A i \in 1 .. Len(log) : log'[i] = log[i]
  BY DEF TypeOK
<1>3. \A i : i \in 1 .. Len(log') /\ i <= k <=> i \in 1 .. Len(log) /\ i <= k
  BY <1>1
<1>4. \A v : Moves(k, v)' = Moves(k, v)
  BY <1>2, <1>3 DEF Moves
<1>5. \A v : \A i \in Moves(k, v) : log'[i] = log[i]
  BY <1>2 DEF Moves
<1>6. \A v, g : PutsAt(k, v, g)' <=> PutsAt(k, v, g)
  <2>. SUFFICES ASSUME NEW v, NEW g
                PROVE  PutsAt(k, v, g)' <=> PutsAt(k, v, g)
    OBVIOUS
  <2>1. PICK M : M = Moves(k, v) /\ M = Moves(k, v)'
    BY <1>4
  <2>2. \A i \in M : log'[i] = log[i]
    BY <1>5, <2>1
  <2>3. PutsAt(k, v, g) <=>
          (M = {} /\ g = v % N) \/ \E i \in M : log[i].group = g /\ \A j \in M : j <= i
    BY ONLY <2>1 DEF PutsAt
  <2>4. PutsAt(k, v, g)' <=>
          (M = {} /\ g = v % N) \/ \E i \in M : log'[i].group = g /\ \A j \in M : j <= i
    BY ONLY <2>1 DEF PutsAt
  <2>. QED BY ONLY <2>2, <2>3, <2>4
<1>7. DrainedBy(k)' = DrainedBy(k)
  BY <1>2, <1>3 DEF DrainedBy
<1>. QED BY <1>6, <1>7

\* A step that leaves the log alone leaves what it says alone.
LEMMA SameLog ==
  ASSUME log' = log
  PROVE  \A k, t, d : Exact(k, t, d)' <=> Exact(k, t, d)
<1>1. \A k, v, g : PutsAt(k, v, g)' <=> PutsAt(k, v, g)
  BY DEF PutsAt, Moves
<1>2. \A k : DrainedBy(k)' = DrainedBy(k)
  BY DEF DrainedBy
<1>. QED BY <1>1, <1>2 DEF Exact

\* One more command: the replica's state machine step, seen from the log.
LEMMA NextPosition ==
  ASSUME TypeOK, NEW k \in Nat, k < Len(log), NEW t \in Table, NEW d, Exact(k, t, d)
  PROVE  LET cmd == log[k + 1] IN
         /\ cmd.kind = "ReassignVShard" =>
              Exact(k + 1, [t EXCEPT ![cmd.vshard] = cmd.group], d)
         /\ cmd.kind = "DrainNode" => Exact(k + 1, t, d \cup {cmd.node})
<1>. DEFINE cmd == log[k + 1]
<1>1. Len(log) \in Nat /\ k + 1 \in 1 .. Len(log) /\ cmd \in Command
  BY DEF TypeOK
<1>2. \A i : i \in 1 .. Len(log) /\ i <= k + 1 <=> (i \in 1 .. Len(log) /\ i <= k) \/ i = k + 1
  BY <1>1
<1>3. \A v : \A i \in Moves(k, v) : i \in Nat /\ i < k + 1
  BY <1>1 DEF Moves
<1>4. ASSUME cmd.kind = "ReassignVShard"
      PROVE  Exact(k + 1, [t EXCEPT ![cmd.vshard] = cmd.group], d)
  <2>1. cmd.vshard \in VShards /\ cmd.group \in Groups
    BY <1>1, <1>4 DEF Command
  <2>2. Moves(k + 1, cmd.vshard) = Moves(k, cmd.vshard) \cup {k + 1}
    BY <1>1, <1>2, <1>4 DEF Moves
  <2>3. PutsAt(k + 1, cmd.vshard, cmd.group)
    BY <1>3, <2>2 DEF PutsAt
  <2>4. ASSUME NEW v \in VShards, v # cmd.vshard
        PROVE  PutsAt(k + 1, v, t[v])
    <3>1. Moves(k + 1, v) = Moves(k, v)
      BY <1>2, <2>4 DEF Moves
    <3>. QED BY <3>1 DEF PutsAt, Exact
  <2>5. DrainedBy(k + 1) = DrainedBy(k)
    BY <1>2, <1>4 DEF DrainedBy
  <2>. QED BY <2>1, <2>3, <2>4, <2>5 DEF Exact, Table
<1>5. ASSUME cmd.kind = "DrainNode"
      PROVE  Exact(k + 1, t, d \cup {cmd.node})
  <2>1. cmd.node \in Nodes
    BY <1>1, <1>5 DEF Command
  <2>2. ASSUME NEW v \in VShards
        PROVE  PutsAt(k + 1, v, t[v])
    <3>1. Moves(k + 1, v) = Moves(k, v)
      BY <1>2, <1>5 DEF Moves
    <3>. QED BY <3>1 DEF PutsAt, Exact
  <2>3. DrainedBy(k + 1) = DrainedBy(k) \cup {cmd.node}
    BY <1>1, <1>2, <1>5, <2>1 DEF DrainedBy
  <2>. QED BY <2>2, <2>3 DEF Exact
<1>. QED BY <1>4, <1>5

\* A good snapshot stays good when a command is committed, ...
LEMMA GoodGrows ==
  ASSUME TypeOK, NEW cmd \in Command, log' = Append(log, cmd), NEW s \in Authority, Good(s)
  PROVE  Good(s)'
<1>1. Len(log) \in Nat /\ Len(log') = Len(log) + 1 /\ s.index \in Nat /\ s.index <= Len(log)
  BY DEF TypeOK, Authority, Good
<1>2. PICK k \in Nat : k = s.index /\ k <= Len(log)
  BY <1>1
<1>3. Exact(k, s.vshards, s.draining) => Exact(k, s.vshards, s.draining)'
  BY <1>2, EarlierPositions DEF Exact
<1>4. s.torn \/ Exact(k, s.vshards, s.draining)'
  BY <1>2, <1>3 DEF Good
<1>5. s.index <= Len(log')
  BY <1>1
<1>. QED BY <1>2, <1>4, <1>5 DEF Good

\* ... and when nothing is.
LEMMA GoodStays ==
  ASSUME log' = log PROVE \A s : Good(s)' <=> Good(s)
BY SameLog DEF Good

\* The copies are snapshots.
LEMMA CopiesType ==
  ASSUME TypeOK, NEW r \in Replicas
  PROVE  /\ Held(r) \in Authority /\ snap[r] \in Authority
         /\ worker[r] \in Job /\ builder[r] \in Job
         /\ worker[r].snap \in Authority /\ builder[r].snap \in Authority /\ Read(r) \in Authority
         /\ Reached(r) \in Nat /\ applied[r] \in Nat /\ worker[r].to \in Nat /\ builder[r].to \in Nat
<1>1. /\ applied[r] \in Nat /\ vshards[r] \in Table /\ draining[r] \in SUBSET Nodes
      /\ snap[r] \in Authority /\ worker[r] \in Job /\ builder[r] \in Job
  BY DEF TypeOK
<1>2. /\ worker[r].to \in Nat /\ worker[r].snap \in Authority
      /\ builder[r].to \in Nat /\ builder[r].snap \in Authority
  BY <1>1 DEF Job
<1>3. Reached(r) \in Nat
  BY <1>1, <1>2 DEF Reached
<1>4. Held(r) \in Authority
  BY <1>1, <1>3 DEF Held, Authority
<1>5. Read(r) \in Authority
  BY <1>2 DEF Read, Authority
<1>. QED BY <1>1, <1>2, <1>3, <1>4, <1>5

\* A committed command leaves the invariant alone until it is applied.
LEMMA ProposeStep ==
  ASSUME IInv, NEW cmd \in Command, propose(cmd)
  PROVE  IInv'
<1>1. /\ log' = Append(log, cmd)
      /\ UNCHANGED <<known, applied, vshards, draining, version, snap, worker, builder, torn>>
  BY DEF propose
<1>2. log \in Seq(Command) /\ log' \in Seq(Command) /\ Len(log') = Len(log) + 1 /\ Len(log) \in Nat
  BY <1>1 DEF IInv, TypeOK
<1>3. TypeOK'
  BY <1>1, <1>2 DEF IInv, TypeOK
<1>4. Positions'
  BY <1>1, <1>2 DEF IInv, TypeOK, Positions
<1>5. CopiesGood'
  <2>. SUFFICES ASSUME NEW r \in Replicas
                PROVE  (Good(Held(r)) /\ Good(snap[r]) /\ Good(worker[r].snap) /\ Good(Read(r)))'
    BY DEF CopiesGood
  <2>1. \A s \in Authority : Good(s) => Good(s)'
    BY <1>1, GoodGrows DEF IInv
  <2>2. Held(r)' = Held(r) /\ Read(r)' = Read(r)
    BY <1>1 DEF Held, Read, Reached
  <2>3. PICK h, t, w, b \in Authority :
          h = Held(r) /\ t = snap[r] /\ w = worker[r].snap /\ b = Read(r)
    BY CopiesType DEF IInv
  <2>4. Good(h)' /\ Good(t)' /\ Good(w)' /\ Good(b)'
    BY <2>1, <2>3 DEF IInv, CopiesGood
  <2>. QED BY <1>1, <2>2, <2>3, <2>4
<1>. QED BY <1>3, <1>4, <1>5 DEF IInv

\* A step of replica r that commits nothing keeps the invariant if what it
\* leaves in r is good.
LEMMA QuietStep ==
  ASSUME IInv, log' = log, TypeOK', NEW r \in Replicas,
         \A q \in Replicas \ {r} :
           /\ applied'[q] = applied[q] /\ vshards'[q] = vshards[q] /\ draining'[q] = draining[q]
           /\ snap'[q] = snap[q] /\ worker'[q] = worker[q] /\ builder'[q] = builder[q]
           /\ q \in torn' <=> q \in torn,
         applied'[r] <= Len(log), worker'[r].to = 0 => worker'[r] = Idle,
         NEW h, NEW b, h = Held(r)', b = Read(r)',
         Good(h), Good(snap'[r]), Good(worker'[r].snap), Good(b)
  PROVE  IInv'
<1>1. Positions'
  BY DEF IInv, Positions
<1>2. ASSUME NEW q \in Replicas
      PROVE  (Good(Held(q)) /\ Good(snap[q]) /\ Good(worker[q].snap) /\ Good(Read(q)))'
  <2>1. CASE q = r
    <3>1. PICK t, w : t = snap'[r] /\ w = worker'[r].snap
      OBVIOUS
    <3>2. Good(h)' /\ Good(b)' /\ Good(t)' /\ Good(w)'
      BY <3>1, GoodStays
    <3>. QED BY <2>1, <3>1, <3>2
  <2>2. CASE q # r
    <3>1. PICK g, t, w, c : g = Held(q) /\ t = snap[q] /\ w = worker[q].snap /\ c = Read(q)
      OBVIOUS
    <3>2. Good(g)' /\ Good(t)' /\ Good(w)' /\ Good(c)'
      BY <3>1, GoodStays DEF IInv, CopiesGood
    <3>3. Held(q)' = g /\ snap'[q] = t /\ worker'[q].snap = w /\ Read(q)' = c
      BY <2>2, <3>1 DEF Held, Read, Reached
    <3>. QED BY <3>2, <3>3
  <2>. QED BY <2>1, <2>2
<1>. QED BY <1>1, <1>2 DEF IInv, CopiesGood

\* What IInv says of one replica.
LEMMA ReplicaFacts ==
  ASSUME IInv, NEW r \in Replicas
  PROVE  /\ applied[r] \in Nat /\ applied[r] <= Len(log) /\ Reached(r) \in Nat
         /\ vshards[r] \in Table /\ draining[r] \in SUBSET Nodes /\ version[r] \in Nat
         /\ snap[r] \in Authority /\ snap[r].index \in Nat
         /\ worker[r] \in Job /\ builder[r] \in Job
         /\ worker[r].to = 0 => worker[r] = Idle
         /\ worker[r] = Idle => Reached(r) = applied[r]
         /\ Good(Held(r)) /\ Good(snap[r]) /\ Good(worker[r].snap) /\ Good(Read(r))
         /\ Reached(r) <= Len(log)
         /\ r \in torn \/ Exact(Reached(r), vshards[r], draining[r])
<1>1. worker[r] = Idle => Reached(r) = applied[r]
  BY DEF Reached, Idle
<1>2. Good(Held(r)) /\ Good(snap[r]) /\ Good(worker[r].snap) /\ Good(Read(r))
  BY DEF IInv, CopiesGood
<1>3. Reached(r) <= Len(log) /\ (r \in torn \/ Exact(Reached(r), vshards[r], draining[r]))
  BY <1>2 DEF Good, Held
<1>. QED BY <1>1, <1>2, <1>3, CopiesType DEF IInv, TypeOK, Positions, Authority

\* The empty snapshot is what the log says at its beginning.
LEMMA EmptyGood ==
  ASSUME TypeOK
  PROVE  Empty \in Authority /\ Idle \in Job /\ Good(Empty) /\ [Idle.snap EXCEPT !.index = Idle.to] = Empty
<1>0. [Idle.snap EXCEPT !.index = Idle.to] = Empty
  <2>1. Idle.snap = Empty /\ Idle.to = 0
    BY DEF Idle
  <2>2. PICK t, d, x : Empty = [index |-> 0, vshards |-> t, draining |-> d, torn |-> x]
    BY DEF Empty
  <2>3. [Empty EXCEPT !.index = 0] = Empty
    BY ONLY <2>2
  <2>. QED BY <2>1, <2>3
<1>1. Empty \in Authority
  BY RoundRobinType DEF Empty, Authority
<1>2. Idle \in Job
  BY <1>1 DEF Idle, Job
<1>3. Exact(0, RoundRobin, {}) /\ 0 <= Len(log)
  BY LogStart DEF Exact, TypeOK
<1>4. Good(Empty)
  BY <1>3 DEF Empty, Good
<1>. QED BY <1>0, <1>1, <1>2, <1>4

\* Applying the next command keeps the invariant.
LEMMA ApplyStep ==
  ASSUME IInv, NEW r \in Replicas, Apply(r)
  PROVE  IInv'
<1>. DEFINE k == applied[r]
            cmd == log[k + 1]
<1>1. /\ UNCHANGED <<log, known, applied, snap, builder, torn>>
      /\ worker[r] = Idle /\ k \in Nat /\ k < Len(log)
      /\ worker' = [worker EXCEPT ![r] = [Idle EXCEPT !.to = k + 1]]
  BY ReplicaFacts DEF Apply
<1>2. Len(log) \in Nat /\ cmd \in Command
  BY <1>1 DEF IInv, TypeOK
<1>3. r \in torn \/ Exact(k, vshards[r], draining[r])
  BY <1>1, ReplicaFacts
<1>. DEFINE w == [Idle EXCEPT !.to = k + 1]
<1>4. w \in Job /\ w.to = k + 1 /\ w.snap = Empty /\ w.to > 0
  BY <1>1, EmptyGood DEF IInv, Idle, Job
<1>5. worker' \in [Replicas -> Job] /\ worker'[r] = w /\ Reached(r)' = k + 1
  <2>1. worker' \in [Replicas -> Job] /\ worker'[r] = w
    BY <1>1, <1>4 DEF IInv, TypeOK
  <2>. HIDE DEF w, k
  <2>. QED BY <1>4, <2>1 DEF Reached
<1>6. ASSUME NEW t \in Table, NEW d \in SUBSET Nodes, r \in torn \/ Exact(k + 1, t, d),
             vshards' = [vshards EXCEPT ![r] = t], draining' = [draining EXCEPT ![r] = d],
             version' \in [Replicas -> Nat]
      PROVE  IInv'
  <2>1. TypeOK'
    BY <1>1, <1>5, <1>6 DEF IInv, TypeOK
  <2>2. vshards'[r] = t /\ draining'[r] = d
    BY <1>6 DEF IInv, TypeOK
  <2>. HIDE DEF w, k
  <2>. DEFINE h == [index |-> k + 1, vshards |-> t, draining |-> d, torn |-> r \in torn]
              b == Read(r)
  <2>3. h = Held(r)' /\ b = Read(r)'
    BY <1>1, <1>5, <2>2 DEF Held, Read
  <2>4. Good(h)
    <3>1. k + 1 <= Len(log)
      BY <1>1, <1>2
    <3>2. h.index = k + 1 /\ h.vshards = t /\ h.draining = d /\ (h.torn <=> r \in torn)
      OBVIOUS
    <3>. HIDE DEF h
    <3>. QED BY <1>6, <3>1, <3>2 DEF Good
  <2>5. Good(snap'[r]) /\ Good(b) /\ Good(worker'[r].snap)
    BY <1>1, <1>4, <1>5, ReplicaFacts, EmptyGood DEF IInv
  <2>6. \A q \in Replicas \ {r} :
           /\ applied'[q] = applied[q] /\ vshards'[q] = vshards[q] /\ draining'[q] = draining[q]
           /\ snap'[q] = snap[q] /\ worker'[q] = worker[q] /\ builder'[q] = builder[q]
           /\ q \in torn' <=> q \in torn
    BY <1>1, <1>6 DEF IInv, TypeOK
  <2>7. applied'[r] <= Len(log) /\ (worker'[r].to = 0 => worker'[r] = Idle)
    BY <1>1, <1>4, <1>5, ReplicaFacts
  <2>. HIDE DEF h, b
  <2>. QED BY <1>1, <2>1, <2>3, <2>4, <2>5, <2>6, <2>7, QuietStep
<1>7. CASE cmd.kind = "ReassignVShard"
  <2>1. /\ vshards' = [vshards EXCEPT ![r] = [vshards[r] EXCEPT ![cmd.vshard] = cmd.group]]
        /\ version' = [version EXCEPT ![r] = @ + 1]
        /\ draining' = draining
    BY <1>7 DEF Apply
  <2>2. cmd.vshard \in VShards /\ cmd.group \in Groups
    BY <1>2, <1>7 DEF Command
  <2>3. [vshards[r] EXCEPT ![cmd.vshard] = cmd.group] \in Table
    BY <2>2, ReplicaFacts DEF Table
  <2>4. r \in torn \/ Exact(k + 1, [vshards[r] EXCEPT ![cmd.vshard] = cmd.group], draining[r])
    BY <1>1, <1>3, <1>7, ReplicaFacts, NextPosition DEF IInv
  <2>5. draining' = [draining EXCEPT ![r] = draining[r]] /\ version' \in [Replicas -> Nat]
    BY <2>1 DEF IInv, TypeOK
  <2>. QED BY <1>6, <2>1, <2>3, <2>4, <2>5, ReplicaFacts
<1>8. CASE cmd.kind = "DrainNode"
  <2>1. /\ draining' = [draining EXCEPT ![r] = draining[r] \cup {cmd.node}]
        /\ version' = version /\ vshards' = vshards
    BY <1>8 DEF Apply
  <2>2. cmd.node \in Nodes
    BY <1>2, <1>8 DEF Command
  <2>3. r \in torn \/ Exact(k + 1, vshards[r], draining[r] \cup {cmd.node})
    BY <1>1, <1>3, <1>8, ReplicaFacts, NextPosition DEF IInv
  <2>4. vshards' = [vshards EXCEPT ![r] = vshards[r]] /\ version' \in [Replicas -> Nat]
    BY <2>1 DEF IInv, TypeOK
  <2>5. draining[r] \cup {cmd.node} \in SUBSET Nodes
    BY <2>2, ReplicaFacts
  <2>. QED BY <1>6, <2>1, <2>3, <2>4, <2>5, ReplicaFacts
<1>. QED BY <1>2, <1>7, <1>8 DEF Command

\* last_applied catches up with the registry.
LEMMA RecordStep ==
  ASSUME IInv, NEW r \in Replicas, Record(r)
  PROVE  IInv'
<1>. DEFINE w == worker[r]
<1>1. /\ UNCHANGED <<log, known, vshards, draining, version, builder, torn>>
      /\ w # Idle /\ applied' = [applied EXCEPT ![r] = w.to]
      /\ snap' = snap \/ snap' = [snap EXCEPT ![r] = w.snap]
      /\ worker' = [worker EXCEPT ![r] = Idle]
  BY DEF Record
<1>2. w.to \in Nat /\ w.to > 0 /\ w.snap \in Authority /\ Reached(r) = w.to /\ w.to <= Len(log)
  BY <1>1, ReplicaFacts, CopiesType DEF Reached, IInv
<1>3. TypeOK'
  BY <1>1, <1>2, EmptyGood DEF IInv, TypeOK
<1>4. /\ applied'[r] = w.to /\ worker'[r] = Idle /\ snap'[r] \in {snap[r], w.snap}
      /\ \A q \in Replicas \ {r} :
           /\ applied'[q] = applied[q] /\ vshards'[q] = vshards[q] /\ draining'[q] = draining[q]
           /\ snap'[q] = snap[q] /\ worker'[q] = worker[q] /\ builder'[q] = builder[q]
           /\ q \in torn' <=> q \in torn
  BY <1>1 DEF IInv, TypeOK
<1>. HIDE DEF w
<1>5. Reached(r)' = w.to
  BY <1>4 DEF Reached, Idle
<1>. DEFINE h == Held(r)
            b == Read(r)
<1>6. h = Held(r)' /\ b = Read(r)'
  BY <1>1, <1>2, <1>5 DEF Held, Read
<1>7. Good(h) /\ Good(b) /\ Good(snap'[r]) /\ Good(worker'[r].snap)
  BY <1>4, ReplicaFacts, EmptyGood DEF IInv, Idle, w
<1>8. applied'[r] <= Len(log) /\ (worker'[r].to = 0 => worker'[r] = Idle)
  BY <1>2, <1>4
<1>. HIDE DEF h, b
<1>. QED BY <1>1, <1>3, <1>4, <1>6, <1>7, <1>8, QuietStep

\* The builder reads the registry, as it is at that moment.
LEMMA BuildSnapshotStep ==
  ASSUME IInv, NEW r \in Replicas, BuildSnapshot(r)
  PROVE  IInv'
<1>. DEFINE j == [to |-> Reached(r), snap |-> snapshot_bytes(r)]
<1>1. /\ UNCHANGED <<log, known, applied, vshards, draining, version, snap, worker, torn>>
      /\ builder' = [builder EXCEPT ![r] = j]
  BY DEF BuildSnapshot
<1>2. snapshot_bytes(r) \in Authority /\ j \in Job
  BY ReplicaFacts DEF snapshot_bytes, Authority, Job
<1>3. TypeOK'
  BY <1>1, <1>2 DEF IInv, TypeOK
<1>4. /\ builder'[r] = j
      /\ \A q \in Replicas \ {r} :
           /\ applied'[q] = applied[q] /\ vshards'[q] = vshards[q] /\ draining'[q] = draining[q]
           /\ snap'[q] = snap[q] /\ worker'[q] = worker[q] /\ builder'[q] = builder[q]
           /\ q \in torn' <=> q \in torn
  BY <1>1 DEF IInv, TypeOK
<1>5. Held(r)' = Held(r)
  BY <1>1 DEF Held, Reached
<1>6. Read(r)' = Held(r)
  BY <1>4 DEF Read, Held, snapshot_bytes
<1>7. PICK h : h = Held(r)
  OBVIOUS
<1>8. applied'[r] <= Len(log) /\ (worker'[r].to = 0 => worker'[r] = Idle)
  BY <1>1, ReplicaFacts
<1>9. Good(h) /\ Good(snap'[r]) /\ Good(worker'[r].snap)
  BY <1>1, <1>7, ReplicaFacts
<1>. QED BY <1>1, <1>3, <1>4, <1>5, <1>6, <1>7, <1>8, <1>9, QuietStep

\* The snapshot is one of last_applied, or torn.
LEMMA BuildMetaStep ==
  ASSUME IInv, NEW r \in Replicas, BuildMeta(r)
  PROVE  IInv'
<1>. DEFINE b == builder[r]
            s == [b.snap EXCEPT !.index = applied[r], !.torn = @ \/ b.to # applied[r]]
<1>1. /\ UNCHANGED <<log, known, applied, vshards, draining, version, worker, torn>>
      /\ snap' = [snap EXCEPT ![r] = s] /\ builder' = [builder EXCEPT ![r] = Idle]
  BY DEF BuildMeta
<1>2. b \in Job /\ b.snap \in Authority /\ applied[r] \in Nat /\ applied[r] <= Len(log)
  BY ReplicaFacts, CopiesType DEF IInv
<1>3. /\ s \in Authority /\ s.index = applied[r]
      /\ s.vshards = b.snap.vshards /\ s.draining = b.snap.draining
      /\ s.torn <=> b.snap.torn \/ b.to # applied[r]
  BY <1>2 DEF Authority
<1>4. Good(s)
  <2>1. b.snap.torn \/ Exact(b.to, b.snap.vshards, b.snap.draining)
    BY <1>2, ReplicaFacts DEF Good, Read, Authority
  <2>. HIDE DEF s, b
  <2>. QED BY <1>2, <1>3, <2>1 DEF Good
<1>5. TypeOK'
  BY <1>1, <1>3, EmptyGood DEF IInv, TypeOK
<1>6. /\ snap'[r] = s /\ builder'[r] = Idle
      /\ \A q \in Replicas \ {r} :
           /\ applied'[q] = applied[q] /\ vshards'[q] = vshards[q] /\ draining'[q] = draining[q]
           /\ snap'[q] = snap[q] /\ worker'[q] = worker[q] /\ builder'[q] = builder[q]
           /\ q \in torn' <=> q \in torn
  BY <1>1 DEF IInv, TypeOK
<1>. HIDE DEF s, b
<1>7. PICK h : h = Held(r) /\ h = Held(r)'
  BY <1>1 DEF Held, Reached
<1>8. Read(r)' = Empty
  BY <1>6, EmptyGood DEF Read, IInv
<1>9. Good(h) /\ Good(snap'[r]) /\ Good(worker'[r].snap) /\ Good(Empty)
  BY <1>1, <1>4, <1>6, <1>7, ReplicaFacts, EmptyGood DEF IInv
<1>10. applied'[r] <= Len(log) /\ (worker'[r].to = 0 => worker'[r] = Idle)
  BY <1>1, ReplicaFacts
<1>. QED BY <1>1, <1>5, <1>6, <1>7, <1>8, <1>9, <1>10, QuietStep

\* A registry set to a good snapshot is good.
LEMMA InstallSnapshotStep ==
  ASSUME IInv, NEW r \in Replicas, NEW q \in Replicas, InstallSnapshot(r, q)
  PROVE  IInv'
<1>. DEFINE s == snap[q]
            w == [to |-> s.index, snap |-> s]
<1>1. /\ UNCHANGED <<log, known, applied, snap, builder>>
      /\ vshards' = [vshards EXCEPT ![r] = s.vshards]
      /\ draining' = [draining EXCEPT ![r] = s.draining]
      /\ version' = [version EXCEPT ![r] = version[r] + 1]
      /\ torn' = IF s.torn THEN torn \cup {r} ELSE torn \ {r}
      /\ worker' = [worker EXCEPT ![r] = w]
      /\ s.index > applied[r]
  BY DEF InstallSnapshot, SetAuthority
<1>2. s \in Authority /\ Good(s) /\ s.index \in Nat /\ s.index > 0
  BY <1>1, ReplicaFacts
<1>3. s.vshards \in Table /\ s.draining \in SUBSET Nodes /\ s.torn \in BOOLEAN /\ w \in Job
  BY <1>2 DEF Authority, Job
<1>. HIDE DEF s
<1>4. TypeOK'
  BY <1>1, <1>3, ReplicaFacts DEF IInv, TypeOK
<1>5. /\ vshards'[r] = s.vshards /\ draining'[r] = s.draining /\ worker'[r] = w
      /\ (r \in torn') = s.torn
      /\ \A p \in Replicas \ {r} :
           /\ applied'[p] = applied[p] /\ vshards'[p] = vshards[p] /\ draining'[p] = draining[p]
           /\ snap'[p] = snap[p] /\ worker'[p] = worker[p] /\ builder'[p] = builder[p]
           /\ p \in torn' <=> p \in torn
  BY <1>1, <1>3 DEF IInv, TypeOK
<1>6. Reached(r)' = s.index
  BY <1>2, <1>5 DEF Reached
<1>7. Held(r)' = s
  BY <1>2, <1>5, <1>6 DEF Held, Authority
<1>8. PICK b : b = Read(r) /\ b = Read(r)'
  BY <1>1 DEF Read
<1>9. Good(b) /\ Good(snap'[r]) /\ Good(worker'[r].snap)
  <2>1. worker'[r].snap = s
    BY <1>5
  <2>. HIDE DEF w
  <2>. QED BY <1>1, <1>2, <1>8, <2>1, ReplicaFacts
<1>10. applied'[r] <= Len(log) /\ (worker'[r].to = 0 => worker'[r] = Idle)
  BY <1>1, <1>2, <1>5, ReplicaFacts
<1>. QED BY <1>1, <1>2, <1>4, <1>5, <1>7, <1>8, <1>9, <1>10, QuietStep

\* A restart goes back to a good snapshot, or to the beginning.
LEMMA RestartStep ==
  ASSUME IInv, NEW r \in Replicas, Restart(r)
  PROVE  IInv'
<1>. DEFINE s == IF snap[r].index > 0 THEN snap[r] ELSE Empty
<1>1. /\ UNCHANGED <<log, snap>> /\ known' = [known EXCEPT ![r] = {}]
      /\ applied' = [applied EXCEPT ![r] = snap[r].index]
      /\ worker' = [worker EXCEPT ![r] = Idle] /\ builder' = [builder EXCEPT ![r] = Idle]
  BY DEF Restart
<1>2. /\ vshards' = [vshards EXCEPT ![r] = s.vshards]
      /\ draining' = [draining EXCEPT ![r] = s.draining]
      /\ version' \in [Replicas -> Nat]
      /\ torn' = IF s.torn THEN torn \cup {r} ELSE torn \ {r}
  <2>1. CASE snap[r].index > 0
    <3>1. s = snap[r]
      BY <2>1
    <3>. HIDE DEF s
    <3>2. /\ vshards' = [vshards EXCEPT ![r] = s.vshards]
          /\ draining' = [draining EXCEPT ![r] = s.draining]
          /\ version' = [version EXCEPT ![r] = 0 + 1]
          /\ torn' = IF s.torn THEN torn \cup {r} ELSE torn \ {r}
      BY <2>1, <3>1 DEF Restart, SetAuthority
    <3>. QED BY <3>2 DEF IInv, TypeOK
  <2>2. CASE ~(snap[r].index > 0)
    <3>1. s.vshards = RoundRobin /\ s.draining = {} /\ s.torn = FALSE
      BY <2>2 DEF Empty
    <3>. HIDE DEF s
    <3>2. /\ vshards' = [vshards EXCEPT ![r] = RoundRobin]
          /\ draining' = [draining EXCEPT ![r] = {}]
          /\ version' = [version EXCEPT ![r] = 0]
          /\ torn' = torn \ {r}
      BY <2>2 DEF Restart
    <3>. QED BY <3>1, <3>2 DEF IInv, TypeOK
  <2>. QED BY <2>1, <2>2
<1>3. s \in Authority /\ Good(s) /\ s.index = snap[r].index /\ snap[r].index \in Nat
  <2>1. snap[r] \in Authority /\ Good(snap[r]) /\ snap[r].index \in Nat
    BY ReplicaFacts
  <2>2. Empty \in Authority /\ Good(Empty) /\ Empty.index = 0
    BY EmptyGood DEF IInv, Empty
  <2>. QED BY <2>1, <2>2
<1>. HIDE DEF s
<1>4. /\ s.vshards \in Table /\ s.draining \in SUBSET Nodes /\ s.torn \in BOOLEAN /\ Idle \in Job
      /\ s.index <= Len(log) /\ Good(Empty)
  BY <1>3, EmptyGood DEF Authority, Good, IInv
<1>5. TypeOK'
  BY <1>1, <1>2, <1>3, <1>4 DEF IInv, TypeOK
<1>6. /\ vshards'[r] = s.vshards /\ draining'[r] = s.draining /\ worker'[r] = Idle
      /\ builder'[r] = Idle /\ applied'[r] = s.index /\ (r \in torn') = s.torn
      /\ \A q \in Replicas \ {r} :
           /\ applied'[q] = applied[q] /\ vshards'[q] = vshards[q] /\ draining'[q] = draining[q]
           /\ snap'[q] = snap[q] /\ worker'[q] = worker[q] /\ builder'[q] = builder[q]
           /\ q \in torn' <=> q \in torn
  BY <1>1, <1>2, <1>3, <1>4 DEF IInv, TypeOK
<1>7. Reached(r)' = s.index
  BY <1>6 DEF Reached, Idle
<1>8. Held(r)' = s
  BY <1>3, <1>6, <1>7 DEF Held, Authority
<1>9. Read(r)' = Empty
  BY <1>6, EmptyGood DEF Read, IInv
<1>10. Good(snap'[r]) /\ Good(worker'[r].snap)
  BY <1>1, <1>4, <1>6, ReplicaFacts DEF Idle
<1>. QED BY <1>1, <1>3, <1>4, <1>5, <1>6, <1>8, <1>9, <1>10, QuietStep

\* A change of the view of the nodes, or nothing at all, is no such change.
LEMMA ViewStep ==
  ASSUME IInv, UNCHANGED <<log, applied, vshards, draining, version, snap, worker, builder, torn>>,
         known' \in [Replicas -> SUBSET Nodes]
  PROVE  IInv'
<1>1. TypeOK'
  BY DEF IInv, TypeOK
<1>2. Positions'
  BY DEF IInv, Positions
<1>3. CopiesGood'
  <2>1. \A r \in Replicas : Held(r)' = Held(r) /\ Read(r)' = Read(r)
    BY DEF Held, Read, Reached
  <2>. SUFFICES ASSUME NEW r \in Replicas
                PROVE  (Good(Held(r)) /\ Good(snap[r]) /\ Good(worker[r].snap) /\ Good(Read(r)))'
    BY DEF CopiesGood
  <2>2. PICK h, t, w, b : h = Held(r) /\ t = snap[r] /\ w = worker[r].snap /\ b = Read(r)
    OBVIOUS
  <2>3. Good(h)' /\ Good(t)' /\ Good(w)' /\ Good(b)'
    BY <2>2, GoodStays DEF IInv, CopiesGood
  <2>. QED BY <2>1, <2>2, <2>3
<1>. QED BY <1>1, <1>2, <1>3 DEF IInv

\* Every step keeps the invariant.
LEMMA NextIInv ==
  ASSUME IInv, [Next]_vars
  PROVE  IInv'
<1>1. CASE UNCHANGED vars
  <2>1. known' \in [Replicas -> SUBSET Nodes]
    BY <1>1 DEF IInv, TypeOK, vars
  <2>. QED BY <1>1, <2>1, ViewStep DEF vars
<1>2. ASSUME NEW r \in Replicas, NEW v \in 0 .. V, NEW g \in 0 .. N, reassign_v_shard(r, v, g),
             ~ UNCHANGED vars
      PROVE  IInv'
  <2>1. [kind |-> "ReassignVShard", vshard |-> v, group |-> g] \in Command
    BY <1>2 DEF reassign_v_shard, validate_reassign, Command
  <2>. QED BY <1>2, <2>1, ProposeStep DEF reassign_v_shard
<1>3. ASSUME NEW r \in Replicas, NEW n \in Nodes, drain_node(r, n), ~ UNCHANGED vars
      PROVE  IInv'
  <2>1. [kind |-> "DrainNode", node |-> n] \in Command
    BY DEF Command
  <2>. QED BY <1>3, <2>1, ProposeStep DEF drain_node
<1>4. ASSUME NEW r \in Replicas, NEW n \in Nodes, Learn(r, n) \/ Reap(r, n)
      PROVE  IInv'
  <2>1. UNCHANGED <<log, applied, vshards, draining, version, snap, worker, builder, torn>>
    BY <1>4 DEF Learn, Reap
  <2>2. known' \in [Replicas -> SUBSET Nodes]
    <3>1. known \in [Replicas -> SUBSET Nodes]
      BY DEF IInv, TypeOK
    <3>2. PICK k \in SUBSET Nodes : known' = [known EXCEPT ![r] = k]
      BY <1>4, <3>1 DEF Learn, Reap
    <3>. QED BY <3>1, <3>2
  <2>. QED BY <2>1, <2>2, ViewStep
<1>. QED BY <1>1, <1>2, <1>3, <1>4, ApplyStep, RecordStep, BuildSnapshotStep, BuildMetaStep,
         InstallSnapshotStep, RestartStep DEF Next, Steps

\* The invariant holds initially.
LEMMA InitIInv == Init => IInv
<1>. SUFFICES ASSUME Init PROVE IInv
  OBVIOUS
<1>1. TypeOK
  BY RoundRobinType DEF Init, TypeOK, Empty, Idle, Job, Authority
<1>2. Good(Empty) /\ Idle.to = 0 /\ Idle.snap = Empty /\ Empty.index = 0
  BY <1>1, EmptyGood DEF Idle, Empty
<1>3. Positions
  BY DEF Init, Positions
<1>4. \A r \in Replicas : Held(r) = Empty /\ Read(r) = Empty
  <2>. SUFFICES ASSUME NEW r \in Replicas PROVE Held(r) = Empty /\ Read(r) = Empty
    OBVIOUS
  <2>1. builder[r] = Idle /\ worker[r] = Idle /\ applied[r] = 0 /\ vshards[r] = RoundRobin
        /\ draining[r] = {} /\ (r \in torn) = FALSE
    BY DEF Init
  <2>2. Reached(r) = 0
    BY <2>1 DEF Reached, Idle
  <2>3. Held(r) = Empty
    BY <2>1, <2>2 DEF Held, Empty
  <2>. QED BY <1>1, <2>1, <2>3, EmptyGood DEF Read
<1>5. CopiesGood
  BY <1>2, <1>4 DEF Init, CopiesGood
<1>. QED BY <1>1, <1>3, <1>5 DEF IInv

\* The strengthened invariant of the coordinator state group.
THEOREM Inductive == Spec => []IInv
BY InitIInv, NextIInv, PTL DEF Spec

\* Type correctness of the replicated authority.
THEOREM TypeCorrect == Spec => []TypeOK
<1>1. IInv => TypeOK
  BY DEF IInv
<1>. QED BY <1>1, Inductive, PTL

\* What the invariant says of the replicas.
LEMMA AuthorityHolds == IInv => AuthorityIsLog
BY ReplicaFacts DEF AuthorityIsLog, Exact

\* Every coordinator's placement table and drain set are a function of the
\* committed log and its position in it, unless they go back to a torn
\* snapshot (ControlApp::apply, set_authority, build_snapshot).
THEOREM AuthorityAgrees == Spec => []AuthorityIsLog
BY AuthorityHolds, Inductive, PTL

\* Only a restart, or a torn snapshot, takes a drain marker from a replica.
LEMMA IntentStep ==
  ASSUME IInv, [Next]_vars \/ \E cmd : propose(cmd)
  PROVE  \A r \in Replicas : draining[r] \subseteq draining'[r] \/ Restart(r) \/ r \in torn \cup torn'
<1>0. draining \in [Replicas -> SUBSET Nodes] /\ Len(log) \in Nat
  BY DEF IInv, TypeOK
<1>1. ASSUME NEW r \in Replicas, Apply(r)
      PROVE  \A q \in Replicas : draining[q] \subseteq draining'[q]
  BY <1>0, <1>1 DEF Apply
<1>2. ASSUME NEW r \in Replicas, NEW s \in Replicas, InstallSnapshot(r, s)
      PROVE  \A q \in Replicas : draining[q] \subseteq draining'[q] \/ q \in torn \cup torn'
  <2>1. /\ draining' = [draining EXCEPT ![r] = snap[s].draining]
        /\ torn' = IF snap[s].torn THEN torn \cup {r} ELSE torn \ {r}
        /\ snap[s].index > applied[r] /\ worker[r] = Idle
    BY <1>2 DEF InstallSnapshot, SetAuthority
  <2>2. PICK k, m \in Nat : k = Reached(r) /\ m = snap[s].index /\ k < m
    BY <2>1, ReplicaFacts
  <2>3. DrainedBy(k) \subseteq DrainedBy(m)
    <3>1. \A i \in 1 .. Len(log) : i <= k => i <= m
      BY <1>0, <2>2
    <3>. QED BY <3>1 DEF DrainedBy
  <2>4. r \in torn \/ draining[r] = DrainedBy(k)
    BY <2>2, ReplicaFacts DEF Exact
  <2>5. snap[s].torn \/ snap[s].draining = DrainedBy(m)
    BY <2>2, ReplicaFacts DEF Good, Exact
  <2>6. draining[r] \subseteq snap[s].draining \/ r \in torn \/ snap[s].torn
    BY <2>3, <2>4, <2>5
  <2>7. snap[s].torn => r \in torn'
    BY <2>1
  <2>8. draining'[r] = snap[s].draining
    BY <1>0, <2>1
  <2>9. \A q \in Replicas \ {r} : draining'[q] = draining[q]
    BY <1>0, <2>1
  <2>. QED BY <2>6, <2>7, <2>8, <2>9
<1>3. ASSUME NEW r \in Replicas, Restart(r)
      PROVE  \A q \in Replicas : draining[q] \subseteq draining'[q] \/ Restart(q)
  BY <1>0, <1>3 DEF Restart, SetAuthority
<1>4. ASSUME draining' = draining
      PROVE  \A q \in Replicas : draining[q] \subseteq draining'[q]
  BY <1>4
<1>5. ASSUME NEW r, NEW n,
             \/ Record(r) \/ BuildSnapshot(r) \/ BuildMeta(r) \/ Learn(r, n) \/ Reap(r, n)
             \/ (\E cmd : propose(cmd)) \/ UNCHANGED vars
      PROVE  draining' = draining
  BY <1>5 DEF Record, BuildSnapshot, BuildMeta, Learn, Reap, propose, vars
<1>6. ASSUME NEW r, NEW v, NEW g, reassign_v_shard(r, v, g) \/ drain_node(r, v)
      PROVE  UNCHANGED vars \/ \E cmd : propose(cmd)
  BY <1>6 DEF reassign_v_shard, drain_node
<1>. QED BY <1>1, <1>2, <1>3, <1>4, <1>5, <1>6 DEF Next, Steps

\* A coordinator that runs does not forget a drain marker, unless it is sent a
\* torn snapshot (reap_dead, install_snapshot, set_authority).
THEOREM IntentNeverDropped == Spec => IntentKept
<1>1. IInv /\ [Next]_vars =>
        [\A r \in Replicas : draining[r] \subseteq draining'[r] \/ Restart(r) \/ r \in torn \cup torn']_vars
  BY IntentStep
<1>. QED BY <1>1, Inductive, PTL DEF Spec, IntentKept

-----------------------------------------------------------------------------
(* An operator call on its way to the log                                  *)

Answers == {None, "ok", "refused", "unauthenticated", "permission_denied", "unavailable"}

CallTypeOK ==
  /\ up \in SUBSET Replicas
  /\ call \in [pc : {"idle", "received", "proposing", "committing", "orphan", "done"},
               req : {call.req}, token : Tokens \cup {None},
               bearer : Tokens \cup {None}, at : Replicas \cup {None},
               visited : SUBSET Replicas, answer : Answers, commits : {0, 1}]

\* A call that is not done is not in the log, and only a broken one is answered.
Undecided ==
  /\ call.pc # "done" => call.commits = 0
  /\ call.pc \notin {"orphan", "done"} => call.answer = None
  /\ call.pc = "orphan" => call.answer = "unavailable"

\* The sender's own credential travels with the call.
Carried ==
  call.pc # "idle" =>
    /\ call.req \in Requests /\ call.token \in Tokens
    /\ call.bearer = call.token /\ call.at \in call.visited

\* A call past a handler's head was let through there and at every coordinator
\* before, and is a command that the log may hold.
LetThrough ==
  /\ call.pc = "received" => \A r \in call.visited \ {call.at} : Authorised(r)
  /\ call.pc \in {"proposing", "committing", "orphan"} =>
       call.req \in Command /\ \A r \in call.visited : Authorised(r)

CallInv == CallTypeOK /\ Undecided /\ Carried /\ LetThrough /\ CallHonest

\* The client's request enters the system.
LEMMA SendStep ==
  ASSUME CallInv, NEW r \in Replicas, NEW req \in Requests, NEW token \in Tokens,
         Send(r, req, token)
  PROVE  CallInv'
<1>1. /\ call.pc = "idle" /\ up' = up
      /\ call' = [call EXCEPT !.pc = "received", !.req = req, !.token = token,
                              !.bearer = token, !.at = r, !.visited = {r}]
  BY DEF Send, Keep
<1>2. CallTypeOK'
  BY <1>1 DEF CallInv, CallTypeOK
<1>. QED BY <1>1, <1>2 DEF CallInv, CallTypeOK, Undecided, Carried, LetThrough, CallHonest,
                           Authorised, Answers, None

\* A coordinator that checks tokens refuses exactly those it does not authorise.
LEMMA RequireAuthorises ==
  ASSUME Carried, call.pc # "idle"
  PROVE  /\ require(call.at, call.bearer, "operator") = "ok" <=> Authorised(call.at)
         /\ require(call.at, call.bearer, "operator")
              \in {"ok", "unauthenticated", "permission_denied"}
BY DEF Carried, Tokens, require, satisfies, rank, Authorised

\* A request that passes validation is a command.
LEMMA ValidCommand ==
  ASSUME NEW r, NEW req \in Requests, Valid(r, req)
  PROVE  req \in Command
BY DEF Requests, Valid, validate_reassign, Command

\* The head of the handler keeps the invariant.
LEMMA HandleStep ==
  ASSUME CallInv, Handle
  PROVE  CallInv'
<1>1. call.pc = "received" /\ up' = up
  BY DEF Handle, Keep
<1>2. Carried /\ call.at \in call.visited /\ call.req \in Requests
  BY <1>1 DEF CallInv, Carried
<1>3. ASSUME NEW verdict \in {"unauthenticated", "permission_denied", "refused"}, Answer(verdict),
             verdict # "refused" => ~Authorised(call.at)
      PROVE  CallInv'
  <2>1. call' = [call EXCEPT !.pc = "done", !.answer = verdict]
    BY <1>3 DEF Answer
  <2>2. CallTypeOK'
    BY <1>1, <2>1 DEF CallInv, CallTypeOK, Answers
  <2>. QED BY <1>1, <1>2, <1>3, <2>1, <2>2 DEF CallInv, CallTypeOK, Undecided, Carried,
                                               LetThrough, CallHonest, Authorised
<1>4. ASSUME Valid(call.at, call.req), Authorised(call.at),
             call' = [call EXCEPT !.pc = "proposing"]
      PROVE  CallInv'
  <2>1. call.req \in Command
    BY <1>2, <1>4, ValidCommand
  <2>2. CallTypeOK'
    BY <1>1, <1>4 DEF CallInv, CallTypeOK
  <2>. QED BY <1>1, <1>2, <1>4, <2>1, <2>2 DEF CallInv, CallTypeOK, Undecided, Carried,
                                               LetThrough, CallHonest, Authorised
<1>. QED BY <1>1, <1>2, <1>3, <1>4, RequireAuthorises DEF Handle

\* A coordinator that leads, forwards or gives up keeps the invariant.
LEMMA ProposeCallStep ==
  ASSUME CallInv, propose_call
  PROVE  CallInv'
<1>1. call.pc = "proposing" /\ up' = up /\ up \in SUBSET Replicas
  BY DEF propose_call, Keep, CallInv, CallTypeOK
<1>2. ASSUME call' = [call EXCEPT !.pc = "committing"]
      PROVE  CallInv'
  <2>1. CallTypeOK'
    BY <1>1, <1>2 DEF CallInv, CallTypeOK
  <2>. QED BY <1>1, <1>2, <2>1 DEF CallInv, CallTypeOK, Undecided, Carried, LetThrough,
                                   CallHonest, Authorised
<1>3. ASSUME NEW to \in up, forward(to)
      PROVE  CallInv'
  <2>1. call' = [call EXCEPT !.pc = "received", !.at = to, !.visited = @ \cup {to}]
    BY <1>3 DEF forward
  <2>2. CallTypeOK'
    BY <1>1, <2>1 DEF CallInv, CallTypeOK
  <2>. QED BY <1>1, <2>1, <2>2 DEF CallInv, CallTypeOK, Undecided, Carried, LetThrough,
                                   CallHonest, Authorised, None
<1>4. ASSUME Answer("unavailable")
      PROVE  CallInv'
  <2>1. call' = [call EXCEPT !.pc = "done", !.answer = "unavailable"]
    BY <1>4 DEF Answer
  <2>2. CallTypeOK'
    BY <1>1, <2>1 DEF CallInv, CallTypeOK, Answers
  <2>. QED BY <1>1, <2>1, <2>2 DEF CallInv, CallTypeOK, Undecided, Carried, LetThrough,
                                   CallHonest, Authorised
<1>. QED BY <1>2, <1>3, <1>4 DEF propose_call

\* The write returns at the leader: one commit, of a call that was let through.
LEMMA CommitStep ==
  ASSUME CallInv, Commit
  PROVE  CallInv'
<1>1. /\ call.pc \in {"committing", "orphan"} /\ up' = up
      /\ call' = [call EXCEPT !.pc = "done", !.commits = call.commits + 1,
                              !.answer = IF call.pc = "orphan" THEN call.answer ELSE "ok"]
  BY DEF Commit, Keep
<1>2. call.commits = 0 /\ call.commits + 1 = 1
  BY <1>1 DEF CallInv, Undecided
<1>3. CallTypeOK'
  BY <1>1, <1>2 DEF CallInv, CallTypeOK, Answers
<1>. QED BY <1>1, <1>2, <1>3 DEF CallInv, CallTypeOK, Undecided, Carried, LetThrough,
                                 CallHonest, Authorised, None

\* A leader that lost its office, and a connection that breaks.
LEMMA BrokenStep ==
  ASSUME CallInv, Deposed \/ Lose
  PROVE  CallInv'
<1>1. up' = up /\ call.pc \in {"received", "proposing", "committing", "orphan"}
  BY DEF Deposed, Lose, Keep
<1>2. CASE Deposed
  <2>1. /\ call.pc \in {"committing", "orphan"}
        /\ call' = [call EXCEPT !.pc = IF call.pc = "orphan" THEN "done" ELSE "proposing"]
    BY <1>2 DEF Deposed
  <2>2. CallTypeOK'
    BY <1>1, <2>1 DEF CallInv, CallTypeOK
  <2>. QED BY <1>1, <2>1, <2>2 DEF CallInv, CallTypeOK, Undecided, Carried, LetThrough,
                                   CallHonest, Authorised, None
<1>3. CASE Lose
  <2>1. /\ call.pc \in {"received", "proposing", "committing"}
        /\ call' = [call EXCEPT !.answer = "unavailable",
                                !.pc = IF call.pc = "committing" THEN "orphan" ELSE "done"]
    BY <1>3 DEF Lose
  <2>2. CallTypeOK'
    BY <1>1, <2>1 DEF CallInv, CallTypeOK, Answers
  <2>. QED BY <1>1, <2>1, <2>2 DEF CallInv, CallTypeOK, Undecided, Carried, LetThrough,
                                   CallHonest, Authorised, None
<1>. QED BY <1>2, <1>3

\* Elections and lagging beliefs do not touch the call; a crash ends it.
LEMMA ClusterStep ==
  ASSUME CallInv, Cluster
  PROVE  CallInv'
<1>1. ASSUME call' = call, up' = up
      PROVE  CallInv'
  BY <1>1 DEF CallInv, CallTypeOK, Undecided, Carried, LetThrough, CallHonest, Authorised
<1>2. ASSUME NEW r \in Replicas, Crash(r)
      PROVE  CallInv'
  <2>1. up' \in SUBSET Replicas
    BY <1>2 DEF Crash, CallInv, CallTypeOK
  <2>2. CASE call' = call
    BY <2>1, <2>2 DEF CallInv, CallTypeOK, Undecided, Carried, LetThrough, CallHonest, Authorised
  <2>3. CASE call' # call
    <3>1. /\ call.pc \in {"received", "proposing", "committing", "orphan"}
          /\ call' = [call EXCEPT !.pc = "done", !.answer = "unavailable"]
      BY <1>2, <2>3 DEF Crash
    <3>2. CallTypeOK'
      BY <2>1, <3>1 DEF CallInv, CallTypeOK, Answers
    <3>. QED BY <3>1, <3>2 DEF CallInv, CallTypeOK, Undecided, Carried, LetThrough,
                               CallHonest, Authorised, None
  <2>. QED BY <2>2, <2>3
<1>. QED BY <1>1, <1>2 DEF Cluster, Elect, Believe, call_vars

\* Every step keeps the invariant of the call.
LEMMA CallsNextInv ==
  ASSUME CallInv, [CallsNext]_cvars
  PROVE  CallInv'
<1>1. ASSUME UNCHANGED call_vars
      PROVE  CallInv'
  BY <1>1 DEF call_vars, CallInv, CallTypeOK, Undecided, Carried, LetThrough, CallHonest, Authorised
<1>2. CASE Calls
  BY <1>2, SendStep, HandleStep, ProposeCallStep, CommitStep, BrokenStep DEF Calls
<1>. QED BY <1>1, <1>2, ClusterStep DEF CallsNext, cvars

\* No call has been made yet.
LEMMA CallsInitInv == CallsInit => CallInv
<1>. SUFFICES ASSUME CallsInit PROVE CallInv
  OBVIOUS
<1>1. call = NoCall /\ up = Replicas
  BY DEF CallsInit
<1>2. CallTypeOK
  BY <1>1 DEF CallTypeOK, NoCall, Answers
<1>. QED BY <1>1, <1>2 DEF NoCall, CallInv, Undecided, Carried, LetThrough, CallHonest, None

\* Seen from the log, a call is one command of Control or nothing at all.
LEMMA CallsAreSteps ==
  ASSUME CallInv, [CallsNext]_cvars
  PROVE  [Next]_vars \/ \E cmd \in Command : propose(cmd)
<1>1. CASE Calls
  <2>1. CASE Commit
    BY <2>1 DEF Commit, CallInv, LetThrough
  <2>2. CASE ~Commit
    BY <1>1, <2>2 DEF Calls, Send, Handle, propose_call, Deposed, Lose
  <2>. QED BY <2>1, <2>2
<1>2. CASE Cluster
  BY <1>2 DEF Cluster, Elect, Believe, Crash, Next, Steps
<1>3. Steps(Active) => Next
  BY ActiveAssumption DEF Next, Steps
<1>. QED BY <1>1, <1>2, <1>3 DEF CallsNext, cvars

\* The strengthened invariant of the state group with calls on their way.
THEOREM CallsInductive == CallsSpec => [](IInv /\ CallInv)
<1>1. CallsInit => IInv /\ CallInv
  BY InitIInv, CallsInitInv DEF CallsInit
<1>2. IInv /\ CallInv /\ [CallsNext]_cvars => IInv' /\ CallInv'
  BY CallsAreSteps, CallsNextInv, NextIInv, ProposeStep
<1>. QED BY <1>1, <1>2, PTL DEF CallsSpec

\* What the sender of an operator call is told is the truth about the log, and
\* nothing is committed that some coordinator on its way would have refused
\* (drain_node, reassign_v_shard, ControlPlane::propose, require).
THEOREM CallsHonest == CallsSpec => []CallHonest
<1>1. IInv /\ CallInv => CallHonest
  BY DEF CallInv
<1>. QED BY <1>1, CallsInductive, PTL

\* Replicas hold what the log says while calls are validated at one coordinator
\* and committed at another, by a leader that may be deposed or crash.
THEOREM CallsAuthorityAgrees == CallsSpec => []AuthorityIsLog
<1>1. IInv /\ CallInv => AuthorityIsLog
  BY AuthorityHolds
<1>. QED BY <1>1, CallsInductive, PTL

\* No call makes a coordinator forget a drain marker.
THEOREM CallsKeepIntent == CallsSpec => IntentKept
<1>1. IInv /\ CallInv /\ [CallsNext]_cvars =>
        [\A r \in Replicas : draining[r] \subseteq draining'[r] \/ Restart(r) \/ r \in torn \cup torn']_vars
  BY IntentStep, CallsAreSteps
<1>. QED BY <1>1, CallsInductive, PTL DEF CallsSpec, IntentKept
=============================================================================

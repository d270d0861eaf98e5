--------------------------- MODULE SnapshotProofs ---------------------------
(***************************************************************************)
(* The snapshot tiers, for a log of any length with memberships anywhere   *)
(* in it, and for any number of restarts.  None of the properties of       *)
(* SnapshotStore is inductive: each speaks of what is on disk or in the    *)
(* application between two operations, and the invariant must say where    *)
(* an operation that is under way stands.  Its parts are                   *)
(*   Modes      which operations can be under way together;                *)
(*   Worker     where an install has brought the application;              *)
(*   Progress   snapshots under way are newer than the one reported;       *)
(*   Quiet      what is exact until a builder reads across a worker's step;*)
(*   Loose      what a builder may have read too much, at most one entry;  *)
(*   Tidy       the directory until a build and an install cross;          *)
(*   Covered    what the core was told and what it purged is on disk.      *)
(***************************************************************************)
EXTENDS SnapshotStore, WellFoundedInduction, TLAPS

Built == {"meta", "renamed", "persisted"}
Files == disk \cup s3 \cup {inner.snapshot}

\* An entry is applied by a free worker of a running process; a process that
\* is down holds nothing.
Modes ==
  /\ applying => up /\ install.pc = "none" /\ inner.last_applied < committed
  /\ ~up => /\ app = {} /\ inner = EmptyInner /\ reported = 0
            /\ ~applying /\ build = Idle /\ install = Idle

\* An install moves the application first and last_applied and the
\* membership next.
Worker ==
  /\ install.pc # "none" => /\ (Unmixed => Exact(install.snap))
                            /\ install.snap.data \subseteq Payloads(install.snap.index + 1)
                            /\ app = install.snap.data
  /\ install.pc = "restored" => inner.last_applied < install.snap.index
  /\ install.pc \in {"set", "renamed"} =>
       /\ inner.last_applied = install.snap.index
       /\ inner.membership = install.snap.membership

\* What was reported has been applied.
Progress ==
  /\ reported <= inner.last_applied
  /\ build.pc \in Built => build.snap.index <= inner.last_applied

\* Until a builder reads across a step of the worker, state and snapshots
\* are those of the log prefix they name.
Quiet ==
  Unmixed =>
    /\ install.pc = "none" =>
         LET i == IF applying THEN inner.last_applied + 1 ELSE inner.last_applied
         IN app = Payloads(i) /\ inner.membership = MembershipAt(i)
    /\ build.pc = "read" => ~applying /\ install.pc # "restored" /\ build.snap.data = app
    /\ build.pc \in Built => Exact(build.snap)
    /\ \A s \in Files : Exact(s)

\* Until a build and an install cross, nothing holds more than one entry
\* more than the index it goes with.
Loose ==
  "crossed" \notin history =>
    /\ install.pc = "none" => app \subseteq Payloads(inner.last_applied + 1)
    /\ build.pc = "read" => build.snap.data \subseteq Payloads(inner.last_applied + 1)
    /\ build.pc \in Built => build.snap.data \subseteq Payloads(build.snap.index + 1)
    /\ \A s \in Files : s.data \subseteq Payloads(s.index + 1)

\* Until then, too, the snapshot under way is newer than what was reported
\* and than every file that is not its own, and its file stays.
Tidy ==
  "crossed" \notin history =>
    /\ build.pc # "none" => install.pc = "none"
    /\ build.pc = "read" => reported < inner.last_applied
    /\ build.pc \in Built => reported < build.snap.index
    /\ build.pc = "renamed" => build.snap \in disk
    /\ install.pc = "renamed" => install.snap \in disk
    /\ up => \A f \in disk :
         \/ f.index <= reported
         \/ build.pc \in {"renamed", "persisted"} /\ f.index <= build.snap.index
         \/ install.pc = "renamed" /\ f.index <= install.snap.index

Covers(i) == i > 0 => \E f \in disk : f.index >= i

\* Until then and until a write fails, what was reported or purged is on disk.
Covered ==
  history \cap {"failed", "crossed"} = {} =>
    /\ Covers(reported)
    /\ Covers(purged)
    /\ build.pc = "persisted" => build.snap \in disk

IInv == SnapshotTypeOK /\ Modes /\ Worker /\ Progress /\ Quiet /\ Loose /\ Tidy /\ Covered

-----------------------------------------------------------------------------
(* The log prefix that an index names                                      *)

USE DEF Unmixed

\* The payloads up to an entry, and how one more entry changes them.
LEMMA PayloadsFacts ==
  /\ Payloads(0) = {}
  /\ \A i \in LogIndex : Payloads(i) \subseteq 1 .. MaxLog
  /\ \A i \in Nat : Payloads(i) \subseteq Payloads(i + 1)
  /\ \A i \in Nat : Payloads(i + 1) = IF i + 1 \in Memberships THEN Payloads(i)
                                      ELSE Payloads(i) \cup {i + 1}
BY MaxLogAssumption DEF Payloads, LogIndex

\* A non-empty set of naturals has a least member.
LEMMA LeastNat ==
  ASSUME NEW T, T \subseteq Nat, T # {}
  PROVE  \E x \in T : \A y \in T : x <= y
<1>. DEFINE R == OpToRel(<, Nat)
<1>1. \E x \in T : \A y \in T : ~ (<<y, x>> \in R)
  <2>1. IsWellFoundedOn(R, Nat)
    BY NatLessThanWellFounded
  <2>. HIDE DEF R
  <2>. QED BY <2>1, WFMin
<1>2. \A x, y \in Nat : ~ (<<y, x>> \in R) => x <= y
  BY DEF OpToRel
<1>. HIDE DEF R
<1>. QED BY <1>1, <1>2

\* A non-empty set of entries has a greatest member.
LEMMA GreatestIndex ==
  ASSUME NEW T, T \subseteq LogIndex, T # {}
  PROVE  \E x \in T : \A y \in T : y <= x
<1>. DEFINE D == {d \in Nat : \E y \in T : d = MaxLog - y}
<1>1. \A y \in T : y \in Nat /\ MaxLog - y \in D
  BY MaxLogAssumption DEF LogIndex
<1>2. D \subseteq Nat /\ D # {}
  BY <1>1
<1>3. PICK d \in D : \A e \in D : d <= e
  <2>. HIDE DEF D
  <2>. QED BY <1>2, LeastNat
<1>4. PICK x \in T : d = MaxLog - x
  OBVIOUS
<1>5. \A y \in T : d <= MaxLog - y
  BY <1>1, <1>3
<1>. QED BY <1>1, <1>4, <1>5, MaxLogAssumption

\* The membership as of an entry, and how one more entry changes it.
LEMMA MembershipFacts ==
  /\ MembershipAt(0) = 0
  /\ \A i \in LogIndex : MembershipAt(i) \in LogIndex
  /\ \A i \in Nat : MembershipAt(i + 1) = IF i + 1 \in Memberships THEN i + 1
                                          ELSE MembershipAt(i)
<1>1. MembershipAt(0) = 0
  BY DEF MembershipAt
<1>2. ASSUME NEW i \in LogIndex PROVE MembershipAt(i) \in LogIndex
  <2>. DEFINE S == Memberships \cap (1 .. i)
  <2>1. S \subseteq LogIndex /\ 0 \in LogIndex
    BY MaxLogAssumption, MembershipsAssumption DEF LogIndex
  <2>2. CASE S = {}
    BY <2>1, <2>2 DEF MembershipAt
  <2>3. CASE S # {}
    <3>1. \E m \in S : \A k \in S : k <= m
      BY <2>1, <2>3, GreatestIndex
    <3>2. MembershipAt(i) = CHOOSE m \in S : \A k \in S : k <= m
      BY <2>3 DEF MembershipAt
    <3>. HIDE DEF S
    <3>. QED BY <2>1, <3>1, <3>2
  <2>. QED BY <2>2, <2>3
<1>3. ASSUME NEW i \in Nat, i + 1 \in Memberships PROVE MembershipAt(i + 1) = i + 1
  <2>. DEFINE S == Memberships \cap (1 .. i + 1)
  <2>1. S # {} /\ i + 1 \in S /\ \A k \in S : k \in Nat /\ k <= i + 1
    BY <1>3
  <2>2. MembershipAt(i + 1) = CHOOSE m \in S : \A k \in S : k <= m
    BY <2>1 DEF MembershipAt
  <2>. HIDE DEF S
  <2>. QED BY <2>1, <2>2
<1>4. ASSUME NEW i \in Nat, i + 1 \notin Memberships
      PROVE  MembershipAt(i + 1) = MembershipAt(i)
  <2>. DEFINE Last(S) == IF S = {} THEN 0 ELSE CHOOSE m \in S : \A k \in S : k <= m
  <2>1. Memberships \cap (1 .. i + 1) = Memberships \cap (1 .. i)
    BY <1>4
  <2>2. /\ MembershipAt(i + 1) = Last(Memberships \cap (1 .. i + 1))
        /\ MembershipAt(i) = Last(Memberships \cap (1 .. i))
    BY DEF MembershipAt
  <2>. HIDE DEF Last
  <2>. QED BY <2>1, <2>2
<1>. QED BY <1>1, <1>2, <1>3, <1>4

\* The snapshot of a log prefix.
LEMMA ExactFacts ==
  /\ ExactAt(0) = NoSnapshot
  /\ \A i \in LogIndex : /\ ExactAt(i) \in Snapshot
                      /\ Exact(ExactAt(i))
                      /\ ExactAt(i).index = i
                      /\ ExactAt(i).membership = MembershipAt(i)
                      /\ ExactAt(i).data = Payloads(i)
                      /\ ExactAt(i).data \subseteq Payloads(i + 1)
<1>1. ExactAt(0) = NoSnapshot
  BY PayloadsFacts, MembershipFacts DEF ExactAt, NoSnapshot
<1>2. \A i \in LogIndex : /\ ExactAt(i).index = i
                       /\ ExactAt(i).membership = MembershipAt(i)
                       /\ ExactAt(i).data = Payloads(i)
  BY DEF ExactAt
<1>3. \A i \in LogIndex : ExactAt(i) \in Snapshot
  BY PayloadsFacts, MembershipFacts DEF ExactAt, Snapshot
<1>4. \A i \in LogIndex : Exact(ExactAt(i))
  BY <1>2 DEF Exact
<1>5. \A i \in LogIndex : i \in Nat
  BY MaxLogAssumption DEF LogIndex
<1>. QED BY <1>1, <1>2, <1>3, <1>4, <1>5, PayloadsFacts

\* What an exact snapshot holds.
LEMMA ExactSnapshot ==
  ASSUME NEW s \in Snapshot, Exact(s)
  PROVE  /\ s.data = Payloads(s.index)
         /\ s.membership = MembershipAt(s.index)
         /\ s.data \subseteq Payloads(s.index + 1)
<1>1. s.index \in LogIndex /\ s.index \in Nat
  BY MaxLogAssumption DEF Snapshot, LogIndex
<1>. QED BY <1>1, ExactFacts DEF Exact

\* Newest picks a snapshot that no other is newer than.
LEMMA NewestFacts ==
  ASSUME NEW S, S \subseteq Snapshot, S # {}
  PROVE  Newest(S) \in S /\ \A t \in S : t.index <= Newest(S).index
<1>. DEFINE T == {t.index : t \in S}
<1>1. T \subseteq LogIndex /\ T # {}
  BY DEF Snapshot
<1>2. PICK x \in T : \A y \in T : y <= x
  BY <1>1, GreatestIndex
<1>3. PICK s \in S : x = s.index
  OBVIOUS
<1>4. \A t \in S : t.index <= s.index
  BY <1>2, <1>3
<1>. QED BY <1>4 DEF Newest

-----------------------------------------------------------------------------
(* The steps, one lemma for each                                           *)

\* What the type invariant says of the indexes the proofs calculate with.
LEMMA Numbers ==
  ASSUME SnapshotTypeOK
  PROVE  /\ MaxLog \in Nat
         /\ \A i \in LogIndex : i \in Nat /\ i <= MaxLog
         /\ committed \in LogIndex /\ purged \in LogIndex /\ reported \in LogIndex
         /\ inner.last_applied \in LogIndex /\ inner.membership \in LogIndex
         /\ build.snap \in Snapshot /\ install.snap \in Snapshot
         /\ inner.snapshot \in Snapshot
         /\ \A s \in Snapshot : s.index \in LogIndex /\ s.membership \in LogIndex
BY MaxLogAssumption DEF SnapshotTypeOK, LogIndex, Snapshot

\* The empty snapshot and the empty state machine are well formed and exact.
LEMMA EmptyFacts ==
  /\ NoSnapshot \in Snapshot /\ Exact(NoSnapshot)
  /\ NoSnapshot.index = 0 /\ NoSnapshot.data = {}
  /\ Idle \in [pc : {"none"}, snap : Snapshot]
  /\ EmptyInner \in [last_applied : LogIndex, membership : LogIndex, snapshot : Snapshot]
<1>1. 0 \in LogIndex
  BY MaxLogAssumption DEF LogIndex
<1>2. NoSnapshot \in Snapshot /\ NoSnapshot.index = 0 /\ NoSnapshot.data = {}
  BY <1>1 DEF NoSnapshot, Snapshot
<1>. QED BY <1>1, <1>2, ExactFacts DEF Exact, Idle, EmptyInner

\* Another entry is committed.
LEMMA CommitStep == ASSUME IInv, Commit PROVE IInv'
<1>1. SnapshotTypeOK'
  BY Numbers DEF IInv, Commit, SnapshotTypeOK, LogIndex
<1>2. Modes'
  BY Numbers DEF IInv, Commit, Modes
<1>3. Worker' /\ Progress' /\ Quiet'
  BY DEF IInv, Commit, Worker, Progress, Quiet, Files
<1>4. Loose' /\ Tidy' /\ Covered'
  BY DEF IInv, Commit, Loose, Files, Tidy, Covered, Covers
<1>. QED BY <1>1, <1>2, <1>3, <1>4 DEF IInv

\* The application, or the membership, gets the entry after last_applied: it
\* is then one entry ahead, which Quiet and Loose allow while applying.
LEMMA ApplyStep == ASSUME IInv, Apply PROVE IInv'
<1>. DEFINE i == inner.last_applied + 1
<1>1. /\ SnapshotTypeOK /\ up /\ install.pc = "none" /\ ~applying /\ applying'
      /\ i <= committed /\ i \in LogIndex /\ i \in 1 .. MaxLog
      /\ inner.last_applied \in Nat
  BY Numbers DEF IInv, Apply, WorkerFree, SnapshotTypeOK, LogIndex
<1>2. /\ UNCHANGED <<committed, purged, reported, build, install, disk, s3, up, restarts>>
      /\ inner' = IF i \in Memberships THEN [inner EXCEPT !.membership = i] ELSE inner
      /\ app' = IF i \in Memberships THEN app ELSE app \cup {i}
      /\ history' = history \cup Note("mixed", build.pc = "read")
  BY DEF Apply
<1>3. /\ inner' \in [last_applied : LogIndex, membership : LogIndex, snapshot : Snapshot]
      /\ inner'.last_applied = inner.last_applied
      /\ inner'.snapshot = inner.snapshot
      /\ inner'.membership = IF i \in Memberships THEN i ELSE inner.membership
  BY <1>1, <1>2 DEF SnapshotTypeOK
<1>4. SnapshotTypeOK'
  <2>1. app' \subseteq 1 .. MaxLog
    BY <1>1, <1>2 DEF SnapshotTypeOK
  <2>2. history' \subseteq Incidents
    BY <1>1, <1>2 DEF SnapshotTypeOK, Note, Incidents
  <2>. QED BY <1>1, <1>2, <1>3, <2>1, <2>2 DEF SnapshotTypeOK
<1>5. Modes'
  BY <1>1, <1>2, <1>3, Numbers DEF Modes
<1>6. Worker' /\ Progress'
  BY <1>1, <1>2, <1>3 DEF IInv, Worker, Progress
<1>7. Quiet'
  <2>. SUFFICES ASSUME Unmixed' PROVE Quiet'
    BY DEF Quiet
  <2>1. Unmixed /\ build.pc # "read"
    BY <1>2 DEF Note
  <2>2. app' = Payloads(i) /\ inner'.membership = MembershipAt(i)
    BY <1>1, <1>2, <1>3, <2>1, PayloadsFacts, MembershipFacts DEF IInv, Quiet
  <2>. QED BY <1>1, <1>2, <1>3, <2>1, <2>2 DEF IInv, Quiet, Files
<1>8. Loose'
  <2>. SUFFICES ASSUME "crossed" \notin history' PROVE Loose'
    BY DEF Loose
  <2>1. "crossed" \notin history
    BY <1>2
  <2>2. app' \subseteq Payloads(i)
    <3>1. app \subseteq Payloads(i)
      BY <1>1, <2>1 DEF IInv, Loose
    <3>2. i \notin Memberships => i \in Payloads(i)
      BY <1>1, PayloadsFacts
    <3>. HIDE DEF i
    <3>. QED BY <1>2, <3>1, <3>2
  <2>. QED BY <1>2, <1>3, <2>1, <2>2 DEF IInv, Loose, Files
<1>9. Tidy' /\ Covered'
  <2>1. \A h \in {"crossed", "failed"} : h \in history' <=> h \in history
    BY <1>2 DEF Note
  <2>2. Tidy'
    BY <1>2, <1>3, <2>1 DEF IInv, Tidy
  <2>3. Covered'
    BY <1>2, <2>1 DEF IInv, Covered, Covers
  <2>. QED BY <2>2, <2>3
<1>. QED BY <1>4, <1>5, <1>6, <1>7, <1>8, <1>9 DEF IInv

\* last_applied catches up with the application.
LEMMA ApplyDoneStep == ASSUME IInv, ApplyDone PROVE IInv'
<1>1. /\ SnapshotTypeOK /\ up /\ install.pc = "none" /\ applying /\ ~applying'
      /\ inner.last_applied < committed
      /\ inner.last_applied \in Nat /\ reported \in Nat
  BY Numbers DEF IInv, ApplyDone, WorkerFree, Modes
<1>2. /\ UNCHANGED <<committed, purged, reported, app, build, install, disk, s3, up,
                     restarts, history>>
      /\ inner' = [inner EXCEPT !.last_applied = @ + 1]
  BY DEF ApplyDone
<1>3. /\ inner'.last_applied = inner.last_applied + 1
      /\ inner'.membership = inner.membership /\ inner'.snapshot = inner.snapshot
  BY <1>1, <1>2 DEF SnapshotTypeOK
<1>4. SnapshotTypeOK'
  <2>1. inner.last_applied + 1 \in LogIndex
    BY <1>1, Numbers DEF LogIndex
  <2>. QED BY <1>1, <1>2, <2>1 DEF SnapshotTypeOK, ApplyDone
<1>5. Modes' /\ Worker'
  BY <1>1, <1>2 DEF IInv, Modes, Worker
<1>6. Progress'
  BY <1>1, <1>2, <1>3, Numbers DEF IInv, Progress
<1>7. Quiet'
  BY <1>1, <1>2, <1>3 DEF IInv, Quiet, Files
<1>8. Loose'
  <2>1. Payloads(inner.last_applied + 1) \subseteq Payloads(inner.last_applied + 1 + 1)
    BY <1>1, PayloadsFacts
  <2>. QED BY <1>2, <1>3, <2>1 DEF IInv, Loose, Files
<1>9. Tidy' /\ Covered'
  BY <1>1, <1>2, <1>3 DEF IInv, Tidy, Covered, Covers
<1>. QED BY <1>4, <1>5, <1>6, <1>7, <1>8, <1>9 DEF IInv

\* The builder copies the application's state.  Quiet's and Tidy's claims of
\* a build at "read" start here, from the incidents the step did not note.
LEMMA BuildBeginStep == ASSUME IInv, BuildBegin PROVE IInv'
<1>1. /\ SnapshotTypeOK /\ up /\ build.pc = "none" /\ reported < inner.last_applied
      /\ app \subseteq 1 .. MaxLog
  BY DEF IInv, BuildBegin, SnapshotTypeOK
<1>2. /\ UNCHANGED <<committed, purged, reported, app, inner, applying, install, disk,
                     s3, up, restarts>>
      /\ history' = history \cup Note("mixed", applying \/ install.pc = "restored")
                            \cup Note("crossed", install.pc # "none")
  BY DEF BuildBegin
<1>3. /\ build'.pc = "read" /\ build'.snap.data = app
      /\ build' \in [pc : {"read"}, snap : Snapshot]
  BY <1>1, MaxLogAssumption DEF BuildBegin, NoSnapshot, Snapshot, LogIndex
<1>4. SnapshotTypeOK'
  <2>1. history' \subseteq Incidents
    BY <1>1, <1>2 DEF SnapshotTypeOK, Note, Incidents
  <2>. QED BY <1>1, <1>2, <1>3, <2>1 DEF SnapshotTypeOK
<1>5. Modes' /\ Worker' /\ Progress'
  BY <1>1, <1>2, <1>3 DEF IInv, Modes, Worker, Progress, Built
<1>6. Quiet'
  <2>. SUFFICES ASSUME Unmixed' PROVE Quiet'
    BY DEF Quiet
  <2>1. Unmixed /\ ~applying /\ install.pc # "restored"
    BY <1>2 DEF Note
  <2>. QED BY <1>2, <1>3, <2>1 DEF IInv, Quiet, Files, Built
<1>7. Loose' /\ Tidy'
  <2>. SUFFICES ASSUME "crossed" \notin history' PROVE Loose' /\ Tidy'
    BY DEF Loose, Tidy
  <2>1. "crossed" \notin history /\ install.pc = "none"
    BY <1>2 DEF Note
  <2>2. Loose'
    BY <1>2, <1>3, <2>1 DEF IInv, Loose, Files, Built
  <2>3. Tidy'
    BY <1>1, <1>2, <1>3, <2>1 DEF IInv, Tidy, Built
  <2>. QED BY <2>2, <2>3
<1>8. Covered'
  <2>1. history' \cap {"failed", "crossed"} = {} => history \cap {"failed", "crossed"} = {}
    BY <1>2
  <2>. QED BY <1>2, <1>3, <2>1 DEF IInv, Covered, Covers
<1>. QED BY <1>4, <1>5, <1>6, <1>7, <1>8 DEF IInv

\* The builder reads last_applied and the membership and publishes the
\* snapshot.  If no step of the worker came between, it is exact.
LEMMA BuildMetaStep == ASSUME IInv, BuildMeta PROVE IInv'
<1>. DEFINE s == [build.snap EXCEPT !.index = inner.last_applied,
                                    !.membership = inner.membership]
<1>1. /\ SnapshotTypeOK /\ up /\ build.pc = "read"
      /\ UNCHANGED <<committed, purged, reported, app, applying, install, disk, s3,
                     up, restarts, history>>
      /\ inner' = [inner EXCEPT !.snapshot = s]
      /\ build' = [pc |-> "meta", snap |-> s]
  BY DEF IInv, BuildMeta
<1>2. /\ s \in Snapshot /\ s.index = inner.last_applied
      /\ s.membership = inner.membership /\ s.data = build.snap.data
      /\ s = [index |-> inner.last_applied, membership |-> inner.membership,
              data |-> build.snap.data]
  <2>1. /\ build.snap \in Snapshot
        /\ inner.last_applied \in LogIndex /\ inner.membership \in LogIndex
    BY <1>1, Numbers
  <2>2. /\ s \in Snapshot /\ s.index = inner.last_applied
        /\ s.membership = inner.membership /\ s.data = build.snap.data
    BY <2>1 DEF Snapshot
  <2>. HIDE DEF s
  <2>. QED BY <2>2 DEF Snapshot
<1>. HIDE DEF s
<1>3. /\ build'.pc = "meta" /\ build'.snap = s /\ inner'.snapshot = s
      /\ inner'.last_applied = inner.last_applied /\ inner'.membership = inner.membership
  BY <1>1 DEF SnapshotTypeOK
<1>4. SnapshotTypeOK'
  BY <1>1, <1>2 DEF SnapshotTypeOK
<1>5. Modes' /\ Worker'
  BY <1>1, <1>3 DEF IInv, Modes, Worker
<1>6. Progress'
  <2>1. s.index <= inner.last_applied
    BY <1>1, <1>2, Numbers
  <2>. QED BY <1>1, <1>3, <2>1 DEF IInv, Progress
<1>7. Quiet'
  <2>. SUFFICES ASSUME Unmixed PROVE Quiet'
    BY <1>1 DEF Quiet
  <2>1. /\ ~applying /\ install.pc # "restored" /\ s.data = app
    BY <1>1, <1>2 DEF IInv, Quiet
  <2>2. /\ app = Payloads(inner.last_applied)
        /\ inner.membership = MembershipAt(inner.last_applied)
    <3>1. CASE install.pc = "none"
      BY <2>1, <3>1 DEF IInv, Quiet
    <3>2. CASE install.pc \in {"set", "renamed"}
      <4>1. /\ Exact(install.snap) /\ app = install.snap.data
            /\ inner.last_applied = install.snap.index
            /\ inner.membership = install.snap.membership
        BY <3>2 DEF IInv, Worker
      <4>2. install.snap \in Snapshot
        BY <1>1, Numbers
      <4>. QED BY <4>1, <4>2, ExactSnapshot
    <3>. QED BY <1>1, <2>1, <3>1, <3>2 DEF SnapshotTypeOK
  <2>3. Exact(s)
    BY <1>2, <2>1, <2>2 DEF Exact, ExactAt
  <2>. QED BY <1>1, <1>3, <2>1, <2>3 DEF IInv, Quiet, Files
<1>8. Loose'
  BY <1>1, <1>2, <1>3 DEF IInv, Loose, Files
<1>9. Tidy' /\ Covered'
  BY <1>1, <1>2, <1>3 DEF IInv, Tidy, Covered, Covers
<1>. QED BY <1>4, <1>5, <1>6, <1>7, <1>8, <1>9 DEF IInv

\* The rename takes the place of the file of the same index only.
LEMMA RenamedFacts ==
  ASSUME SnapshotTypeOK, NEW s \in Snapshot, disk' = Renamed(s)
  PROVE  /\ s \in disk' /\ disk' \subseteq Snapshot
         /\ \A f \in disk' : f \in disk \/ f = s
         /\ \A f \in disk : \E g \in disk' : g.index = f.index
BY DEF Renamed, SnapshotTypeOK

\* The builder's file is written, or is not.
LEMMA BuildPersistStep == ASSUME IInv, BuildPersist PROVE IInv'
<1>. DEFINE s == build.snap
<1>1. /\ SnapshotTypeOK /\ up /\ build.pc = "meta" /\ s \in Snapshot
      /\ UNCHANGED <<committed, purged, reported, app, inner, applying, install, s3, up, restarts>>
  BY Numbers DEF IInv, BuildPersist
<1>2. /\ build' \in [pc : {"renamed", "persisted"}, snap : Snapshot] /\ build'.snap = s
      /\ history \subseteq history'
      /\ \A h \in {"crossed", "mixed", "torn"} : h \in history' <=> h \in history
      /\ history' \subseteq Incidents
  BY <1>1 DEF BuildPersist, SnapshotTypeOK, Incidents
<1>3. \/ build'.pc = "renamed" /\ disk' = Renamed(s) /\ history' = history
      \/ build'.pc = "persisted" /\ disk' = disk /\ "failed" \in history'
  BY <1>1 DEF BuildPersist, SnapshotTypeOK
<1>4. /\ disk' \subseteq Snapshot
      /\ \A f \in disk' : f \in disk \/ f = s
      /\ \A f \in disk : \E g \in disk' : g.index = f.index
      /\ build'.pc = "renamed" => s \in disk'
  BY <1>1, <1>3, RenamedFacts DEF SnapshotTypeOK
<1>. HIDE DEF s
<1>5. SnapshotTypeOK'
  BY <1>1, <1>2, <1>4 DEF SnapshotTypeOK
<1>6. Modes' /\ Worker' /\ Progress'
  BY <1>1, <1>2 DEF IInv, Modes, Worker, Progress, Built, s
<1>7. Quiet'
  BY <1>1, <1>2, <1>4 DEF IInv, Quiet, Files, Built, s
<1>8. Loose'
  BY <1>1, <1>2, <1>4 DEF IInv, Loose, Files, Built, s
<1>9. Tidy'
  <2>. SUFFICES ASSUME "crossed" \notin history PROVE Tidy'
    BY <1>2 DEF Tidy
  <2>1. /\ install.pc = "none" /\ reported < s.index
        /\ \A f \in disk : f.index <= reported
    BY <1>1 DEF IInv, Tidy, Built, s
  <2>2. reported \in Nat /\ s.index \in Nat /\ s.index <= s.index
    BY <1>1, Numbers
  <2>3. \A f \in disk' : f.index <= reported \/ f.index <= s.index
    BY <1>4, <2>1, <2>2
  <2>. QED BY <1>1, <1>2, <1>4, <2>1, <2>3 DEF Tidy, Built
<1>10. Covered'
  <2>. SUFFICES ASSUME history' \cap {"failed", "crossed"} = {} PROVE Covered'
    BY DEF Covered
  <2>1. history \cap {"failed", "crossed"} = {} /\ build'.pc = "renamed"
    BY <1>2, <1>3
  <2>. QED BY <1>1, <1>4, <2>1 DEF IInv, Covered, Covers
<1>. QED BY <1>5, <1>6, <1>7, <1>8, <1>9, <1>10 DEF IInv

\* Removing one of the other files leaves one that is as new, if the file
\* that stays is as new as every file.
LEMMA RemoveFacts ==
  ASSUME SnapshotTypeOK, NEW s \in disk, \A f \in disk : f.index <= s.index,
         NEW f \in Others(s), disk' = disk \ {f}
  PROVE  /\ s \in disk'
         /\ \A i \in Nat : (\E g \in disk : i <= g.index) => \E g \in disk' : i <= g.index
<1>1. s \in disk'
  BY DEF Others
<1>2. \A g \in disk : g.index \in Nat
  BY Numbers DEF SnapshotTypeOK
<1>. QED BY <1>1, <1>2

\* Until a build and an install cross, the file an operation leaves in place
\* is as new as every other.
LEMMA RenamedIsNewest ==
  ASSUME IInv, up, "crossed" \notin history
  PROVE  /\ build.pc = "renamed" =>
              build.snap \in disk /\ \A f \in disk : f.index <= build.snap.index
         /\ install.pc = "renamed" =>
              install.snap \in disk /\ \A f \in disk : f.index <= install.snap.index
<1>1. /\ reported \in Nat /\ build.snap.index \in Nat /\ install.snap.index \in Nat
      /\ \A f \in disk : f.index \in Nat
  BY Numbers DEF IInv, SnapshotTypeOK
<1>2. build.pc = "renamed" =>
        /\ build.snap \in disk /\ install.pc = "none" /\ reported < build.snap.index
        /\ \A f \in disk : f.index <= reported \/ f.index <= build.snap.index
  BY DEF IInv, Tidy, Built
<1>3. install.pc = "renamed" =>
        /\ install.snap \in disk /\ build.pc = "none"
        /\ \A f \in disk : f.index <= reported \/ f.index <= install.snap.index
  BY DEF IInv, Tidy
<1>4. install.pc = "renamed" => reported <= install.snap.index
  BY DEF IInv, Progress, Worker
<1>. QED BY <1>1, <1>2, <1>3, <1>4

\* The builder removes another file, or finds none.
LEMMA BuildRemoveStep == ASSUME IInv, BuildRemove PROVE IInv'
<1>1. /\ SnapshotTypeOK /\ up /\ build.pc = "renamed" /\ build.snap \in Snapshot
      /\ UNCHANGED <<committed, purged, reported, app, inner, applying, install, s3, up,
                     restarts, history>>
      /\ disk' \subseteq disk
      /\ \/ disk' = disk
         \/ \E f \in Others(build.snap) : disk' = disk \ {f}
  BY Numbers DEF IInv, BuildRemove
<1>2. build' \in [pc : {"renamed", "persisted"}, snap : Snapshot] /\ build'.snap = build.snap
  BY <1>1 DEF BuildRemove, SnapshotTypeOK
<1>3. SnapshotTypeOK'
  BY <1>1, <1>2 DEF SnapshotTypeOK
<1>4. Modes' /\ Worker' /\ Progress'
  BY <1>1, <1>2 DEF IInv, Modes, Worker, Progress, Built
<1>5. Quiet' /\ Loose'
  BY <1>1, <1>2 DEF IInv, Quiet, Loose, Files, Built
<1>6. "crossed" \notin history =>
        /\ build.snap \in disk'
        /\ \A i \in Nat : (\E g \in disk : i <= g.index) => \E g \in disk' : i <= g.index
  BY <1>1, RenamedIsNewest, RemoveFacts
<1>7. Tidy'
  BY <1>1, <1>2, <1>6 DEF IInv, Tidy, Built
<1>8. Covered'
  <2>1. reported \in Nat /\ purged \in Nat /\ \A f \in disk : f.index \in Nat
    BY <1>1, Numbers DEF SnapshotTypeOK
  <2>. QED BY <1>1, <1>2, <1>6, <2>1 DEF IInv, Covered, Covers
<1>. QED BY <1>3, <1>4, <1>5, <1>7, <1>8 DEF IInv

\* The core is told of the snapshot; if no write failed its file is there.
LEMMA BuildUploadStep == ASSUME IInv, BuildUpload PROVE IInv'
<1>. DEFINE s == build.snap
<1>1. /\ SnapshotTypeOK /\ up /\ build.pc = "persisted" /\ s \in Snapshot
      /\ UNCHANGED <<committed, purged, app, inner, applying, install, disk, up, restarts,
                     history>>
      /\ reported' = IF s.index > reported THEN s.index ELSE reported
      /\ build' = Idle /\ build'.pc = "none"
  BY Numbers DEF IInv, BuildUpload, Idle
<1>2. s3' \subseteq Snapshot /\ \A f \in s3' : f \in s3 \/ f = s
  BY <1>1 DEF BuildUpload, Uploaded, SnapshotTypeOK
<1>3. /\ reported \in Nat /\ s.index \in Nat /\ reported' \in LogIndex
      /\ reported <= reported' /\ s.index <= reported'
      /\ reported' \in {reported, s.index}
      /\ \A f \in disk : f.index \in Nat
  BY <1>1, Numbers DEF SnapshotTypeOK
<1>4. SnapshotTypeOK'
  BY <1>1, <1>2, <1>3, EmptyFacts DEF SnapshotTypeOK
<1>5. Modes' /\ Worker' /\ Progress'
  BY <1>1, <1>3 DEF IInv, Modes, Worker, Progress, Built
<1>6. Quiet' /\ Loose'
  BY <1>1, <1>2 DEF IInv, Quiet, Loose, Files, Built
<1>7. Tidy'
  BY <1>1, <1>3 DEF IInv, Tidy, Built
<1>8. Covered'
  BY <1>1, <1>3 DEF IInv, Covered, Covers
<1>. QED BY <1>4, <1>5, <1>6, <1>7, <1>8 DEF IInv

\* The worker puts the application at the snapshot of another member.
LEMMA InstallRestoreStep == ASSUME IInv, InstallRestore PROVE IInv'
<1>1. /\ SnapshotTypeOK /\ up /\ install.pc = "none" /\ ~applying
      /\ UNCHANGED <<committed, purged, reported, inner, applying, build, disk, s3, up, restarts>>
  BY DEF IInv, InstallRestore, WorkerFree
<1>0. PICK i \in inner.last_applied + 1 .. committed :
        \E s \in Received(i) :
          /\ install' = [pc |-> "restored", snap |-> s]
          /\ app' = s.data
          /\ history' = history \cup Note("mixed", build.pc = "read")
                                \cup Note("torn", ~Exact(s))
                                \cup Note("crossed", build.pc # "none")
  BY DEF InstallRestore
<1>2. PICK s \in Received(i) :
        /\ install' = [pc |-> "restored", snap |-> s]
        /\ app' = s.data
        /\ history' = history \cup Note("mixed", build.pc = "read")
                              \cup Note("torn", ~Exact(s))
                              \cup Note("crossed", build.pc # "none")
  BY <1>0
<1>3. /\ i \in LogIndex /\ inner.last_applied < i
  BY <1>1, Numbers DEF LogIndex
<1>4. /\ install' \in [pc : {"restored"}, snap : Snapshot]
      /\ install'.snap = s /\ s.index = i /\ s.data \subseteq Payloads(i + 1)
  <2>1. PICK j \in LogIndex : j <= i + 1 /\ s = [ExactAt(i) EXCEPT !.data = Payloads(j)]
    BY DEF Received
  <2>2. ExactAt(i) \in Snapshot /\ ExactAt(i).index = i
    BY <1>3, ExactFacts
  <2>3. Payloads(j) \subseteq 1 .. MaxLog
    BY PayloadsFacts
  <2>4. s \in Snapshot /\ s.index = i /\ s.data = Payloads(j)
    BY <2>1, <2>2, <2>3 DEF Snapshot
  <2>5. Payloads(j) \subseteq Payloads(i + 1)
    BY <1>3, <2>1, MaxLogAssumption DEF Payloads, LogIndex
  <2>. QED BY <1>2, <2>4, <2>5
<1>5. SnapshotTypeOK'
  <2>1. app' \subseteq 1 .. MaxLog
    BY <1>2, <1>4 DEF Snapshot
  <2>2. history' \subseteq Incidents
    BY <1>1, <1>2 DEF SnapshotTypeOK, Note, Incidents
  <2>. QED BY <1>1, <1>4, <2>1, <2>2 DEF SnapshotTypeOK
<1>6. Modes' /\ Progress'
  BY <1>1, <1>2, <1>3, <1>4 DEF IInv, Modes, Progress
<1>7. Quiet' /\ Worker'
  <2>1. Unmixed' => Unmixed /\ build.pc # "read" /\ Exact(s)
    BY <1>2 DEF Note
  <2>2. Quiet'
    BY <1>1, <1>4, <2>1 DEF IInv, Quiet, Files
  <2>3. Worker'
    BY <1>1, <1>2, <1>3, <1>4, <2>1 DEF Worker
  <2>. QED BY <2>2, <2>3
<1>8. Loose' /\ Tidy' /\ Covered'
  <2>1. "crossed" \notin history' => "crossed" \notin history /\ build.pc = "none"
    BY <1>2 DEF Note
  <2>2. Loose'
    BY <1>1, <1>4, <2>1 DEF IInv, Loose, Files, Built
  <2>3. Tidy'
    BY <1>1, <1>4, <2>1 DEF IInv, Tidy, Built
  <2>4. "failed" \notin history' => "failed" \notin history
    BY <1>2
  <2>5. Covered'
    BY <1>1, <2>1, <2>4 DEF IInv, Covered, Covers
  <2>. QED BY <2>2, <2>3, <2>5
<1>. QED BY <1>5, <1>6, <1>7, <1>8 DEF IInv

\* last_applied and the membership follow.
LEMMA InstallSetStep == ASSUME IInv, InstallSet PROVE IInv'
<1>. DEFINE s == install.snap
<1>1. /\ SnapshotTypeOK /\ up /\ install.pc = "restored" /\ s \in Snapshot
      /\ UNCHANGED <<committed, purged, reported, app, applying, build, disk, s3, up,
                     restarts, history>>
      /\ inner' = [last_applied |-> s.index, membership |-> s.membership, snapshot |-> s]
  BY Numbers DEF IInv, InstallSet
<1>2. install' \in [pc : {"set"}, snap : Snapshot] /\ install'.snap = s
  BY <1>1 DEF InstallSet, SnapshotTypeOK
<1>3. /\ app = s.data /\ s.data \subseteq Payloads(s.index + 1)
      /\ Unmixed => Exact(s)
      /\ inner.last_applied < s.index /\ ~applying
  BY <1>1 DEF IInv, Worker, Modes
<1>4. inner'.last_applied = s.index /\ inner'.membership = s.membership /\ inner'.snapshot = s
  BY <1>1
<1>5. SnapshotTypeOK'
  BY <1>1, <1>2, Numbers DEF SnapshotTypeOK
<1>. HIDE DEF s
<1>6. Modes' /\ Worker'
  BY <1>1, <1>2, <1>3, <1>4 DEF IInv, Modes, Worker
<1>7. Progress'
  BY <1>1, <1>3, <1>4, Numbers DEF IInv, Progress
<1>8. Quiet'
  BY <1>1, <1>2, <1>3, <1>4 DEF IInv, Quiet, Files
<1>9. Loose'
  <2>1. "crossed" \notin history => build.pc = "none"
    BY <1>1 DEF IInv, Tidy
  <2>. QED BY <1>1, <1>2, <1>3, <1>4, <2>1 DEF IInv, Loose, Files, Built
<1>10. Tidy' /\ Covered'
  BY <1>1, <1>2 DEF IInv, Tidy, Covered, Covers, Built
<1>. QED BY <1>5, <1>6, <1>7, <1>8, <1>9, <1>10 DEF IInv

\* A finished install leaves the worker free, with the state of the snapshot
\* it installed, which is now reported.
LEMMA InstallDoneFacts ==
  ASSUME IInv, install.pc \in {"set", "renamed"}, InstallDone
  PROVE  /\ install' = Idle /\ install'.pc = "none"
         /\ reported' \in LogIndex /\ reported' <= inner.last_applied
         /\ reported' \in {reported, install.snap.index}
         /\ reported <= reported' /\ install.snap.index <= reported'
         /\ Unmixed => /\ app = Payloads(inner.last_applied)
                       /\ inner.membership = MembershipAt(inner.last_applied)
         /\ app \subseteq Payloads(inner.last_applied + 1)
         /\ ~applying
<1>1. install' = Idle /\ install'.pc = "none"
  BY DEF InstallDone, Idle
<1>2. /\ app = install.snap.data
      /\ inner.last_applied = install.snap.index
      /\ inner.membership = install.snap.membership
      /\ app \subseteq Payloads(inner.last_applied + 1)
      /\ Unmixed => Exact(install.snap)
      /\ ~applying
  BY DEF IInv, Worker, Modes
<1>3. reported \in LogIndex /\ install.snap.index \in LogIndex /\ \A i \in LogIndex : i \in Nat
  BY Numbers DEF IInv
<1>4. Unmixed => /\ app = Payloads(inner.last_applied)
                 /\ inner.membership = MembershipAt(inner.last_applied)
  <2>1. install.snap \in Snapshot
    BY Numbers DEF IInv
  <2>. QED BY <1>2, <2>1, ExactSnapshot
<1>. QED BY <1>1, <1>2, <1>3, <1>4 DEF InstallDone, IInv, Progress

\* The installed snapshot's file is written, or is not.
LEMMA InstallPersistStep == ASSUME IInv, InstallPersist PROVE IInv'
<1>. DEFINE s == install.snap
<1>1. /\ SnapshotTypeOK /\ up /\ install.pc = "set" /\ s \in Snapshot
      /\ s.data \subseteq Payloads(s.index + 1) /\ (Unmixed => Exact(s))
      /\ UNCHANGED <<committed, purged, app, inner, applying, build, s3, up, restarts>>
  BY Numbers DEF IInv, InstallPersist, Worker
<1>2. /\ \A h \in {"crossed", "mixed", "torn"} : h \in history' <=> h \in history
      /\ history \subseteq history'
  BY DEF InstallPersist
<1>3. CASE disk' = Renamed(s) /\ install' = [install EXCEPT !.pc = "renamed"]
           /\ UNCHANGED <<reported, history>>
  <2>1. /\ install' \in [pc : {"renamed"}, snap : Snapshot] /\ install'.snap = s
    BY <1>1, <1>3 DEF SnapshotTypeOK
  <2>2. /\ s \in disk' /\ disk' \subseteq Snapshot
        /\ \A f \in disk' : f \in disk \/ f = s
        /\ \A f \in disk : \E g \in disk' : g.index = f.index
    BY <1>1, <1>3, RenamedFacts
  <2>3. SnapshotTypeOK'
    BY <1>1, <1>3, <2>1, <2>2 DEF SnapshotTypeOK
  <2>4. Modes' /\ Worker' /\ Progress'
    BY <1>1, <1>3, <2>1 DEF IInv, Modes, Worker, Progress
  <2>. HIDE DEF s
  <2>5. Quiet' /\ Loose'
    BY <1>1, <1>3, <2>1, <2>2 DEF IInv, Quiet, Loose, Files, s
  <2>6. Tidy'
    <3>. SUFFICES ASSUME "crossed" \notin history PROVE Tidy'
      BY <1>3 DEF Tidy
    <3>1. build.pc = "none" /\ \A f \in disk : f.index <= reported
      BY <1>1 DEF IInv, Tidy, Built
    <3>2. s.index <= s.index
      BY <1>1, Numbers
    <3>. QED BY <1>1, <1>3, <2>1, <2>2, <3>1, <3>2 DEF Tidy, Built
  <2>7. Covered'
    <3>1. history \cap {"failed", "crossed"} = {} => build.pc = "none"
      BY <1>1 DEF IInv, Tidy
    <3>. QED BY <1>1, <1>3, <2>2, <3>1 DEF IInv, Covered, Covers
  <2>. QED BY <2>3, <2>4, <2>5, <2>6, <2>7 DEF IInv
<1>4. CASE disk' = disk /\ history' = history \cup {"failed"} /\ InstallDone
  <2>1. /\ install' = Idle /\ install'.pc = "none"
        /\ reported' \in LogIndex /\ reported' <= inner.last_applied
        /\ reported \in Nat /\ reported' \in Nat /\ reported <= reported'
        /\ Unmixed => /\ app = Payloads(inner.last_applied)
                      /\ inner.membership = MembershipAt(inner.last_applied)
        /\ app \subseteq Payloads(inner.last_applied + 1)
        /\ ~applying
    BY <1>1, <1>4, InstallDoneFacts, Numbers
  <2>2. SnapshotTypeOK'
    BY <1>1, <1>4, <2>1, EmptyFacts DEF SnapshotTypeOK, Incidents
  <2>3. Modes' /\ Worker' /\ Progress'
    BY <1>1, <2>1 DEF IInv, Modes, Worker, Progress
  <2>4. Quiet' /\ Loose'
    BY <1>1, <1>2, <1>4, <2>1 DEF IInv, Quiet, Loose, Files
  <2>5. Tidy'
    <3>. SUFFICES ASSUME "crossed" \notin history PROVE Tidy'
      BY <1>2 DEF Tidy
    <3>1. build.pc = "none" /\ \A f \in disk : f.index \in Nat /\ f.index <= reported
      BY <1>1, Numbers DEF IInv, Tidy, Built, SnapshotTypeOK
    <3>. QED BY <1>1, <1>4, <2>1, <3>1 DEF Tidy, Built
  <2>6. Covered'
    BY <1>4 DEF Covered
  <2>. QED BY <2>2, <2>3, <2>4, <2>5, <2>6 DEF IInv
<1>. QED BY <1>3, <1>4 DEF InstallPersist

\* The install removes another file, or finds none and is done.
LEMMA InstallRemoveStep == ASSUME IInv, InstallRemove PROVE IInv'
<1>. DEFINE s == install.snap
<1>1. /\ SnapshotTypeOK /\ up /\ install.pc = "renamed" /\ s \in Snapshot
      /\ UNCHANGED <<committed, purged, app, inner, applying, build, s3, up, restarts, history>>
      /\ reported \in Nat /\ purged \in Nat /\ s.index \in Nat
      /\ \A f \in disk : f.index \in Nat
  BY Numbers DEF IInv, InstallRemove, SnapshotTypeOK
<1>2. "crossed" \notin history =>
        s \in disk /\ build.pc = "none" /\ \A f \in disk : f.index <= s.index
  BY <1>1, RenamedIsNewest DEF IInv, Tidy
<1>3. CASE (\E f \in Others(s) : disk' = disk \ {f}) /\ UNCHANGED <<install, reported>>
  <2>1. disk' \subseteq disk
    BY <1>3
  <2>2. "crossed" \notin history =>
          /\ s \in disk'
          /\ \A i \in Nat : (\E g \in disk : i <= g.index) => \E g \in disk' : i <= g.index
    BY <1>1, <1>2, <1>3, RemoveFacts
  <2>3. SnapshotTypeOK'
    BY <1>1, <1>3, <2>1 DEF SnapshotTypeOK
  <2>4. Modes' /\ Worker' /\ Progress'
    BY <1>1, <1>3 DEF IInv, Modes, Worker, Progress
  <2>5. Quiet' /\ Loose'
    BY <1>1, <1>3, <2>1 DEF IInv, Quiet, Loose, Files
  <2>6. Tidy'
    BY <1>1, <1>2, <1>3, <2>1, <2>2 DEF IInv, Tidy, Built
  <2>7. Covered'
    BY <1>1, <1>2, <1>3, <2>2 DEF IInv, Covered, Covers
  <2>. QED BY <2>3, <2>4, <2>5, <2>6, <2>7 DEF IInv
<1>4. CASE disk' = disk /\ InstallDone
  <2>1. /\ install' = Idle /\ install'.pc = "none"
        /\ reported' \in LogIndex /\ reported' <= inner.last_applied
        /\ reported' \in Nat /\ reported <= reported' /\ s.index <= reported'
        /\ reported' \in {reported, s.index}
        /\ Unmixed => /\ app = Payloads(inner.last_applied)
                      /\ inner.membership = MembershipAt(inner.last_applied)
        /\ app \subseteq Payloads(inner.last_applied + 1)
        /\ ~applying
    BY <1>1, <1>4, InstallDoneFacts, Numbers
  <2>2. SnapshotTypeOK'
    BY <1>1, <1>4, <2>1, EmptyFacts DEF SnapshotTypeOK
  <2>3. Modes' /\ Worker' /\ Progress'
    BY <1>1, <2>1 DEF IInv, Modes, Worker, Progress
  <2>4. Quiet' /\ Loose'
    BY <1>1, <1>4, <2>1 DEF IInv, Quiet, Loose, Files
  <2>5. Tidy'
    BY <1>1, <1>2, <1>4, <2>1 DEF Tidy, Built
  <2>6. Covered'
    BY <1>1, <1>2, <1>4, <2>1 DEF IInv, Covered, Covers
  <2>. QED BY <2>2, <2>3, <2>4, <2>5, <2>6 DEF IInv
<1>. QED BY <1>3, <1>4 DEF InstallRemove

\* The core purges entries below what was reported.
LEMMA PurgeStep == ASSUME IInv, Purge PROVE IInv'
<1>1. PICK i \in purged + 1 .. reported : purged' = i
  BY DEF Purge
<1>2. /\ purged' \in LogIndex /\ purged' \in Nat /\ purged' <= reported /\ reported \in Nat
      /\ \A f \in disk : f.index \in Nat
      /\ UNCHANGED <<committed, reported, app, inner, applying, build, install, disk, s3,
                     up, restarts, history>>
  BY <1>1, Numbers DEF IInv, SnapshotTypeOK, Purge, LogIndex
<1>3. SnapshotTypeOK' /\ Modes' /\ Worker' /\ Progress'
  BY <1>2 DEF IInv, SnapshotTypeOK, Modes, Worker, Progress
<1>4. Quiet' /\ Loose' /\ Tidy'
  BY <1>2 DEF IInv, Quiet, Loose, Files, Tidy
<1>5. Covered'
  BY <1>2 DEF IInv, Covered, Covers
<1>. QED BY <1>3, <1>4, <1>5 DEF IInv

\* What a process that holds nothing satisfies, whatever is on disk.
LEMMA StopStep == ASSUME IInv, Stop PROVE IInv'
<1>1. /\ UNCHANGED <<committed, purged, disk, s3, history>>
      /\ ~up' /\ app' = {} /\ inner' = EmptyInner /\ reported' = 0 /\ ~applying'
      /\ build' = Idle /\ install' = Idle
      /\ build'.pc = "none" /\ install'.pc = "none"
      /\ inner'.last_applied = 0 /\ inner'.membership = 0 /\ inner'.snapshot = NoSnapshot
  BY DEF Stop, Idle, EmptyInner
<1>2. SnapshotTypeOK'
  <2>1. restarts' \in 0 .. MaxRestarts
    BY MaxLogAssumption DEF IInv, SnapshotTypeOK, Stop
  <2>2. applying' \in BOOLEAN /\ up' \in BOOLEAN
    BY Zenon DEF Stop
  <2>3. reported' \in LogIndex
    BY <1>1, MaxLogAssumption DEF LogIndex
  <2>. QED BY <1>1, <2>1, <2>2, <2>3, EmptyFacts DEF IInv, SnapshotTypeOK
<1>3. Modes' /\ Worker' /\ Progress'
  BY <1>1 DEF Modes, Worker, Progress, Built
<1>4. Quiet'
  BY <1>1, EmptyFacts, PayloadsFacts, MembershipFacts DEF IInv, Quiet, Files, Built
<1>5. Loose'
  BY <1>1, EmptyFacts DEF IInv, Loose, Files, Built
<1>6. Tidy' /\ Covered'
  BY <1>1 DEF IInv, Tidy, Covered, Covers, Built
<1>. QED BY <1>2, <1>3, <1>4, <1>5, <1>6 DEF IInv

\* The machine is replaced while the process is down.
LEMMA ReplaceStep == ASSUME IInv, Replace PROVE IInv'
<1>1. /\ UNCHANGED <<committed, reported, app, inner, applying, build, install, s3, up,
                     restarts, history>>
      /\ ~up /\ disk' = {} /\ purged' = 0
      /\ reported = 0 /\ build.pc = "none" /\ install.pc = "none"
  BY DEF IInv, Replace, Modes, Idle
<1>2. SnapshotTypeOK'
  <2>1. 0 \in LogIndex
    BY MaxLogAssumption DEF LogIndex
  <2>. QED BY <1>1, <2>1 DEF IInv, SnapshotTypeOK
<1>3. Modes' /\ Worker' /\ Progress'
  BY <1>1 DEF IInv, Modes, Worker, Progress
<1>4. Quiet' /\ Loose'
  BY <1>1 DEF IInv, Quiet, Loose, Files
<1>5. Tidy' /\ Covered'
  BY <1>1 DEF Tidy, Covered, Covers, Built
<1>. QED BY <1>2, <1>3, <1>4, <1>5 DEF IInv

\* A process that starts from the newest snapshot of a tier, in a directory
\* that holds no newer one.
LEMMA RestoreStep ==
  ASSUME IInv, ~up, NEW s \in disk \cup s3, Restore(s),
         UNCHANGED <<committed, purged, applying, build, install, s3, restarts>>,
         up' = TRUE, disk' \subseteq disk \cup s3,
         history' \subseteq Incidents,
         history \subseteq history', Unmixed => Unmixed',
         \A f \in disk' : f.index <= s.index,
         "failed" \notin history' => s \in disk' /\ disk \subseteq disk'
  PROVE  IInv'
<1>1. /\ s \in Snapshot /\ s.index \in LogIndex /\ s.index \in Nat /\ s.membership \in LogIndex
      /\ s.data \subseteq 1 .. MaxLog
      /\ \A f \in disk \cup s3 : f.index \in Nat
  <2>1. disk \cup s3 \subseteq Snapshot /\ SnapshotTypeOK
    BY DEF IInv, SnapshotTypeOK
  <2>2. s \in Snapshot /\ s.data \subseteq 1 .. MaxLog
    BY <2>1 DEF Snapshot
  <2>. QED BY <2>1, <2>2, Numbers
<1>2. /\ ~applying /\ build.pc = "none" /\ install.pc = "none" /\ build = Idle /\ install = Idle
  BY DEF IInv, Modes, Idle
<1>3. /\ app' = s.data /\ reported' = s.index
      /\ inner' = [last_applied |-> s.index, membership |-> s.membership, snapshot |-> s]
      /\ inner'.last_applied = s.index /\ inner'.membership = s.membership
      /\ inner'.snapshot = s
  BY DEF Restore
<1>4. SnapshotTypeOK'
  <2>1. up' \in BOOLEAN
    BY Zenon
  <2>2. disk' \subseteq Snapshot
    BY DEF IInv, SnapshotTypeOK
  <2>. QED BY <1>1, <1>3, <2>1, <2>2 DEF IInv, SnapshotTypeOK
<1>5. Modes' /\ Worker' /\ Progress'
  BY <1>1, <1>2, <1>3 DEF Modes, Worker, Progress, Built
<1>6. Quiet'
  <2>. SUFFICES ASSUME Unmixed' PROVE Quiet'
    BY DEF Quiet
  <2>1. Unmixed /\ \A f \in disk \cup s3 : Exact(f)
    BY DEF IInv, Quiet, Files
  <2>2. s.data = Payloads(s.index) /\ s.membership = MembershipAt(s.index)
    BY <1>1, <2>1, ExactSnapshot
  <2>. QED BY <1>2, <1>3, <2>1, <2>2 DEF Quiet, Files, Built
<1>7. Loose'
  <2>. SUFFICES ASSUME "crossed" \notin history' PROVE Loose'
    BY DEF Loose
  <2>1. \A f \in disk \cup s3 : f.data \subseteq Payloads(f.index + 1)
    BY DEF IInv, Loose, Files
  <2>. QED BY <1>2, <1>3, <2>1 DEF Loose, Files, Built
<1>8. Tidy'
  BY <1>2, <1>3 DEF Tidy, Built
<1>9. Covered'
  <2>. SUFFICES ASSUME history' \cap {"failed", "crossed"} = {} PROVE Covered'
    BY DEF Covered
  <2>1. s \in disk' /\ s.index >= reported' /\ disk \subseteq disk'
    BY <1>1, <1>3
  <2>2. Covers(purged)
    BY DEF IInv, Covered
  <2>. QED BY <1>2, <1>3, <2>1, <2>2 DEF Covered, Covers
<1>. QED BY <1>4, <1>5, <1>6, <1>7, <1>8, <1>9 DEF IInv

\* The process starts from its directory, from S3 or from nothing.
LEMMA LoadStep == ASSUME IInv, LoadLocal \/ LoadS3 \/ LoadNothing PROVE IInv'
<1>1. CASE LoadLocal
  <2>. DEFINE s == Newest(disk)
  <2>1. disk # {} /\ disk \subseteq Snapshot /\ history \subseteq Incidents
    BY <1>1 DEF IInv, SnapshotTypeOK, LoadLocal
  <2>2. s \in disk /\ \A f \in disk : f.index <= s.index
    BY <2>1, NewestFacts
  <2>3. /\ ~up /\ up' = TRUE /\ Restore(s)
        /\ UNCHANGED <<committed, purged, applying, build, install, disk, s3, restarts, history>>
    BY <1>1 DEF LoadLocal
  <2>. HIDE DEF s
  <2>. QED BY <2>1, <2>2, <2>3, RestoreStep
<1>2. CASE LoadS3
  <2>1. s3 # {} /\ s3 \subseteq Snapshot /\ history \subseteq Incidents
    BY <1>2 DEF IInv, SnapshotTypeOK, LoadS3
  <2>2. latest \in s3 /\ latest.index <= latest.index
    BY <2>1, NewestFacts DEF latest
  <2>3. /\ ~up /\ up' = TRUE /\ Restore(latest) /\ disk = {}
        /\ UNCHANGED <<committed, purged, applying, build, install, s3, restarts>>
        /\ \/ disk' = {latest} /\ history' = history
           \/ disk' = disk /\ history' = history \cup {"failed"}
    BY <1>2 DEF LoadS3
  <2>4. \A f \in disk' : f.index <= latest.index
    BY <2>2, <2>3
  <2>5. /\ history' \subseteq Incidents /\ history \subseteq history'
        /\ Unmixed => Unmixed'
    BY <2>1, <2>3 DEF Incidents
  <2>6. /\ disk' \subseteq disk \cup s3
        /\ "failed" \notin history' => latest \in disk' /\ disk \subseteq disk'
    BY <2>2, <2>3
  <2>. QED BY <2>2, <2>3, <2>4, <2>5, <2>6, RestoreStep
<1>3. CASE LoadNothing
  <2>1. /\ ~up /\ disk = {} /\ up' = TRUE
        /\ UNCHANGED <<committed, purged, reported, app, inner, applying, build, install,
                       disk, s3, restarts, history>>
        /\ build.pc = "none" /\ install.pc = "none" /\ ~applying
    BY <1>3 DEF IInv, Modes, LoadNothing, Idle
  <2>2. SnapshotTypeOK'
    <3>1. up' \in BOOLEAN
      BY <2>1, Zenon
    <3>. QED BY <2>1, <3>1 DEF IInv, SnapshotTypeOK
  <2>3. Modes' /\ Worker' /\ Progress'
    BY <2>1 DEF IInv, Modes, Worker, Progress
  <2>4. Quiet' /\ Loose'
    BY <2>1 DEF IInv, Quiet, Loose, Files
  <2>5. Tidy' /\ Covered'
    BY <2>1 DEF IInv, Tidy, Covered, Covers, Built
  <2>. QED BY <2>2, <2>3, <2>4, <2>5 DEF IInv
<1>. QED BY <1>1, <1>2, <1>3

-----------------------------------------------------------------------------
(* The theorems                                                            *)

\* The invariant holds in the initial state, ...
LEMMA InitIInv == ASSUME SnapshotInit PROVE IInv
<1>1. /\ committed = 0 /\ purged = 0 /\ reported = 0 /\ app = {}
      /\ inner = EmptyInner /\ ~applying /\ build = Idle /\ install = Idle
      /\ disk = {} /\ s3 = {} /\ up /\ history = {}
      /\ build.pc = "none" /\ install.pc = "none"
      /\ inner.last_applied = 0 /\ inner.membership = 0 /\ inner.snapshot = NoSnapshot
  BY DEF SnapshotInit, Idle, EmptyInner
<1>2. SnapshotTypeOK
  <2>1. 0 \in LogIndex /\ restarts \in 0 .. MaxRestarts
    BY MaxLogAssumption DEF SnapshotInit, LogIndex
  <2>2. applying \in BOOLEAN /\ up \in BOOLEAN
    BY Zenon DEF SnapshotInit
  <2>. QED BY <1>1, <2>1, <2>2, EmptyFacts DEF SnapshotTypeOK
<1>3. Modes /\ Worker /\ Progress
  BY <1>1 DEF Modes, Worker, Progress, Built
<1>4. Quiet
  BY <1>1, EmptyFacts, PayloadsFacts, MembershipFacts DEF Quiet, Files, Built
<1>5. Loose
  BY <1>1, EmptyFacts DEF Loose, Files, Built
<1>6. Tidy /\ Covered
  BY <1>1 DEF Tidy, Covered, Covers, Built
<1>. QED BY <1>2, <1>3, <1>4, <1>5, <1>6 DEF IInv

\* ... and every step preserves it.
LEMMA NextIInv == ASSUME IInv, [SnapshotNext]_snapshot_vars PROVE IInv'
<1>1. CASE UNCHANGED snapshot_vars
  <2>1. SnapshotTypeOK' /\ Modes' /\ Worker' /\ Progress'
    BY <1>1 DEF IInv, snapshot_vars, SnapshotTypeOK, Modes, Worker, Progress
  <2>2. Quiet' /\ Loose' /\ Tidy' /\ Covered'
    BY <1>1 DEF IInv, snapshot_vars, Quiet, Loose, Files, Tidy, Covered, Covers
  <2>. QED BY <2>1, <2>2 DEF IInv
<1>2. CASE Commit \/ Apply \/ ApplyDone
  BY <1>2, CommitStep, ApplyStep, ApplyDoneStep
<1>3. CASE BuildBegin \/ BuildMeta \/ BuildPersist \/ BuildRemove \/ BuildUpload
  BY <1>3, BuildBeginStep, BuildMetaStep, BuildPersistStep, BuildRemoveStep, BuildUploadStep
<1>4. CASE InstallRestore \/ InstallSet \/ InstallPersist \/ InstallRemove
  BY <1>4, InstallRestoreStep, InstallSetStep, InstallPersistStep, InstallRemoveStep
<1>5. CASE Purge \/ Stop \/ Replace
  BY <1>5, PurgeStep, StopStep, ReplaceStep
<1>6. CASE LoadLocal \/ LoadS3 \/ LoadNothing
  BY <1>6, LoadStep
<1>. QED BY <1>1, <1>2, <1>3, <1>4, <1>5, <1>6 DEF SnapshotNext

\* The invariant.
THEOREM Inductive == SnapshotSpec => []IInv
BY InitIInv, NextIInv, PTL DEF SnapshotSpec

\* Every variable of the snapshotting state machine keeps its type.
THEOREM TypeCorrect == SnapshotSpec => []SnapshotTypeOK
<1>1. IInv => SnapshotTypeOK
  BY DEF IInv
<1>. QED BY <1>1, Inductive, PTL

\* A restart is the latest snapshot and the tail of the log: until a builder
\* reads across a step of the worker, the application and the membership are
\* those of the log up to last_applied, after any restarts, installs, failed
\* writes and replaced machines.
THEOREM RestartsExact == SnapshotSpec => []QuietStateMatchesLog
<1>1. IInv => QuietStateMatchesLog
  BY DEF IInv, Quiet, QuietStateMatchesLog, StateMatchesLog
<1>. QED BY <1>1, Inductive, PTL

\* Snapshots in every tier are those of the log prefix they name, and what a
\* builder reads too much is at most one entry.
THEOREM TiersExact == SnapshotSpec => []SnapshotsExact
<1>1. IInv => SnapshotsExact
  BY DEF IInv, Quiet, Loose, Files, SnapshotsExact
<1>. QED BY <1>1, Inductive, PTL

\* The log is purged only below a snapshot that is on disk.
THEOREM PurgesCovered == SnapshotSpec => []PurgeCovered
<1>1. IInv => PurgeCovered
  BY DEF IInv, Covered, Covers, PurgeCovered
<1>. QED BY <1>1, Inductive, PTL

\* The local directory never goes back to an older snapshot.
THEOREM NewestNeverLost == SnapshotSpec => NewestKept
<1>1. ASSUME IInv, [SnapshotNext]_snapshot_vars
      PROVE  [\/ \A f \in disk : \E g \in disk' : g.index >= f.index
              \/ Replace
              \/ "crossed" \in history]_snapshot_vars
  <2>. SUFFICES ASSUME "crossed" \notin history, ~Replace, SnapshotNext
                PROVE  \A f \in disk : \E g \in disk' : g.index >= f.index
    BY <1>1
  <2>1. SnapshotTypeOK /\ \A f \in disk : f.index \in Nat
    BY <1>1, Numbers DEF IInv, SnapshotTypeOK
  <2>2. CASE UNCHANGED disk
    BY <2>1, <2>2
  <2>3. CASE BuildPersist \/ InstallPersist
    <3>1. build.snap \in Snapshot /\ install.snap \in Snapshot
      BY <2>1, Numbers
    <3>2. \/ disk' = disk \/ disk' = Renamed(build.snap) \/ disk' = Renamed(install.snap)
      BY <2>3 DEF BuildPersist, InstallPersist
    <3>3. \A f \in disk : \E g \in disk' : g.index = f.index
      BY <2>1, <3>1, <3>2, RenamedFacts
    <3>. QED BY <2>1, <3>3
  <2>4. CASE BuildRemove \/ InstallRemove
    <3>1. PICK s \in {build.snap, install.snap} :
            /\ s \in disk /\ \A f \in disk : f.index <= s.index
            /\ disk' = disk \/ \E f \in Others(s) : disk' = disk \ {f}
      BY <1>1, <2>4, RenamedIsNewest DEF BuildRemove, InstallRemove
    <3>2. s \in disk'
      BY <3>1 DEF Others
    <3>. QED BY <2>1, <3>1, <3>2
  <2>5. CASE LoadS3
    BY <2>5 DEF LoadS3
  <2>. QED
    BY <2>2, <2>3, <2>4, <2>5
    DEF SnapshotNext, Commit, Apply, ApplyDone, BuildBegin, BuildMeta, BuildUpload, InstallRestore,
        InstallSet, Purge, Stop, LoadLocal, LoadNothing
<1>. QED BY <1>1, Inductive, PTL DEF SnapshotSpec, NewestKept
=============================================================================

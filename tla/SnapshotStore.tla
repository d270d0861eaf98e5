--------------------------- MODULE SnapshotStore ---------------------------
(***************************************************************************)
(* The snapshotting state machine of crates/consensus/src/storage.rs with  *)
(* its local and S3 tiers (s3.rs), as the raft core (external: openraft)   *)
(* drives it on one node.                                                  *)
(*                                                                         *)
(* The core's worker applies entries and installs snapshots one after the  *)
(* other; a snapshot builder is a clone of the store that runs in a task   *)
(* of its own, so its steps interleave with the worker's.  Once a build or *)
(* an install has returned, the core may purge the log below it.           *)
(*                                                                         *)
(* A log entry is its index.  Entries in Memberships change the raft       *)
(* membership, the others are payloads for the application, whose state is *)
(* the set of payloads it contains.  A snapshot is what SnapshotFile       *)
(* stores.  A restart is that of the process: a completed rename survives. *)
(***************************************************************************)
EXTENDS Integers, FiniteSets

CONSTANTS
  MaxLog,         \* bound: entries ever committed
  Memberships,    \* the entries that are membership changes
  MaxRestarts     \* bound: restarts of the process

ASSUME MaxLogAssumption == MaxLog \in Nat /\ MaxRestarts \in Nat
ASSUME MembershipsAssumption == Memberships \subseteq 1 .. MaxLog

VARIABLES
  committed,  \* last committed entry of the group
  purged,     \* last entry purged from this node's log
  reported,   \* last entry covered by a snapshot that the core was told of
  app,        \* payloads in the application's state
  inner,      \* SmInner: [last_applied, membership, snapshot]
  applying,   \* the application has the entry after last_applied
  build,      \* the builder task: [pc, snap]
  install,    \* the worker's install_snapshot call: [pc, snap]
  disk,       \* snapshot files of the local directory
  s3,         \* snapshot objects of the S3 tier
  up,         \* the process runs
  restarts,   \* restarts so far
  history     \* which of Incidents have happened

snapshot_vars ==
  <<committed, purged, reported, app, inner, applying, build, install, disk, s3, up,
    restarts, history>>

\* "mixed": a builder read the state while the worker was changing it;
\* "torn": the builder of a snapshot that was installed had done so;
\* "crossed": a build and an install were under way at the same time;
\* "failed": a snapshot could not be written.
Incidents == {"mixed", "torn", "crossed", "failed"}

\* Every snapshot was read between two steps of a worker.
Unmixed == "mixed" \notin history /\ "torn" \notin history

LogIndex == 0 .. MaxLog
Snapshot == [index : LogIndex, membership : LogIndex, data : SUBSET (1 .. MaxLog)]
NoSnapshot == [index |-> 0, membership |-> 0, data |-> {}]

Payloads(i) == (1 .. i) \ Memberships
MembershipAt(i) ==
  IF Memberships \cap (1 .. i) = {} THEN 0
  ELSE CHOOSE m \in Memberships \cap (1 .. i) :
         \A k \in Memberships \cap (1 .. i) : k <= m

\* The snapshot of a state machine that is at entry i.
ExactAt(i) == [index |-> i, membership |-> MembershipAt(i), data |-> Payloads(i)]
Exact(s) == s = ExactAt(s.index)

Newest(S) == CHOOSE s \in S : \A t \in S : t.index <= s.index

SnapshotTypeOK ==
  /\ committed \in LogIndex /\ purged \in LogIndex /\ reported \in LogIndex
  /\ app \subseteq 1 .. MaxLog
  /\ inner \in [last_applied : LogIndex, membership : LogIndex, snapshot : Snapshot]
  /\ applying \in BOOLEAN
  /\ build \in [pc : {"none", "read", "meta", "renamed", "persisted"}, snap : Snapshot]
  /\ install \in [pc : {"none", "restored", "set", "renamed"}, snap : Snapshot]
  /\ disk \subseteq Snapshot
  /\ s3 \subseteq Snapshot
  /\ up \in BOOLEAN
  /\ restarts \in 0 .. MaxRestarts
  /\ history \subseteq Incidents

Idle == [pc |-> "none", snap |-> NoSnapshot]
EmptyInner == [last_applied |-> 0, membership |-> 0, snapshot |-> NoSnapshot]

SnapshotInit ==
  /\ committed = 0 /\ purged = 0 /\ reported = 0
  /\ app = {}
  /\ inner = EmptyInner
  /\ applying = FALSE
  /\ build = Idle
  /\ install = Idle
  /\ disk = {}
  /\ s3 = {}
  /\ up = TRUE
  /\ restarts = 0
  /\ history = {}

\* The incident what happens in this step if cond holds.
Note(what, cond) == IF cond THEN {what} ELSE {}

-----------------------------------------------------------------------------
(* The worker: apply                                                       *)

Commit ==
  /\ committed < MaxLog
  /\ committed' = committed + 1
  /\ UNCHANGED <<purged, reported, app, inner, applying, build, install, disk, s3,
                 up, restarts, history>>

WorkerFree == up /\ install.pc = "none"

\* The entry is in this node's log and goes to the application or to the
\* membership, ...
Apply ==
  LET i == inner.last_applied + 1
  IN /\ WorkerFree
     /\ ~applying
     /\ i <= committed /\ i > purged
     /\ IF i \in Memberships
        THEN inner' = [inner EXCEPT !.membership = i] /\ app' = app
        ELSE inner' = inner /\ app' = app \cup {i}
     /\ applying' = TRUE
     /\ history' = history \cup Note("mixed", build.pc = "read")
     /\ UNCHANGED <<committed, purged, reported, build, install, disk, s3, up, restarts>>

\* ... and under a second lock last_applied moves to it.
ApplyDone ==
  /\ WorkerFree
  /\ applying
  /\ inner' = [inner EXCEPT !.last_applied = @ + 1]
  /\ applying' = FALSE
  /\ UNCHANGED <<committed, purged, reported, app, build, install, disk, s3, up, restarts, history>>

-----------------------------------------------------------------------------
(* persist: write, sync and rename a temporary file, then remove every     *)
(* other snapshot file                                                     *)

Renamed(s) == {f \in disk : f.index # s.index} \cup {s}

Others(s) == {f \in disk : f.index # s.index}

-----------------------------------------------------------------------------
(* The builder: build_snapshot                                             *)

BuildBegin ==
  /\ up
  /\ build.pc = "none"
  /\ inner.last_applied > reported
  /\ build' = [pc |-> "read", snap |-> [NoSnapshot EXCEPT !.data = app]]
  /\ history' = history \cup Note("mixed", applying \/ install.pc = "restored")
                       \cup Note("crossed", install.pc # "none")
  /\ UNCHANGED <<committed, purged, reported, app, inner, applying, install, disk, s3,
                 up, restarts>>

\* Mutant: the membership is not recorded.
BuildMeta_NoMembership ==
  LET s == [build.snap EXCEPT !.index = inner.last_applied]
  IN /\ up
     /\ build.pc = "read"
     /\ inner' = [inner EXCEPT !.snapshot = s]
     /\ build' = [pc |-> "meta", snap |-> s]
     /\ UNCHANGED <<committed, purged, reported, app, applying, install, disk, s3,
                    up, restarts, history>>

\* Mutant: the core is told before the snapshot is on disk.
BuildMeta_ReportsEarly ==
  LET s == [build.snap EXCEPT !.index = inner.last_applied,
                              !.membership = inner.membership]
  IN /\ up
     /\ build.pc = "read"
     /\ inner' = [inner EXCEPT !.snapshot = s]
     /\ build' = [pc |-> "meta", snap |-> s]
     /\ reported' = s.index
     /\ UNCHANGED <<committed, purged, app, applying, install, disk, s3, up, restarts, history>>

BuildMeta ==
  LET s == [build.snap EXCEPT !.index = inner.last_applied,
                              !.membership = inner.membership]
  IN /\ up
     /\ build.pc = "read"
     /\ inner' = [inner EXCEPT !.snapshot = s]
     /\ build' = [pc |-> "meta", snap |-> s]
     /\ UNCHANGED <<committed, purged, reported, app, applying, install, disk, s3,
                    up, restarts, history>>

\* Mutant: old snapshots are removed before the rename.
BuildPersist_RemovesFirst ==
  /\ up
  /\ build.pc = "meta"
  /\ IF disk # {} THEN disk' = {} /\ build' = build
     ELSE disk' = {build.snap} /\ build' = [build EXCEPT !.pc = "renamed"]
  /\ UNCHANGED <<committed, purged, reported, app, inner, applying, install, s3,
                 up, restarts, history>>

BuildPersist ==
  /\ up
  /\ build.pc = "meta"
  /\ \/ /\ disk' = Renamed(build.snap)
        /\ build' = [build EXCEPT !.pc = "renamed"]
        /\ history' = history
     \/ /\ disk' = disk
        /\ history' = history \cup {"failed"}
        /\ build' = [build EXCEPT !.pc = "persisted"]
  /\ UNCHANGED <<committed, purged, reported, app, inner, applying, install, s3,
                 up, restarts>>

BuildRemove ==
  /\ up
  /\ build.pc = "renamed"
  /\ \/ /\ \E f \in Others(build.snap) : disk' = disk \ {f}
        /\ build' = build
     \/ /\ Others(build.snap) = {}
        /\ build' = [build EXCEPT !.pc = "persisted"]
        /\ disk' = disk
  /\ UNCHANGED <<committed, purged, reported, app, inner, applying, install, s3,
                 up, restarts, history>>

\* SnapshotS3::upload puts one object, named by its index.
Uploaded(s) == {o \in s3 : o.index # s.index} \cup {s}

\* The upload is best effort; then the core learns of the snapshot.
BuildUpload ==
  /\ up
  /\ build.pc = "persisted"
  /\ s3' \in {s3, Uploaded(build.snap)}
  /\ reported' = IF build.snap.index > reported THEN build.snap.index ELSE reported
  /\ build' = Idle
  /\ UNCHANGED <<committed, purged, app, inner, applying, install, disk, up, restarts, history>>

-----------------------------------------------------------------------------
(* The worker: install_snapshot, of a snapshot another member built        *)

\* A builder over there that records i may have read an application that was
\* elsewhere, by one entry ahead or by any number of them behind.
Received(i) == {[ExactAt(i) EXCEPT !.data = Payloads(j)] : j \in {n \in LogIndex : n <= i + 1}}

InstallRestore ==
  /\ WorkerFree
  /\ ~applying
  /\ \E i \in inner.last_applied + 1 .. committed :
       \E s \in Received(i) :
         /\ install' = [pc |-> "restored", snap |-> s]
         /\ app' = s.data
         /\ history' = history \cup Note("mixed", build.pc = "read")
                              \cup Note("torn", ~Exact(s))
                              \cup Note("crossed", build.pc # "none")
  /\ UNCHANGED <<committed, purged, reported, inner, applying, build, disk, s3, up, restarts>>

\* Mutant: an install keeps the old membership.
InstallSet_OldMembership ==
  /\ up
  /\ install.pc = "restored"
  /\ inner' = [inner EXCEPT !.last_applied = install.snap.index, !.snapshot = install.snap]
  /\ install' = [install EXCEPT !.pc = "set"]
  /\ UNCHANGED <<committed, purged, reported, app, applying, build, disk, s3, up, restarts, history>>

InstallSet ==
  /\ up
  /\ install.pc = "restored"
  /\ inner' = [last_applied |-> install.snap.index,
               membership |-> install.snap.membership,
               snapshot |-> install.snap]
  /\ install' = [install EXCEPT !.pc = "set"]
  /\ UNCHANGED <<committed, purged, reported, app, applying, build, disk, s3, up, restarts, history>>

InstallDone ==
  /\ install' = Idle
  /\ reported' = IF install.snap.index > reported THEN install.snap.index ELSE reported

InstallPersist ==
  /\ up
  /\ install.pc = "set"
  /\ \/ /\ disk' = Renamed(install.snap)
        /\ install' = [install EXCEPT !.pc = "renamed"]
        /\ UNCHANGED <<reported, history>>
     \/ disk' = disk /\ history' = history \cup {"failed"} /\ InstallDone
  /\ UNCHANGED <<committed, purged, app, inner, applying, build, s3, up, restarts>>

InstallRemove ==
  /\ up
  /\ install.pc = "renamed"
  /\ \/ /\ \E f \in Others(install.snap) : disk' = disk \ {f}
        /\ UNCHANGED <<install, reported>>
     \/ Others(install.snap) = {} /\ disk' = disk /\ InstallDone
  /\ UNCHANGED <<committed, purged, app, inner, applying, build, s3, up, restarts, history>>

-----------------------------------------------------------------------------
(* The log, and restarts                                                   *)

Purge ==
  /\ up
  /\ \E i \in purged + 1 .. reported : purged' = i
  /\ UNCHANGED <<committed, reported, app, inner, applying, build, install, disk, s3,
                 up, restarts, history>>

Stop ==
  /\ up
  /\ restarts < MaxRestarts
  /\ up' = FALSE
  /\ restarts' = restarts + 1
  /\ reported' = 0
  /\ app' = {}
  /\ inner' = EmptyInner
  /\ applying' = FALSE
  /\ build' = Idle
  /\ install' = Idle
  /\ UNCHANGED <<committed, purged, disk, s3, history>>

\* The machine is replaced: the directory is empty and so is the log, which
\* the other members send again.
Replace ==
  /\ ~up
  /\ disk # {} \/ purged > 0
  /\ disk' = {}
  /\ purged' = 0
  /\ UNCHANGED <<committed, reported, app, inner, applying, build, install, s3, up, restarts, history>>

Restore(s) ==
  /\ app' = s.data
  /\ inner' = [last_applied |-> s.index, membership |-> s.membership, snapshot |-> s]
  /\ reported' = s.index

\* with_snapshot_dir: the newest local file.
LoadLocal ==
  /\ ~up
  /\ disk # {}
  /\ Restore(Newest(disk))
  /\ up' = TRUE
  /\ UNCHANGED <<committed, purged, applying, build, install, disk, s3, restarts, history>>

\* SnapshotS3::latest: names are zero-padded, so the greatest name is the newest.
latest == Newest(s3)

\* open_durable: the newest object, if S3 answers, which is kept locally too.
LoadS3 ==
  /\ ~up
  /\ disk = {}
  /\ s3 # {}
  /\ Restore(latest)
  /\ \/ disk' = {latest} /\ history' = history
     \/ disk' = disk /\ history' = history \cup {"failed"}
  /\ up' = TRUE
  /\ UNCHANGED <<committed, purged, applying, build, install, s3, restarts>>

LoadNothing ==
  /\ ~up
  /\ disk = {}
  /\ up' = TRUE
  /\ UNCHANGED <<committed, purged, reported, app, inner, applying, build, install,
                 disk, s3, restarts, history>>

-----------------------------------------------------------------------------
SnapshotNext ==
  \/ Commit \/ Apply \/ ApplyDone
  \/ BuildBegin \/ BuildMeta \/ BuildPersist \/ BuildRemove \/ BuildUpload
  \/ InstallRestore \/ InstallSet \/ InstallPersist \/ InstallRemove
  \/ Purge \/ Stop \/ Replace
  \/ LoadLocal \/ LoadS3 \/ LoadNothing

SnapshotSpec == SnapshotInit /\ [][SnapshotNext]_snapshot_vars

-----------------------------------------------------------------------------
(* What the snapshot tiers promise                                         *)

\* Restart = latest snapshot + WAL tail replay: whenever the worker is
\* between two entries, also after any number of restarts, the application
\* and the membership are those of the log up to last_applied.
StateMatchesLog ==
  up /\ ~applying /\ install.pc = "none" =>
    /\ app = Payloads(inner.last_applied)
    /\ inner.membership = MembershipAt(inner.last_applied)

\* In particular the application lacks no entry that last_applied claims, in a
\* member that was not sent a torn snapshot.  The code does not keep this: a
\* snapshot whose application was read before an entry and whose last_applied
\* was read after it is missing the entry, and so is the state after a restart.
NothingLost ==
  up /\ ~applying /\ install.pc = "none" /\ "torn" \notin history
    => Payloads(inner.last_applied) \subseteq app

\* It holds until a builder reads the application and last_applied, which
\* build_snapshot does under two locks, on two sides of a worker's step:
\* failed writes, installs, restarts and replaced machines do not break it.
QuietStateMatchesLog == Unmixed => StateMatchesLog

\* The snapshots kept in any tier are those of the log prefix they name,
\* under the same condition.  A builder that reads across a step of apply
\* takes at most one entry more than the index it records, so a restart
\* repeats at most that entry.
SnapshotsExact ==
  \A s \in disk \cup s3 \cup {inner.snapshot} :
    /\ Unmixed => Exact(s)
    /\ "crossed" \notin history => s.data \subseteq Payloads(s.index + 1)

\* What was purged from the log is covered by a local snapshot, so a restart
\* finds no gap between its snapshot and its log, unless a write failed (the
\* core is told of the snapshot anyway) or an install crossed a build.
PurgeCovered ==
  purged > 0 /\ history \cap {"failed", "crossed"} = {} =>
    \E f \in disk : f.index >= purged

\* The local directory never goes back to an older snapshot ("older
\* snapshots are superseded; keep only the newest on disk"), unless an
\* install crossed a build: each removes the file of the other.
NewestKept ==
  [][\/ \A f \in disk : \E g \in disk' : g.index >= f.index
     \/ Replace
     \/ "crossed" \in history]_snapshot_vars

=============================================================================

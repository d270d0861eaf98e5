-------------------------------- MODULE Wal --------------------------------
(***************************************************************************)
(* The write-ahead log of crates/consensus/src/wal.rs: segments of framed  *)
(* records, markers instead of in-place mutation, checkpoints at segment   *)
(* heads, garbage collection of closed segments at purge, and recovery.    *)
(*                                                                         *)
(* A record is an element of `recs` with the segment it is in and a global *)
(* position `pos`; the record stream is recs ordered by pos.  Record sizes *)
(* vary, so a segment is full after some number of records between SegMin  *)
(* and SegMax.  A LogId is its index; 0 is None.  The frame's CRC makes a   *)
(* torn record unreadable, so a power loss leaves a prefix of what was     *)
(* written since the last fsync.                                           *)
(*                                                                         *)
(* The store is called by one raft core (external: openraft), which        *)
(* appends behind its last entry, truncates above its committed index and  *)
(* purges what a snapshot covers.  All calls hold the store's mutex, so    *)
(* the intermediate states of a call are seen by a crash only.             *)
(***************************************************************************)
EXTENDS Integers, FiniteSets

CONSTANTS
  MaxIndex,    \* largest log index
  MaxTerm,     \* terms of entries are 1..MaxTerm
  MaxBatch,    \* largest number of entries in one append
  SegMin,      \* a segment reaches SEGMENT_MAX_BYTES after SegMin records
  SegMax,      \*   at the earliest and SegMax records at the latest
  MaxPos       \* bound: records ever written

ASSUME MaxIndexAssumption == MaxIndex \in Nat \ {0}
ASSUME MaxTermAssumption == MaxTerm \in Nat \ {0}
ASSUME MaxBatchAssumption == MaxBatch \in Nat \ {0}
ASSUME SegAssumption == SegMin \in Nat /\ SegMax \in Nat /\ 2 <= SegMin
ASSUME MaxPosAssumption == MaxPos \in Nat

Index == 1 .. MaxIndex
Term == 1 .. MaxTerm
Pointer == 0 .. MaxIndex

VARIABLES
  recs,      \* every readable record in the segment files
  files,     \* numbers of the segment files that exist
  pos,       \* position of the last record written
  synced,    \* everything up to this position is on stable storage
  mem,       \* WalState: [entries, last_purged, committed]
  pc,        \* progress of the current call
  op,        \* the record of the current call, or the next one of a batch
  last,      \* last index of the current append_entries batch
  promised   \* history: entries that callers rely on, 0 where none

vars == <<recs, files, pos, synced, mem, pc, op, last, promised>>

Calls ==
  [kind : {"Entry"}, index : Index, term : Term]
    \cup [kind : {"TruncateFrom", "Purge", "Committed"}, index : Index]

WalRecord ==
  Calls \cup [kind : {"Checkpoint"}, last_purged : Pointer, committed : Pointer]

\* A frame in a segment file.
Frame == [pos : Nat, seg : Nat, rec : WalRecord]

NoCall == [kind |-> "None"]

\* 0 where a log has no entry.
Log == [Index -> 0 .. MaxTerm]
NoEntries == [i \in Index |-> 0]
EmptyState == [entries |-> NoEntries, last_purged |-> 0, committed |-> 0]

TypeOK ==
  /\ recs \subseteq Frame
  /\ files \subseteq Nat
  /\ pos \in Nat
  /\ synced \in Nat
  /\ mem \in [entries : Log, last_purged : Pointer, committed : Pointer]
  /\ pc \in {"idle", "written", "rotating", "rotated", "batch", "folded", "gc",
             "down"}
  /\ op \in Calls \cup {NoCall}
  /\ last \in Index
  /\ promised \in Log

-----------------------------------------------------------------------------
(* WalState::apply                                                         *)

apply(state, r) ==
  CASE r.kind = "Entry" ->
         [state EXCEPT !.entries[r.index] = r.term]
    [] r.kind = "TruncateFrom" ->
         [state EXCEPT !.entries = [i \in Index |-> IF i >= r.index THEN 0 ELSE @[i]]]
    [] r.kind = "Purge" ->
         [state EXCEPT !.last_purged = r.index,
                       !.entries = [i \in Index |-> IF i <= r.index THEN 0 ELSE @[i]]]
    [] r.kind = "Committed" ->
         [state EXCEPT !.committed = r.index]

(***************************************************************************)
(* The fold of `apply` over a record stream, without the fold.  An entry   *)
(* is in the result if no later record replaces or voids it.  A pointer is *)
(* the one of the last record that sets it; a checkpoint sets a pointer    *)
(* only if nothing before it did.                                          *)
(***************************************************************************)

Voids(r, i) ==
  \/ r.kind = "Entry" /\ r.index = i
  \/ r.kind = "TruncateFrom" /\ r.index <= i
  \/ r.kind = "Purge" /\ r.index >= i

Holds(S, i, t) ==
  \E r \in S :
    /\ r.rec = [kind |-> "Entry", index |-> i, term |-> t]
    /\ \A q \in S : q.pos > r.pos => ~Voids(q.rec, i)

First(S) == CHOOSE r \in S : \A q \in S : r.pos <= q.pos
Latest(S) == CHOOSE r \in S : \A q \in S : q.pos <= r.pos

ReplayedPurge(S) ==
  LET set == {r \in S : r.rec.kind = "Purge"}
      heads == {r \in S : r.rec.kind = "Checkpoint" /\ r.rec.last_purged # 0}
  IN IF set # {} THEN Latest(set).rec.index
     ELSE IF heads # {} THEN First(heads).rec.last_purged ELSE 0

ReplayedCommit(S) ==
  LET set == {r \in S : r.rec.kind = "Committed"}
      heads == {r \in S : r.rec.kind = "Checkpoint" /\ r.rec.committed # 0}
  IN IF set # {} THEN Latest(set).rec.index
     ELSE IF heads # {} THEN First(heads).rec.committed ELSE 0

ReplayedEntries(S) ==
  [i \in Index |-> IF \E t \in Term : Holds(S, i, t)
                   THEN CHOOSE t \in Term : Holds(S, i, t) ELSE 0]

Replay(S) == [entries |-> ReplayedEntries(S),
              last_purged |-> ReplayedPurge(S),
              committed |-> ReplayedCommit(S)]

-----------------------------------------------------------------------------
\* The highest segment is the one appended to.
Active == CHOOSE s \in files : \A t \in files : t <= s

Filled == Cardinality({r \in recs : r.seg = Active})

\* get_log_state
LastLogIndex ==
  LET present == {i \in Index : mem.entries[i] # 0}
  IN IF present = {} THEN mem.last_purged
     ELSE CHOOSE i \in present : \A j \in present : j <= i

Write(r) ==
  /\ pos < MaxPos
  /\ pos' = pos + 1
  /\ recs' = recs \cup {[pos |-> pos + 1, seg |-> Active, rec |-> r]}

\* The entries a caller gives up when it makes a call with last index hi.
GivenUp(r, hi) ==
  {i \in Index : Voids(r, i) \/ (r.kind = "Entry" /\ i \in r.index .. hi)}

Init ==
  /\ recs = {}
  /\ files = {0}
  /\ pos = 0
  /\ synced = 0
  /\ mem = EmptyState
  /\ pc = "idle"
  /\ op = NoCall
  /\ last = 1
  /\ promised = NoEntries

\* A call starts by writing its (first) record to the active segment.
Begin(r, hi) ==
  /\ pc = "idle"
  /\ Write(r)
  /\ pc' = "written"
  /\ op' = r
  /\ last' = hi
  /\ promised' = [i \in Index |-> IF i \in GivenUp(r, hi) THEN 0 ELSE promised[i]]
  /\ UNCHANGED <<files, synced, mem>>

append_entries(n, t) ==
  LET lo == LastLogIndex + 1
  IN /\ lo + n - 1 <= MaxIndex
     /\ \A i \in Index : mem.entries[i] <= t
     /\ Begin([kind |-> "Entry", index |-> lo, term |-> t], lo + n - 1)

truncate_from(i) ==
  /\ i > mem.committed /\ i > mem.last_purged /\ i <= LastLogIndex
  /\ Begin([kind |-> "TruncateFrom", index |-> i], i)

\* An installed snapshot may cover more than the log holds.
purge(i) ==
  /\ i > mem.last_purged
  /\ i <= mem.committed \/ i > LastLogIndex
  /\ Begin([kind |-> "Purge", index |-> i], i)

save_committed(i) ==
  /\ i > mem.committed /\ i <= LastLogIndex
  /\ Begin([kind |-> "Committed", index |-> i], i)

\* rotate: fsync the full segment, open the next one, ...  The directory is not
\* synced: that the new file is there after a power loss, once its content is
\* synced, is taken from the file system (ext4 and xfs do so).
Rotate ==
  /\ pc = "written"
  /\ Filled >= SegMin
  /\ synced' = pos
  /\ files' = files \cup {Active + 1}
  /\ pc' = "rotating"
  /\ UNCHANGED <<recs, pos, mem, op, last, promised>>

\* ... and head it with a checkpoint of the state before the current record.
RotateCheckpoint ==
  /\ pc = "rotating"
  /\ Write([kind |-> "Checkpoint", last_purged |-> mem.last_purged,
            committed |-> mem.committed])
  /\ pc' = "rotated"
  /\ UNCHANGED <<files, synced, mem, op, last, promised>>

Fold ==
  /\ pc = "rotated" \/ (pc = "written" /\ Filled < SegMax)
  /\ mem' = apply(mem, op)
  /\ pc' = IF op.kind = "Entry" /\ op.index < last THEN "batch" ELSE "folded"
  /\ UNCHANGED <<recs, files, pos, synced, op, last, promised>>

NextOfBatch ==
  /\ pc = "batch"
  /\ op' = [op EXCEPT !.index = @ + 1]
  /\ Write(op')
  /\ pc' = "written"
  /\ UNCHANGED <<files, synced, mem, last, promised>>

\* The fsync that ends a call; an append is acknowledged after it, and from
\* then on the entries it wrote are relied on.
Sync ==
  /\ pc = "folded"
  /\ synced' = pos
  /\ pc' = IF op.kind = "Purge" THEN "gc" ELSE "idle"
  /\ promised' = IF op.kind = "Entry" THEN mem.entries ELSE promised
  /\ op' = IF op.kind = "Purge" THEN op ELSE NoCall
  /\ last' = 1
  /\ UNCHANGED <<recs, files, pos, mem>>

\* Mutant: every closed segment is garbage.
Removable_AnyClosed(s) == s # Active

\* max_index of a segment is at or below the purge point, or there is none.
Removable(s) ==
  /\ s # Active
  /\ \A r \in recs : r.seg = s /\ r.rec.kind = "Entry" => r.rec.index <= op.index

Unlink ==
  /\ pc = "gc"
  /\ \E s \in files :
       /\ Removable(s)
       /\ \A t \in files : Removable(t) => s <= t
       /\ files' = files \ {s}
       /\ recs' = {r \in recs : r.seg # s}
  /\ UNCHANGED <<pos, synced, mem, pc, op, last, promised>>

PurgeDone ==
  /\ pc = "gc"
  /\ \A s \in files : ~Removable(s)
  /\ pc' = "idle"
  /\ op' = NoCall
  /\ UNCHANGED <<recs, files, pos, synced, mem, last, promised>>

-----------------------------------------------------------------------------
\* What a power loss can leave of the records, and recovery from it.
Remains(k) == {r \in recs : r.pos <= k}

Crash ==
  /\ pc # "down"
  /\ \E k \in synced .. pos : recs' = Remains(k)
  /\ mem' = EmptyState
  /\ pc' = "down"
  /\ op' = NoCall
  /\ last' = 1
  /\ UNCHANGED <<files, pos, synced, promised>>

\* Mutant: recovery reads the active segment only.
open_ActiveOnly ==
  /\ pc = "down"
  /\ mem' = Replay({r \in recs : r.seg = Active})
  /\ pc' = "idle"
  /\ UNCHANGED <<recs, files, pos, synced, op, last, promised>>

open ==
  /\ pc = "down"
  /\ mem' = Replay(recs)
  /\ pc' = "idle"
  /\ UNCHANGED <<recs, files, pos, synced, op, last, promised>>

-----------------------------------------------------------------------------
Next ==
  \/ \E n \in 1 .. MaxBatch, t \in Term : append_entries(n, t)
  \/ \E i \in Index : truncate_from(i) \/ purge(i) \/ save_committed(i)
  \/ Rotate
  \/ RotateCheckpoint
  \/ Fold
  \/ NextOfBatch
  \/ Sync
  \/ Unlink
  \/ PurgeDone
  \/ Crash
  \/ open

Spec == Init /\ [][Next]_vars

-----------------------------------------------------------------------------
(* What the log promises                                                   *)

\* RAM has every entry that callers rely on.
RamHasPromised ==
  pc # "down" => \A i \in Index : promised[i] # 0 => mem.entries[i] = promised[i]

\* No acknowledged entry is lost: at whatever point of whatever call the
\* power fails, and however much of the unsynced tail survives, replay finds
\* every entry that an append acknowledged and nobody truncated or purged
\* since.  Rotation, checkpoints and the garbage collection of segments
\* never take it away ("append fsyncs before the raft flush callback"), and
\* the read path agrees, also after a crash and `open`.
NoLoss ==
  /\ \A i \in Index : promised[i] # 0 =>
       \A k \in synced .. pos : Holds(Remains(k), i, promised[i])
  /\ RamHasPromised

\* No garbage collection has left a gap in the segments, or none has
\* happened at all.
Contiguous == \A s, t \in files : \A u \in s .. t : u \in files
Whole == \A u \in 0 .. Active : u \in files

\* Between calls the files replay to what is in RAM ("disk is the truth"):
\* - to its entries, so that what was truncated or purged stays so, as long as
\*   the segments are contiguous.  `purge` unlinks middle segments too; the
\*   TruncateFrom marker in one of them may be all that voids an entry of an
\*   earlier segment;
\* - to its purge and commit points, until the first segment is unlinked.
\*   After that the checkpoints alone carry them: the one that is written
\*   while a Purge record is appended has the previous purge point, and a
\*   crash between the creation of a segment and its checkpoint leaves a
\*   segment that restates nothing.
ReplayExact ==
  pc = "idle" =>
    /\ Contiguous => ReplayedEntries(recs) = mem.entries
    /\ Whole => /\ ReplayedPurge(recs) = mem.last_purged
                /\ ReplayedCommit(recs) = mem.committed

=============================================================================

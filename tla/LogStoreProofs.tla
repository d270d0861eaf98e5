--------------------------- MODULE LogStoreProofs ---------------------------
(***************************************************************************)
(* The log store of a raft member: its write-ahead log, its vote file, and *)
(* both together.                                                          *)
(*                                                                         *)
(* The write-ahead log loses no acknowledged entry, for every batch size,  *)
(* every segment size and every sequence of calls, rotations, segment      *)
(* removals, power losses and recoveries.                                  *)
(*                                                                         *)
(* NoLoss is not inductive: the acknowledgement of an append promises what *)
(* RAM holds, so RAM has to be tied to the records on disk (RamOnDisk) at  *)
(* every step of a call, and garbage collection may only remove what the   *)
(* purge has already removed from RAM (PurgeFolded).                       *)
(*                                                                         *)
(* ReplayExact needs the other direction, that replay finds nothing that   *)
(* RAM does not have.  The removal of a segment may take what voids an     *)
(* entry of an earlier one, so FoundInRam says of every such entry that a  *)
(* segment is missing behind it; numbers are not used again, so the gap    *)
(* stays until the entry's own segment goes.                               *)
(***************************************************************************)
EXTENDS LogStore, WellFoundedInduction, TLAPS

\* The steps of a call between the write of its record and its fold.
Written == {"written", "rotating", "rotated"}

EntryRec(i, t) == [kind |-> "Entry", index |-> i, term |-> t]

\* Positions are unique and increase; the synced part is a prefix.
Positions ==
  /\ synced <= pos
  /\ \A r \in recs : r.pos <= pos
  /\ \A q, r \in recs : q.pos = r.pos => q = r

\* There is a highest segment, so Active is a segment.
ActiveExists == \E m \in files : \A s \in files : s <= m

\* The record of a promised entry is in the synced prefix and stays valid.
Durable ==
  \A i \in Index : promised[i] # 0 =>
    \E r \in recs : /\ r.rec = EntryRec(i, promised[i])
                    /\ r.pos <= synced
                    /\ \A q \in recs : q.pos > r.pos => ~Voids(q.rec, i)

\* The current call gave up every promise that it is about to void.
OpSpares ==
  /\ (pc = "idle" \/ pc = "down") <=> op = NoCall
  /\ op # NoCall => \A i \in Index : promised[i] # 0 =>
       /\ ~Voids(op, i)
       /\ op.kind = "Entry" => ~(op.index <= i /\ i <= last)

\* The record of the current call is on disk; only a checkpoint follows it.
OpOnDisk ==
  pc \in Written =>
    \E r \in recs : /\ r.rec = op
                    /\ \A q \in recs : q.pos > r.pos => q.rec.kind = "Checkpoint"

\* The files hold every entry of RAM that the current call does not void.
RamOnDisk ==
  pc # "down" => \A i \in Index : mem.entries[i] # 0 =>
    Holds(recs, i, mem.entries[i]) \/ (pc \in Written /\ Voids(op, i))

\* Segments are removed only after RAM has forgotten what was purged.
PurgeFolded ==
  /\ pc = "gc" => op.kind = "Purge"
  /\ pc \in {"folded", "gc"} /\ op.kind = "Purge" =>
       \A i \in Index : i <= op.index => mem.entries[i] = 0

\* A batch goes on only below its last entry.
BatchBelowLast == pc = "batch" => op.kind = "Entry" /\ op.index < last

IInv ==
  /\ TypeOK
  /\ Positions
  /\ ActiveExists
  /\ Durable
  /\ OpSpares
  /\ OpOnDisk
  /\ RamOnDisk
  /\ PurgeFolded
  /\ BatchBelowLast
  /\ RamHasPromised

-----------------------------------------------------------------------------
(* What is needed besides for the other direction: what replay finds is in *)
(* RAM.                                                                    *)

\* Records are in existing segments, whose order is that of the records.
SegmentOrder ==
  /\ \A r \in recs : r.seg \in files
  /\ \A q, r \in recs : q.pos < r.pos => q.seg <= r.seg

\* No later record voids index i.
Standing(r, i) == \A q \in recs : q.pos > r.pos => ~Voids(q.rec, i)

\* A segment behind record r has been unlinked.
GapBehind(r) == \E u \in r.seg .. Active : u \notin files

\* An entry that replay finds is in RAM, is being written, or has lost what
\* voided it with a segment that is missing behind it.
FoundInRam ==
  pc # "down" =>
    \A r \in recs : r.rec.kind = "Entry" /\ Standing(r, r.rec.index) =>
      \/ mem.entries[r.rec.index] = r.rec.term
      \/ pc \in Written /\ r.rec = op
      \/ GapBehind(r)

\* The last record of kind k says v, or there is none and v is 0.
SetBy(k, v) ==
  \/ v = 0 /\ \A r \in recs : r.rec.kind # k
  \/ \E r \in recs : /\ r.rec.kind = k /\ r.rec.index = v
                     /\ \A q \in recs : q.rec.kind = k => q.pos <= r.pos

Pending(k) == pc \in Written /\ op.kind = k

\* While every segment is there, no checkpoint says what no record before it
\* says, and RAM has the pointers of the last records that set them.
PointersSet ==
  Whole =>
    /\ \A c \in recs : c.rec.kind = "Checkpoint" =>
         /\ c.rec.last_purged # 0 => \E r \in recs : r.pos < c.pos /\ r.rec.kind = "Purge"
         /\ c.rec.committed # 0 => \E r \in recs : r.pos < c.pos /\ r.rec.kind = "Committed"
    /\ pc # "down" /\ ~Pending("Purge") => SetBy("Purge", mem.last_purged)
    /\ pc # "down" /\ ~Pending("Committed") => SetBy("Committed", mem.committed)

RInv == SegmentOrder /\ FoundInRam /\ PointersSet

-----------------------------------------------------------------------------
(* Facts about the operators                                               *)

\* The active segment is the highest one.
LEMMA ActiveFacts ==
  ASSUME ActiveExists
  PROVE  Active \in files /\ \A s \in files : s <= Active
BY DEF ActiveExists, Active

\* A non-empty set of numbers has a least element.
LEMMA LeastNat ==
  ASSUME NEW D, D \subseteq Nat, D # {}
  PROVE  \E d \in D : \A e \in D : d <= e
<1>. DEFINE R == OpToRel(<, Nat)
<1>1. PICK d \in D : \A e \in D : <<e, d>> \notin R
  <2>1. IsWellFoundedOn(R, Nat)
    BY NatLessThanWellFounded
  <2>. HIDE DEF R
  <2>. QED BY <2>1, WFMin
<1>2. \A e \in D : ~(e < d)
  BY <1>1 DEF OpToRel
<1>. QED BY <1>2

\* A non-empty set of indexes has a largest element.
LEMMA LargestIndex ==
  ASSUME NEW S, S \subseteq Index, S # {}
  PROVE  \E i \in S : \A j \in S : j <= i
<1>. DEFINE D == {MaxIndex - i : i \in S}
<1>1. MaxIndex \in Nat /\ \A i \in S : i \in Nat /\ 1 <= i /\ i <= MaxIndex
  BY MaxIndexAssumption DEF Index
<1>2. D \subseteq Nat /\ D # {}
  BY <1>1
<1>3. PICK d \in D : \A e \in D : d <= e
  BY <1>2, LeastNat
<1>4. PICK i \in S : d = MaxIndex - i
  OBVIOUS
<1>5. ASSUME NEW j \in S
      PROVE  j <= i
  <2>1. d <= MaxIndex - j
    BY <1>3
  <2>. QED BY <1>1, <1>4, <2>1
<1>. QED BY <1>5

\* get_log_state answers an index or 0.
LEMMA LastLogIndexType == ASSUME TypeOK PROVE LastLogIndex \in Pointer
<1>. DEFINE present == {i \in Index : mem.entries[i] # 0}
<1>1. CASE present = {}
  BY <1>1 DEF LastLogIndex, TypeOK
<1>2. CASE present # {}
  <2>1. \E i \in present : \A j \in present : j <= i
    BY <1>2, LargestIndex
  <2>2. LastLogIndex \in present
    BY <1>2, <2>1 DEF LastLogIndex
  <2>. QED BY <2>2, MaxIndexAssumption DEF Index, Pointer
<1>. QED BY <1>1, <1>2

\* A write adds one frame behind all others.
LEMMA WriteFacts ==
  ASSUME TypeOK, Positions, ActiveExists, NEW r \in WalRecord, Write(r)
  PROVE  \E f \in Frame :
           /\ f.pos = pos + 1 /\ f.rec = r /\ f.seg = Active
           /\ recs' = recs \cup {f}
           /\ pos' = pos + 1
           /\ recs' \subseteq Frame
           /\ \A q \in recs : q.pos <= pos
           /\ \A q, s \in recs' : q.pos = s.pos => q = s
<1>. DEFINE f == [pos |-> pos + 1, seg |-> Active, rec |-> r]
<1>1. Active \in Nat
  BY ActiveFacts DEF TypeOK
<1>2. f \in Frame /\ f.pos = pos + 1 /\ f.rec = r /\ f.seg = Active
  BY <1>1 DEF Frame, TypeOK
<1>3. recs' = recs \cup {f} /\ pos' = pos + 1
  BY DEF Write
<1>4. \A q \in recs : q.pos <= pos /\ q.pos \in Nat /\ q.pos # pos + 1
  BY DEF Positions, TypeOK, Frame
<1>. HIDE DEF f
<1>5. \A q, s \in recs' : q.pos = s.pos => q = s
  BY <1>2, <1>3, <1>4 DEF Positions
<1>. QED BY <1>2, <1>3, <1>4, <1>5 DEF TypeOK

\* A record that does not void an entry leaves it in the replayed log.
LEMMA HoldsKept ==
  ASSUME NEW S, NEW f, NEW i, NEW t, Holds(S, i, t), ~Voids(f.rec, i)
  PROVE  Holds(S \cup {f}, i, t)
BY DEF Holds

\* Replay finds at most one entry per index.
LEMMA HoldsOnce ==
  ASSUME NEW S, S \subseteq Frame, \A q, r \in S : q.pos = r.pos => q = r,
         NEW i \in Index, NEW t, NEW u, Holds(S, i, t), Holds(S, i, u)
  PROVE  t = u
<1>1. PICK q \in S : /\ q.rec = EntryRec(i, t)
                     /\ \A p \in S : p.pos > q.pos => ~Voids(p.rec, i)
  BY DEF Holds, EntryRec
<1>2. PICK r \in S : /\ r.rec = EntryRec(i, u)
                     /\ \A p \in S : p.pos > r.pos => ~Voids(p.rec, i)
  BY DEF Holds, EntryRec
<1>3. Voids(q.rec, i) /\ Voids(r.rec, i)
  BY <1>1, <1>2 DEF Voids, EntryRec
<1>4. q.pos \in Nat /\ r.pos \in Nat
  BY DEF Frame
<1>5. q = r
  BY <1>1, <1>2, <1>3, <1>4
<1>6. q.rec.term = t /\ r.rec.term = u
  BY <1>1, <1>2 DEF EntryRec
<1>. QED BY <1>5, <1>6

\* WalState::apply sets an entry, clears what the record voids and keeps the
\* other entries.
LEMMA ApplyFacts ==
  ASSUME NEW state \in [entries : Log, last_purged : Pointer, committed : Pointer],
         NEW r \in Calls
  PROVE  /\ apply(state, r) \in [entries : Log, last_purged : Pointer, committed : Pointer]
         /\ \A i \in Index : apply(state, r).entries[i] =
              IF r.kind = "Entry" /\ r.index = i THEN r.term
              ELSE IF Voids(r, i) THEN 0 ELSE state.entries[i]
<1>. USE MaxTermAssumption, MaxIndexAssumption
<1>1. CASE r.kind = "Entry"
  <2>1. r.index \in Index /\ r.term \in Term
    BY <1>1 DEF Calls
  <2>2. apply(state, r) = [state EXCEPT !.entries[r.index] = r.term]
    BY <1>1 DEF apply
  <2>. QED BY <1>1, <2>1, <2>2 DEF Voids, Log, Term
<1>2. CASE r.kind = "TruncateFrom"
  <2>1. r.index \in Index
    BY <1>2 DEF Calls
  <2>. DEFINE e == [i \in Index |-> IF i >= r.index THEN 0 ELSE state.entries[i]]
  <2>2. apply(state, r) = [state EXCEPT !.entries = e]
    BY <1>2 DEF apply
  <2>3. e \in Log
    BY DEF Log
  <2>4. \A i \in Index : e[i] = IF Voids(r, i) THEN 0 ELSE state.entries[i]
    BY <1>2, <2>1 DEF Voids, Index
  <2>. HIDE DEF e
  <2>. QED BY <1>2, <2>2, <2>3, <2>4
<1>3. CASE r.kind = "Purge"
  <2>1. r.index \in Index
    BY <1>3 DEF Calls
  <2>. DEFINE e == [i \in Index |-> IF i <= r.index THEN 0 ELSE state.entries[i]]
  <2>2. apply(state, r) = [state EXCEPT !.last_purged = r.index, !.entries = e]
    BY <1>3 DEF apply
  <2>3. e \in Log /\ r.index \in Pointer
    BY <2>1 DEF Log, Index, Pointer
  <2>4. \A i \in Index : e[i] = IF Voids(r, i) THEN 0 ELSE state.entries[i]
    BY <1>3, <2>1 DEF Voids, Index
  <2>. HIDE DEF e
  <2>. QED BY <1>3, <2>2, <2>3, <2>4
<1>4. CASE r.kind = "Committed"
  <2>1. r.index \in Index
    BY <1>4 DEF Calls
  <2>2. apply(state, r) = [state EXCEPT !.committed = r.index]
    BY <1>4 DEF apply
  <2>. QED BY <1>4, <2>1, <2>2 DEF Voids, Log, Index, Pointer
<1>. QED BY <1>1, <1>2, <1>3, <1>4 DEF Calls

\* The first record of a part of the log is one of its records.
LEMMA FirstFacts ==
  ASSUME NEW S, S \subseteq Frame, S # {}
  PROVE  First(S) \in S
<1>. DEFINE D == {r.pos : r \in S}
<1>1. D \subseteq Nat /\ D # {}
  BY DEF Frame
<1>2. PICK d \in D : \A e \in D : d <= e
  BY <1>1, LeastNat
<1>3. \E r \in S : \A q \in S : r.pos <= q.pos
  BY <1>2
<1>. QED BY <1>3 DEF First

\* So is the last, since positions are bounded.
LEMMA LatestFacts ==
  ASSUME NEW S, S \subseteq Frame, S # {}, NEW m \in Nat, \A r \in S : r.pos <= m
  PROVE  Latest(S) \in S /\ \A q \in S : q.pos <= Latest(S).pos
<1>. DEFINE D == {m - r.pos : r \in S}
<1>1. \A r \in S : r.pos \in Nat /\ m - r.pos \in Nat
  BY DEF Frame
<1>2. D \subseteq Nat /\ D # {}
  BY <1>1
<1>3. PICK d \in D : \A e \in D : d <= e
  BY <1>2, LeastNat
<1>4. PICK r \in S : d = m - r.pos
  OBVIOUS
<1>5. ASSUME NEW q \in S
      PROVE  q.pos <= r.pos
  <2>1. d <= m - q.pos
    BY <1>3
  <2>. QED BY <1>1, <1>4, <2>1
<1>. QED BY <1>5 DEF Latest

-----------------------------------------------------------------------------
(* Each step preserves the invariant                                       *)

\* A call of the store begins: it gives up the promises that it voids before
\* its record can reach the disk.
LEMMA BeginStep ==
  ASSUME IInv, NEW r \in Calls, NEW hi \in Index, Begin(r, hi)
  PROVE  IInv'
<1>1. r \in WalRecord /\ r # NoCall
  BY DEF WalRecord, Calls, NoCall
<1>2. PICK f \in Frame : /\ f.pos = pos + 1 /\ f.rec = r
                         /\ recs' = recs \cup {f}
                         /\ pos' = pos + 1
                         /\ recs' \subseteq Frame
                         /\ \A q \in recs : q.pos <= pos
                         /\ \A q, s \in recs' : q.pos = s.pos => q = s
  BY <1>1, WriteFacts DEF Begin, IInv
<1>3. /\ pc = "idle" /\ pc' = "written" /\ op' = r /\ last' = hi
      /\ promised' = [i \in Index |-> IF i \in GivenUp(r, hi) THEN 0 ELSE promised[i]]
      /\ UNCHANGED <<files, synced, mem>>
  BY DEF Begin
<1>4. \A i \in Index : promised'[i] # 0 =>
        /\ promised'[i] = promised[i]
        /\ ~Voids(r, i)
        /\ r.kind = "Entry" => ~(r.index <= i /\ i <= hi)
  <2>. SUFFICES ASSUME NEW i \in Index, promised'[i] # 0
                PROVE  /\ promised'[i] = promised[i]
                       /\ ~Voids(r, i)
                       /\ r.kind = "Entry" => ~(r.index <= i /\ i <= hi)
    OBVIOUS
  <2>1. i \notin GivenUp(r, hi) /\ promised'[i] = promised[i]
    BY <1>3
  <2>2. r.kind = "Entry" => r.index \in Int
    BY MaxIndexAssumption DEF Calls, Index
  <2>3. i \in Int /\ hi \in Int
    BY MaxIndexAssumption DEF Index
  <2>. QED BY <2>1, <2>2, <2>3 DEF GivenUp
<1>5. TypeOK'
  <2>1. promised' \in Log
    BY <1>3, MaxTermAssumption DEF IInv, TypeOK, Log
  <2>. QED BY <1>2, <1>3, <2>1 DEF IInv, TypeOK
<1>6. Positions'
  <2>1. pos \in Nat /\ synced \in Nat /\ f.pos \in Nat /\ synced <= pos
    BY DEF IInv, TypeOK, Frame, Positions
  <2>2. \A q \in recs' : q.pos <= pos'
    BY <1>2, <2>1 DEF Frame
  <2>. QED BY <1>2, <1>3, <2>1, <2>2 DEF Positions
<1>7. Durable'
  <2>. SUFFICES ASSUME NEW i \in Index, promised'[i] # 0
                PROVE  \E q \in recs' : /\ q.rec = EntryRec(i, promised'[i])
                                        /\ q.pos <= synced'
                                        /\ \A p \in recs' : p.pos > q.pos => ~Voids(p.rec, i)
    BY DEF Durable
  <2>1. PICK q \in recs : /\ q.rec = EntryRec(i, promised[i])
                          /\ q.pos <= synced
                          /\ \A p \in recs : p.pos > q.pos => ~Voids(p.rec, i)
    BY <1>4 DEF IInv, Durable
  <2>. QED BY <1>2, <1>3, <1>4, <2>1
<1>8. OpSpares'
  BY <1>1, <1>3, <1>4 DEF OpSpares
<1>9. OpOnDisk'
  <2>1. \A q \in recs' : ~(q.pos > f.pos)
    BY <1>2 DEF IInv, TypeOK, Frame
  <2>. QED BY <1>2, <1>3, <2>1 DEF OpOnDisk
<1>10. RamOnDisk'
  <2>. SUFFICES ASSUME NEW i \in Index, mem.entries[i] # 0, ~Voids(r, i)
                PROVE  Holds(recs', i, mem.entries[i])
    BY <1>3 DEF RamOnDisk, Written
  <2>1. Holds(recs, i, mem.entries[i])
    BY <1>3 DEF IInv, RamOnDisk, Written
  <2>. QED BY <1>2, <2>1, HoldsKept
<1>11. RamHasPromised'
  BY <1>3, <1>4 DEF IInv, RamHasPromised
<1>12. ActiveExists' /\ PurgeFolded' /\ BatchBelowLast'
  BY <1>3 DEF IInv, ActiveExists, PurgeFolded, BatchBelowLast
<1>. QED BY <1>5, <1>6, <1>7, <1>8, <1>9, <1>10, <1>11, <1>12 DEF IInv

\* Rotation syncs the full segment and opens the next.
LEMMA RotateStep == ASSUME IInv, Rotate PROVE IInv'
<1>1. /\ pc = "written" /\ pc' = "rotating" /\ synced' = pos
      /\ files' = files \cup {Active + 1}
      /\ UNCHANGED <<recs, pos, mem, op, last, promised>>
  BY DEF Rotate
<1>2. Active \in Nat /\ Active \in files /\ \A s \in files : s \in Nat /\ s <= Active
  BY ActiveFacts DEF IInv, TypeOK
<1>3. TypeOK' /\ ActiveExists'
  <2>1. files' \subseteq Nat /\ Active + 1 \in files' /\ \A s \in files' : s <= Active + 1
    BY <1>1, <1>2
  <2>. QED BY <1>1, <2>1 DEF IInv, TypeOK, ActiveExists
<1>4. Positions' /\ Durable'
  <2>1. pos \in Nat /\ synced \in Nat /\ synced <= pos /\ \A r \in recs : r.pos \in Nat
    BY DEF IInv, TypeOK, Positions, Frame
  <2>. QED BY <1>1, <2>1 DEF IInv, Positions, Durable
<1>5. OpSpares' /\ OpOnDisk' /\ RamOnDisk'
  BY <1>1 DEF IInv, OpSpares, OpOnDisk, RamOnDisk, Written
<1>. QED BY <1>1, <1>3, <1>4, <1>5
     DEF IInv, PurgeFolded, BatchBelowLast, RamHasPromised

\* The checkpoint at the head of a segment voids nothing.
LEMMA RotateCheckpointStep == ASSUME IInv, RotateCheckpoint PROVE IInv'
<1>. DEFINE c == [kind |-> "Checkpoint", last_purged |-> mem.last_purged,
                  committed |-> mem.committed]
<1>1. c \in WalRecord /\ c.kind = "Checkpoint" /\ \A i \in Index : ~Voids(c, i)
  BY DEF WalRecord, IInv, TypeOK, Voids
<1>2. /\ pc = "rotating" /\ pc' = "rotated" /\ Write(c)
      /\ UNCHANGED <<files, synced, mem, op, last, promised>>
  BY DEF RotateCheckpoint
<1>. HIDE DEF c
<1>3. PICK f \in Frame : /\ f.pos = pos + 1 /\ f.rec = c
                         /\ recs' = recs \cup {f}
                         /\ pos' = pos + 1
                         /\ recs' \subseteq Frame
                         /\ \A q \in recs : q.pos <= pos
                         /\ \A q, s \in recs' : q.pos = s.pos => q = s
  BY <1>1, <1>2, WriteFacts DEF IInv
<1>4. TypeOK' /\ Positions'
  <2>1. pos \in Nat /\ synced \in Nat /\ f.pos \in Nat /\ synced <= pos
    BY DEF IInv, TypeOK, Frame, Positions
  <2>2. \A q \in recs' : q.pos <= pos'
    BY <1>3, <2>1 DEF Frame
  <2>. QED BY <1>2, <1>3, <2>1, <2>2 DEF IInv, TypeOK, Positions
<1>5. Durable'
  <2>. SUFFICES ASSUME NEW i \in Index, promised[i] # 0
                PROVE  \E q \in recs' : /\ q.rec = EntryRec(i, promised[i])
                                        /\ q.pos <= synced
                                        /\ \A p \in recs' : p.pos > q.pos => ~Voids(p.rec, i)
    BY <1>2 DEF Durable
  <2>1. PICK q \in recs : /\ q.rec = EntryRec(i, promised[i])
                          /\ q.pos <= synced
                          /\ \A p \in recs : p.pos > q.pos => ~Voids(p.rec, i)
    BY DEF IInv, Durable
  <2>. QED BY <1>1, <1>3, <2>1
<1>6. OpOnDisk'
  <2>1. PICK r \in recs : /\ r.rec = op
                          /\ \A q \in recs : q.pos > r.pos => q.rec.kind = "Checkpoint"
    BY <1>2 DEF IInv, OpOnDisk, Written
  <2>. QED BY <1>1, <1>2, <1>3, <2>1 DEF OpOnDisk
<1>7. RamOnDisk'
  <2>. SUFFICES ASSUME NEW i \in Index, mem.entries[i] # 0, ~Voids(op, i)
                PROVE  Holds(recs', i, mem.entries[i])
    BY <1>2 DEF RamOnDisk, Written
  <2>1. Holds(recs, i, mem.entries[i])
    BY <1>2 DEF IInv, RamOnDisk
  <2>. QED BY <1>1, <1>3, <2>1, HoldsKept
<1>8. OpSpares'
  BY <1>2 DEF IInv, OpSpares
<1>. QED BY <1>2, <1>4, <1>5, <1>6, <1>7, <1>8
     DEF IInv, ActiveExists, PurgeFolded, BatchBelowLast, RamHasPromised

\* The fold brings RAM to what the records say.
LEMMA FoldStep == ASSUME IInv, Fold PROVE IInv'
<1>1. /\ pc \in Written /\ mem' = apply(mem, op)
      /\ pc' = IF op.kind = "Entry" /\ op.index < last THEN "batch" ELSE "folded"
      /\ UNCHANGED <<recs, files, pos, synced, op, last, promised>>
  BY DEF Fold, Written
<1>2. op \in Calls /\ op # NoCall
  BY <1>1 DEF IInv, OpSpares, TypeOK, Written, NoCall
<1>3. /\ mem' \in [entries : Log, last_purged : Pointer, committed : Pointer]
      /\ \A i \in Index : mem'.entries[i] =
           IF op.kind = "Entry" /\ op.index = i THEN op.term
           ELSE IF Voids(op, i) THEN 0 ELSE mem.entries[i]
  BY <1>1, <1>2, ApplyFacts DEF IInv, TypeOK
<1>4. TypeOK'
  BY <1>1, <1>3 DEF IInv, TypeOK
<1>5. RamOnDisk'
  <2>. SUFFICES ASSUME NEW i \in Index, mem'.entries[i] # 0
                PROVE  Holds(recs, i, mem'.entries[i])
    BY <1>1 DEF RamOnDisk
  <2>1. CASE op.kind = "Entry" /\ op.index = i
    <3>1. PICK r \in recs : /\ r.rec = op
                            /\ \A q \in recs : q.pos > r.pos => q.rec.kind = "Checkpoint"
      BY <1>1 DEF IInv, OpOnDisk
    <3>2. op = EntryRec(i, op.term)
      BY <1>2, <2>1 DEF Calls, EntryRec
    <3>3. \A q \in recs : q.pos > r.pos => ~Voids(q.rec, i)
      BY <3>1 DEF Voids
    <3>. QED BY <1>3, <2>1, <3>1, <3>2, <3>3 DEF Holds, EntryRec
  <2>2. CASE ~(op.kind = "Entry" /\ op.index = i)
    <3>1. ~Voids(op, i) /\ mem'.entries[i] = mem.entries[i]
      BY <1>3, <2>2
    <3>. QED BY <1>1, <3>1 DEF IInv, RamOnDisk, Written
  <2>. QED BY <2>1, <2>2
<1>6. RamHasPromised'
  BY <1>1, <1>2, <1>3 DEF IInv, RamHasPromised, OpSpares, Voids, Written
<1>7. Positions' /\ ActiveExists' /\ Durable'
  BY <1>1 DEF IInv, Positions, ActiveExists, Durable
<1>8. OpSpares' /\ OpOnDisk' /\ PurgeFolded' /\ BatchBelowLast'
  BY <1>1, <1>2, <1>3
     DEF IInv, OpSpares, OpOnDisk, PurgeFolded, BatchBelowLast, Written, Voids
<1>. QED BY <1>4, <1>5, <1>6, <1>7, <1>8 DEF IInv

\* The next entry of a batch is written where nothing is promised.
LEMMA NextOfBatchStep == ASSUME IInv, NextOfBatch PROVE IInv'
<1>1. /\ pc = "batch" /\ pc' = "written" /\ op' = [op EXCEPT !.index = op.index + 1]
      /\ Write(op')
      /\ UNCHANGED <<files, synced, mem, last, promised>>
  BY DEF NextOfBatch
<1>2. op \in Calls /\ op.kind = "Entry" /\ op.index < last /\ op # NoCall
  BY <1>1 DEF IInv, OpSpares, TypeOK, BatchBelowLast
<1>3. op.index \in Index /\ op.term \in Term /\ op = EntryRec(op.index, op.term)
  BY <1>2 DEF Calls, EntryRec
<1>4. op.index + 1 \in Index
  BY <1>2, <1>3, MaxIndexAssumption DEF IInv, TypeOK, Index
<1>5. op' = EntryRec(op.index + 1, op.term)
  BY <1>1, <1>3 DEF EntryRec
<1>6. op' \in Calls /\ op' \in WalRecord /\ op' # NoCall
  BY <1>3, <1>4, <1>5 DEF Calls, WalRecord, EntryRec, NoCall
<1>7. PICK f \in Frame : /\ f.pos = pos + 1 /\ f.rec = op'
                         /\ recs' = recs \cup {f}
                         /\ pos' = pos + 1
                         /\ recs' \subseteq Frame
                         /\ \A q \in recs : q.pos <= pos
                         /\ \A q, s \in recs' : q.pos = s.pos => q = s
  BY <1>1, <1>6, WriteFacts DEF IInv
<1>8. \A i \in Index : /\ Voids(op', i) <=> i = op.index + 1
                       /\ promised[i] # 0 => ~(op.index <= i /\ i <= last)
  BY <1>2, <1>5 DEF Voids, EntryRec, IInv, OpSpares
<1>9. /\ op.index \in Int /\ last \in Int /\ op.index + 1 <= last
      /\ \A i \in Index : i \in Int
  BY <1>2, <1>3, MaxIndexAssumption DEF IInv, TypeOK, Index
<1>10. \A i \in Index : promised[i] # 0 => ~Voids(op', i)
  BY <1>8, <1>9
<1>11. TypeOK' /\ Positions'
  <2>1. pos \in Nat /\ synced \in Nat /\ f.pos \in Nat /\ synced <= pos
    BY DEF IInv, TypeOK, Frame, Positions
  <2>2. \A q \in recs' : q.pos <= pos'
    BY <1>7, <2>1 DEF Frame
  <2>. QED BY <1>1, <1>6, <1>7, <2>1, <2>2 DEF IInv, TypeOK, Positions
<1>12. Durable'
  <2>. SUFFICES ASSUME NEW i \in Index, promised[i] # 0
                PROVE  \E q \in recs' : /\ q.rec = EntryRec(i, promised[i])
                                        /\ q.pos <= synced
                                        /\ \A p \in recs' : p.pos > q.pos => ~Voids(p.rec, i)
    BY <1>1 DEF Durable
  <2>1. PICK q \in recs : /\ q.rec = EntryRec(i, promised[i])
                          /\ q.pos <= synced
                          /\ \A p \in recs : p.pos > q.pos => ~Voids(p.rec, i)
    BY DEF IInv, Durable
  <2>. QED BY <1>7, <1>10, <2>1
<1>13. OpSpares'
  <2>1. op'.index = op.index + 1
    BY <1>5 DEF EntryRec
  <2>2. \A i \in Index : promised[i] # 0 => ~(op'.index <= i /\ i <= last)
    BY <1>8, <1>9, <2>1
  <2>. QED BY <1>1, <1>6, <1>10, <2>2 DEF OpSpares
<1>14. OpOnDisk'
  <2>1. \A q \in recs' : ~(q.pos > f.pos)
    BY <1>7 DEF IInv, TypeOK, Frame
  <2>. QED BY <1>1, <1>7, <2>1 DEF OpOnDisk
<1>15. RamOnDisk'
  <2>. SUFFICES ASSUME NEW i \in Index, mem.entries[i] # 0, ~Voids(op', i)
                PROVE  Holds(recs', i, mem.entries[i])
    BY <1>1 DEF RamOnDisk, Written
  <2>1. Holds(recs, i, mem.entries[i])
    BY <1>1 DEF IInv, RamOnDisk, Written
  <2>. QED BY <1>7, <2>1, HoldsKept
<1>. QED BY <1>1, <1>11, <1>12, <1>13, <1>14, <1>15
     DEF IInv, ActiveExists, PurgeFolded, BatchBelowLast, RamHasPromised

\* The fsync makes the whole log durable, and with it what it promises.
LEMMA SyncStep == ASSUME IInv, Sync PROVE IInv'
<1>1. /\ pc = "folded" /\ synced' = pos /\ last' = 1
      /\ pc' = IF op.kind = "Purge" THEN "gc" ELSE "idle"
      /\ promised' = IF op.kind = "Entry" THEN mem.entries ELSE promised
      /\ op' = IF op.kind = "Purge" THEN op ELSE NoCall
      /\ UNCHANGED <<recs, files, pos, mem>>
  BY DEF Sync
<1>2. TypeOK' /\ Positions' /\ ActiveExists'
  <2>1. 1 \in Index
    BY MaxIndexAssumption DEF Index
  <2>2. pos <= pos
    BY DEF IInv, TypeOK
  <2>. QED BY <1>1, <2>1, <2>2 DEF IInv, TypeOK, Positions, ActiveExists
<1>3. Durable'
  <2>. SUFFICES ASSUME NEW i \in Index, promised'[i] # 0
                PROVE  \E r \in recs : /\ r.rec = EntryRec(i, promised'[i])
                                       /\ r.pos <= pos
                                       /\ \A q \in recs : q.pos > r.pos => ~Voids(q.rec, i)
    BY <1>1 DEF Durable
  <2>1. Holds(recs, i, promised'[i])
    <3>1. promised'[i] = mem.entries[i]
      BY <1>1 DEF IInv, RamHasPromised
    <3>. QED BY <1>1, <3>1 DEF IInv, RamOnDisk, Written
  <2>. QED BY <2>1 DEF Holds, EntryRec, IInv, Positions
<1>4. RamOnDisk'
  BY <1>1 DEF IInv, RamOnDisk, Written
<1>5. RamHasPromised'
  BY <1>1 DEF IInv, RamHasPromised
<1>6. OpSpares' /\ OpOnDisk' /\ PurgeFolded' /\ BatchBelowLast'
  BY <1>1 DEF IInv, OpSpares, OpOnDisk, PurgeFolded, BatchBelowLast, Written
<1>. QED BY <1>2, <1>3, <1>4, <1>5, <1>6 DEF IInv

\* The removal of a segment takes no record of an entry above the purge
\* point, and RAM and callers have given up the others.
LEMMA UnlinkStep == ASSUME IInv, Unlink PROVE IInv'
<1>1. PICK s \in files : /\ Removable(s)
                         /\ files' = files \ {s}
                         /\ recs' = {r \in recs : r.seg # s}
  BY DEF Unlink
<1>2. pc = "gc" /\ UNCHANGED <<pos, synced, mem, pc, op, last, promised>>
  BY DEF Unlink
<1>3. op \in Calls /\ op.kind = "Purge" /\ op.index \in Index
  BY <1>2 DEF IInv, TypeOK, OpSpares, PurgeFolded, Calls
<1>4. ASSUME NEW i \in Index, mem.entries[i] # 0, NEW t, NEW r \in recs,
             r.rec = EntryRec(i, t)
      PROVE  r \in recs'
  <2>1. ~(i <= op.index)
    BY <1>2, <1>3, <1>4 DEF IInv, PurgeFolded
  <2>2. r.rec.kind = "Entry" /\ r.rec.index = i
    BY <1>4 DEF EntryRec
  <2>3. r.seg # s
    BY <1>1, <2>1, <2>2 DEF Removable
  <2>. QED BY <1>1, <2>3
<1>5. TypeOK' /\ Positions' /\ ActiveExists'
  <2>1. Active \in files' /\ \A t \in files' : t <= Active
    BY <1>1, ActiveFacts DEF IInv, Removable
  <2>. QED BY <1>1, <1>2, <2>1 DEF IInv, TypeOK, Positions, ActiveExists
<1>6. Durable'
  <2>. SUFFICES ASSUME NEW i \in Index, promised[i] # 0
                PROVE  \E r \in recs' : /\ r.rec = EntryRec(i, promised[i])
                                        /\ r.pos <= synced
                                        /\ \A q \in recs' : q.pos > r.pos => ~Voids(q.rec, i)
    BY <1>2 DEF Durable
  <2>1. PICK r \in recs : /\ r.rec = EntryRec(i, promised[i])
                          /\ r.pos <= synced
                          /\ \A q \in recs : q.pos > r.pos => ~Voids(q.rec, i)
    BY DEF IInv, Durable
  <2>2. mem.entries[i] # 0
    BY <1>2 DEF IInv, RamHasPromised
  <2>3. r \in recs'
    BY <1>4, <2>1, <2>2
  <2>. QED BY <1>1, <2>1, <2>3
<1>7. RamOnDisk'
  <2>. SUFFICES ASSUME NEW i \in Index, mem.entries[i] # 0
                PROVE  Holds(recs', i, mem.entries[i])
    BY <1>2 DEF RamOnDisk
  <2>1. Holds(recs, i, mem.entries[i])
    BY <1>2 DEF IInv, RamOnDisk, Written
  <2>2. PICK r \in recs : /\ r.rec = EntryRec(i, mem.entries[i])
                          /\ \A q \in recs : q.pos > r.pos => ~Voids(q.rec, i)
    BY <2>1 DEF Holds, EntryRec
  <2>3. r \in recs'
    BY <1>4, <2>2
  <2>. QED BY <1>1, <2>2, <2>3 DEF Holds, EntryRec
<1>8. OpSpares' /\ OpOnDisk' /\ PurgeFolded' /\ BatchBelowLast' /\ RamHasPromised'
  BY <1>2 DEF IInv, OpSpares, OpOnDisk, PurgeFolded, BatchBelowLast, RamHasPromised,
              Written
<1>. QED BY <1>5, <1>6, <1>7, <1>8 DEF IInv

\* The end of a purge changes nothing that the invariant speaks of.
LEMMA PurgeDoneStep == ASSUME IInv, PurgeDone PROVE IInv'
<1>1. /\ pc = "gc" /\ pc' = "idle" /\ op' = NoCall
      /\ UNCHANGED <<recs, files, pos, synced, mem, last, promised>>
  BY DEF PurgeDone
<1>2. TypeOK' /\ Positions' /\ ActiveExists' /\ Durable'
  BY <1>1 DEF IInv, TypeOK, Positions, ActiveExists, Durable
<1>3. OpSpares' /\ OpOnDisk' /\ RamOnDisk' /\ PurgeFolded' /\ BatchBelowLast'
      /\ RamHasPromised'
  BY <1>1 DEF IInv, OpSpares, OpOnDisk, RamOnDisk, PurgeFolded, BatchBelowLast,
              RamHasPromised, Written
<1>. QED BY <1>2, <1>3 DEF IInv

\* A power loss keeps the synced prefix.
LEMMA CrashStep == ASSUME IInv, Crash PROVE IInv'
<1>1. PICK k \in synced .. pos : recs' = Remains(k)
  BY DEF Crash
<1>2. /\ pc' = "down" /\ mem' = EmptyState /\ op' = NoCall /\ last' = 1
      /\ UNCHANGED <<files, pos, synced, promised>>
  BY DEF Crash
<1>3. recs' = {r \in recs : r.pos <= k} /\ k \in Int /\ synced <= k
  BY <1>1 DEF Remains, IInv, TypeOK
<1>4. TypeOK'
  <2>1. 1 \in Index
    BY MaxIndexAssumption DEF Index
  <2>2. EmptyState \in [entries : Log, last_purged : Pointer, committed : Pointer]
    BY MaxIndexAssumption, MaxTermAssumption DEF EmptyState, NoEntries, Log, Pointer
  <2>. QED BY <1>2, <1>3, <2>1, <2>2 DEF IInv, TypeOK
<1>5. Positions' /\ ActiveExists'
  BY <1>2, <1>3 DEF IInv, Positions, ActiveExists
<1>6. Durable'
  <2>. SUFFICES ASSUME NEW i \in Index, promised[i] # 0
                PROVE  \E r \in recs' : /\ r.rec = EntryRec(i, promised[i])
                                        /\ r.pos <= synced
                                        /\ \A q \in recs' : q.pos > r.pos => ~Voids(q.rec, i)
    BY <1>2 DEF Durable
  <2>1. PICK r \in recs : /\ r.rec = EntryRec(i, promised[i])
                          /\ r.pos <= synced
                          /\ \A q \in recs : q.pos > r.pos => ~Voids(q.rec, i)
    BY DEF IInv, Durable
  <2>2. r.pos <= k
    BY <1>3, <2>1 DEF IInv, TypeOK, Frame
  <2>. QED BY <1>3, <2>1, <2>2
<1>7. OpSpares' /\ OpOnDisk' /\ RamOnDisk' /\ PurgeFolded' /\ BatchBelowLast'
      /\ RamHasPromised'
  BY <1>2 DEF IInv, OpSpares, OpOnDisk, RamOnDisk, PurgeFolded, BatchBelowLast,
              RamHasPromised, Written, NoCall
<1>. QED BY <1>4, <1>5, <1>6, <1>7 DEF IInv

\* Recovery finds one entry per index, and it finds the promised ones.
LEMMA OpenStep == ASSUME IInv, open PROVE IInv'
<1>1. /\ pc = "down" /\ pc' = "idle" /\ mem' = Replay(recs)
      /\ UNCHANGED <<recs, files, pos, synced, op, last, promised>>
  BY DEF open
<1>2. mem'.entries = ReplayedEntries(recs)
  BY <1>1 DEF Replay
<1>3. \A i \in Index : mem'.entries[i] # 0 =>
        mem'.entries[i] \in Term /\ Holds(recs, i, mem'.entries[i])
  BY <1>2 DEF ReplayedEntries
<1>4. ReplayedEntries(recs) \in Log
  BY MaxTermAssumption DEF ReplayedEntries, Log, Term
<1>5. recs \subseteq Frame /\ pos \in Nat /\ \A r \in recs : r.pos <= pos /\ r.rec \in WalRecord
  BY DEF IInv, TypeOK, Positions, Frame
<1>6. ReplayedPurge(recs) \in Pointer
  <2>. DEFINE P == {r \in recs : r.rec.kind = "Purge"}
              H == {r \in recs : r.rec.kind = "Checkpoint" /\ r.rec.last_purged # 0}
  <2>1. P # {} => Latest(P).rec.index \in Index
    <3>1. P # {} => Latest(P) \in P
      BY <1>5, LatestFacts
    <3>. QED BY <1>5, <3>1 DEF WalRecord, Calls
  <2>2. H # {} => First(H).rec.last_purged \in Pointer
    <3>1. H # {} => First(H) \in H
      BY <1>5, FirstFacts
    <3>. QED BY <1>5, <3>1 DEF WalRecord, Calls
  <2>. QED BY <2>1, <2>2, MaxIndexAssumption DEF ReplayedPurge, Index, Pointer
<1>7. ReplayedCommit(recs) \in Pointer
  <2>. DEFINE C == {r \in recs : r.rec.kind = "Committed"}
              H == {r \in recs : r.rec.kind = "Checkpoint" /\ r.rec.committed # 0}
  <2>1. C # {} => Latest(C).rec.index \in Index
    <3>1. C # {} => Latest(C) \in C
      BY <1>5, LatestFacts
    <3>. QED BY <1>5, <3>1 DEF WalRecord, Calls
  <2>2. H # {} => First(H).rec.committed \in Pointer
    <3>1. H # {} => First(H) \in H
      BY <1>5, FirstFacts
    <3>. QED BY <1>5, <3>1 DEF WalRecord, Calls
  <2>. QED BY <2>1, <2>2, MaxIndexAssumption DEF ReplayedCommit, Index, Pointer
<1>8. TypeOK'
  BY <1>1, <1>4, <1>6, <1>7 DEF Replay, IInv, TypeOK
<1>9. RamOnDisk'
  BY <1>1, <1>3 DEF RamOnDisk
<1>10. RamHasPromised'
  <2>. SUFFICES ASSUME NEW i \in Index, promised[i] # 0
                PROVE  mem'.entries[i] = promised[i]
    BY <1>1 DEF RamHasPromised
  <2>1. promised[i] \in Term
    BY MaxTermAssumption DEF IInv, TypeOK, Log, Term
  <2>2. Holds(recs, i, promised[i])
    BY DEF IInv, Durable, Holds, EntryRec
  <2>3. mem'.entries[i] = CHOOSE t \in Term : Holds(recs, i, t)
    BY <1>2, <2>1, <2>2 DEF ReplayedEntries
  <2>4. Holds(recs, i, mem'.entries[i])
    BY <2>1, <2>2, <2>3
  <2>. QED BY <2>2, <2>4, HoldsOnce DEF IInv, TypeOK, Positions
<1>11. Positions' /\ ActiveExists' /\ Durable'
  BY <1>1 DEF IInv, Positions, ActiveExists, Durable
<1>12. OpSpares' /\ OpOnDisk' /\ PurgeFolded' /\ BatchBelowLast'
  BY <1>1 DEF IInv, OpSpares, OpOnDisk, PurgeFolded, BatchBelowLast, Written
<1>. QED BY <1>8, <1>9, <1>10, <1>11, <1>12 DEF IInv

-----------------------------------------------------------------------------
(* The theorems                                                            *)

\* The empty log satisfies the invariant.
LEMMA InitIInv == ASSUME Init PROVE IInv
<1>1. 1 \in Index /\ NoEntries \in Log
      /\ EmptyState \in [entries : Log, last_purged : Pointer, committed : Pointer]
  BY MaxIndexAssumption, MaxTermAssumption
     DEF Index, NoEntries, Log, EmptyState, Pointer
<1>2. TypeOK
  BY <1>1 DEF Init, TypeOK
<1>3. \A i \in Index : promised[i] = 0 /\ mem.entries[i] = 0
  BY DEF Init, NoEntries, EmptyState
<1>4. Positions /\ ActiveExists
  BY DEF Init, Positions, ActiveExists
<1>5. Durable /\ OpSpares /\ OpOnDisk /\ RamOnDisk /\ PurgeFolded /\ BatchBelowLast
      /\ RamHasPromised
  BY <1>3 DEF Init, Durable, OpSpares, OpOnDisk, RamOnDisk, PurgeFolded,
              BatchBelowLast, RamHasPromised, Written, NoCall
<1>. QED BY <1>2, <1>4, <1>5 DEF IInv

\* Every step of the log preserves the invariant.
LEMMA NextIInv == ASSUME IInv, [Next]_vars PROVE IInv'
<1>1. CASE UNCHANGED vars
  BY <1>1 DEF vars, IInv, TypeOK, Positions, ActiveExists, Durable, OpSpares,
              OpOnDisk, RamOnDisk, PurgeFolded, BatchBelowLast, RamHasPromised
<1>2. ASSUME NEW n \in 1 .. MaxBatch, NEW t \in Term, append_entries(n, t)
      PROVE  IInv'
  <2>. DEFINE lo == LastLogIndex + 1
  <2>1. lo \in Index /\ lo + n - 1 \in Index
    BY <1>2, LastLogIndexType, MaxIndexAssumption, MaxBatchAssumption
       DEF append_entries, IInv, Index, Pointer
  <2>2. EntryRec(lo, t) \in Calls
    BY <2>1 DEF EntryRec, Calls
  <2>3. Begin(EntryRec(lo, t), lo + n - 1)
    BY <1>2 DEF append_entries, EntryRec
  <2>. QED BY <2>1, <2>2, <2>3, BeginStep
<1>3. ASSUME NEW i \in Index, truncate_from(i)
      PROVE  IInv'
  BY <1>3, BeginStep DEF truncate_from, Calls
<1>4. ASSUME NEW i \in Index, purge(i)
      PROVE  IInv'
  BY <1>4, BeginStep DEF purge, Calls
<1>5. ASSUME NEW i \in Index, save_committed(i)
      PROVE  IInv'
  BY <1>5, BeginStep DEF save_committed, Calls
<1>. QED
  BY <1>1, <1>2, <1>3, <1>4, <1>5, RotateStep, RotateCheckpointStep, FoldStep,
     NextOfBatchStep, SyncStep, UnlinkStep, PurgeDoneStep, CrashStep, OpenStep
     DEF Next

\* The invariant is inductive.
THEOREM Inductive == Spec => []IInv
BY InitIInv, NextIInv, PTL DEF Spec

\* The variables of the write-ahead log keep their types.
THEOREM TypeCorrect == Spec => []TypeOK
<1>1. IInv => TypeOK
  BY DEF IInv
<1>. QED BY <1>1, Inductive, PTL

\* Wherever the power fails, replay finds every acknowledged entry that no
\* later call truncated or purged, and RAM has it, also after recovery (wal.rs:
\* append, rotate, purge, open).
THEOREM NoPromiseLost == Spec => []NoLoss
<1>1. IInv => NoLoss
  <2>. SUFFICES ASSUME IInv, NEW i \in Index, promised[i] # 0, NEW k \in synced .. pos
                PROVE  Holds(Remains(k), i, promised[i])
    BY DEF NoLoss, IInv
  <2>1. PICK r \in recs : /\ r.rec = EntryRec(i, promised[i])
                          /\ r.pos <= synced
                          /\ \A q \in recs : q.pos > r.pos => ~Voids(q.rec, i)
    BY DEF IInv, Durable
  <2>2. r \in Remains(k)
    BY <2>1 DEF Remains, IInv, TypeOK, Frame
  <2>. QED BY <2>1, <2>2 DEF Holds, Remains, EntryRec
<1>. QED BY <1>1, Inductive, PTL

-----------------------------------------------------------------------------
(* Replay finds nothing that RAM does not have                             *)

\* What RInv needs to know about positions, segments and the current call.
LEMMA DiskFacts ==
  ASSUME IInv
  PROVE  /\ recs \subseteq Frame /\ pos \in Nat
         /\ \A r \in recs : r.pos \in Nat /\ r.seg \in Nat /\ r.rec \in WalRecord /\ r.pos <= pos
         /\ \A q, r \in recs : q.pos = r.pos => q = r
         /\ Active \in files /\ Active \in Nat
         /\ \A s \in files : s \in Nat /\ s <= Active
BY ActiveFacts DEF IInv, TypeOK, Positions, Frame

\* A step that leaves the files, the records and RAM alone.
LEMMA SameReplay ==
  ASSUME RInv, UNCHANGED <<recs, files, mem>>,
         pc = "down" => pc' = "down",
         pc \in Written => pc' \in Written /\ op' = op
  PROVE  RInv'
<1>1. Active' = Active
  BY DEF Active
<1>2. SegmentOrder'
  BY DEF RInv, SegmentOrder
<1>3. \A r : GapBehind(r)' <=> GapBehind(r)
  BY <1>1 DEF GapBehind
<1>4. \A r, i : Standing(r, i)' <=> Standing(r, i)
  BY DEF Standing
<1>5. FoundInRam'
  BY <1>3, <1>4 DEF RInv, FoundInRam
<1>6. \A k, v : SetBy(k, v)' <=> SetBy(k, v)
  BY DEF SetBy
<1>7. Whole' <=> Whole
  BY <1>1 DEF Whole
<1>8. \A k : Pending(k) => Pending(k)'
  BY DEF Pending
<1>9. PointersSet'
  BY <1>6, <1>7, <1>8 DEF RInv, PointersSet
<1>. QED BY <1>2, <1>5, <1>9 DEF RInv

\* One more record behind the others.
LEMMA RecordAdded ==
  ASSUME IInv, RInv, NEW f \in Frame, f.pos = pos + 1, f.seg = Active,
         recs' = recs \cup {f}, files' = files
  PROVE  /\ SegmentOrder'
         /\ Active' = Active
         /\ \A r : GapBehind(r)' <=> GapBehind(r)
         /\ Whole' <=> Whole
         /\ \A q \in recs : q.pos < f.pos
         /\ \A r \in recs : \A i : Standing(r, i)' => Standing(r, i) /\ ~Voids(f.rec, i)
         /\ \A k, v : SetBy(k, v) /\ f.rec.kind # k => SetBy(k, v)'
<1>1. Active' = Active
  BY DEF Active
<1>2. \A q \in recs : q.pos < f.pos
  BY DiskFacts
<1>3. SegmentOrder'
  <2>1. \A r \in recs' : r.seg \in files
    BY DiskFacts DEF RInv, SegmentOrder
  <2>2. ASSUME NEW q \in recs', NEW r \in recs', q.pos < r.pos
        PROVE  q.seg <= r.seg
    <3>1. CASE r = f
      BY <2>1, <3>1, DiskFacts
    <3>2. CASE r # f /\ q = f
      BY <1>2, <2>2, <3>2, DiskFacts DEF Frame
    <3>3. CASE r # f /\ q # f
      BY <2>2, <3>3 DEF RInv, SegmentOrder
    <3>. QED BY <3>1, <3>2, <3>3
  <2>. QED BY <2>1, <2>2 DEF SegmentOrder
<1>4. \A r : GapBehind(r)' <=> GapBehind(r)
  BY <1>1 DEF GapBehind
<1>5. Whole' <=> Whole
  BY <1>1 DEF Whole
<1>6. ASSUME NEW r \in recs, NEW i, Standing(r, i)'
      PROVE  Standing(r, i) /\ ~Voids(f.rec, i)
  <2>1. f.pos > r.pos
    BY <1>2, DiskFacts DEF Frame
  <2>. QED BY <1>6, <2>1 DEF Standing
<1>7. ASSUME NEW k, NEW v, SetBy(k, v), f.rec.kind # k
      PROVE  SetBy(k, v)'
  BY <1>7 DEF SetBy
<1>. QED BY <1>1, <1>2, <1>3, <1>4, <1>5, <1>6, <1>7

\* The record of a call, or of the next entry of a batch, is written.
LEMMA CallReplay ==
  ASSUME IInv, RInv, NEW r \in Calls, Write(r), pc \in {"idle", "batch"}, pc' = "written",
         op' = r, UNCHANGED <<files, mem>>
  PROVE  RInv'
<1>1. PICK f \in Frame : f.pos = pos + 1 /\ f.rec = r /\ f.seg = Active /\ recs' = recs \cup {f}
  BY WriteFacts DEF IInv, WalRecord
<1>2. FoundInRam'
  <2>. SUFFICES ASSUME NEW e \in recs', e.rec.kind = "Entry", Standing(e, e.rec.index)', e # f
                PROVE  mem.entries[e.rec.index] = e.rec.term \/ GapBehind(e)'
    BY <1>1 DEF FoundInRam, Written
  <2>1. e \in recs /\ Standing(e, e.rec.index)
    BY <1>1, RecordAdded
  <2>2. mem.entries[e.rec.index] = e.rec.term \/ GapBehind(e)
    BY <2>1 DEF RInv, FoundInRam, Written
  <2>. QED BY <1>1, <2>2, RecordAdded
<1>3. PointersSet'
  <2>. SUFFICES ASSUME Whole
                PROVE  PointersSet'
    BY <1>1, RecordAdded DEF PointersSet
  <2>1. \A c \in recs' : c.rec.kind = "Checkpoint" =>
         /\ c.rec.last_purged # 0 => \E q \in recs' : q.pos < c.pos /\ q.rec.kind = "Purge"
         /\ c.rec.committed # 0 => \E q \in recs' : q.pos < c.pos /\ q.rec.kind = "Committed"
    BY <1>1 DEF RInv, PointersSet, Calls
  <2>2. SetBy("Purge", mem.last_purged) /\ SetBy("Committed", mem.committed)
    BY DEF RInv, PointersSet, Pending, Written
  <2>3. ASSUME NEW k, ~Pending(k)'
        PROVE  f.rec.kind # k
    BY <1>1, <2>3 DEF Pending, Written
  <2>4. \A k, v : SetBy(k, v) /\ f.rec.kind # k => SetBy(k, v)'
    BY <1>1, RecordAdded
  <2>. QED BY <2>1, <2>2, <2>3, <2>4 DEF PointersSet
<1>4. SegmentOrder'
  BY <1>1, RecordAdded
<1>. QED BY <1>2, <1>3, <1>4 DEF RInv

\* A new segment moves the active one up; what is missing stays missing.
LEMMA RotateReplay == ASSUME IInv, RInv, Rotate PROVE RInv'
<1>1. /\ pc = "written" /\ pc' = "rotating" /\ files' = files \cup {Active + 1}
      /\ UNCHANGED <<recs, mem, op>>
  BY DEF Rotate
<1>2. Active' = Active + 1
  <2>1. \A s \in files' : s \in Nat /\ s <= Active + 1
    BY <1>1, DiskFacts
  <2>2. Active' \in files' /\ \A s \in files' : s <= Active'
    <3>1. ActiveExists'
      BY <1>1, <2>1, DiskFacts DEF ActiveExists
    <3>. QED BY <3>1 DEF ActiveExists, Active
  <2>3. Active + 1 \in files' /\ Active \in Nat
    BY <1>1, DiskFacts
  <2>. QED BY <2>1, <2>2, <2>3
<1>3. SegmentOrder'
  BY <1>1 DEF RInv, SegmentOrder
<1>4. ASSUME NEW r \in recs, GapBehind(r)
      PROVE  GapBehind(r)'
  <2>1. PICK u \in r.seg .. Active : u \notin files
    BY <1>4 DEF GapBehind
  <2>2. u \in r.seg .. Active + 1 /\ u # Active + 1
    BY DiskFacts
  <2>. QED BY <1>1, <1>2, <2>1, <2>2 DEF GapBehind
<1>5. \A r, i : Standing(r, i)' <=> Standing(r, i)
  BY <1>1 DEF Standing
<1>6. FoundInRam'
  BY <1>1, <1>4, <1>5 DEF RInv, FoundInRam, Written
<1>7. Whole' => Whole
  <2>. SUFFICES ASSUME Whole', NEW u \in 0 .. Active
                PROVE  u \in files
    BY DEF Whole
  <2>1. u \in 0 .. Active + 1 /\ u # Active + 1
    BY DiskFacts
  <2>. QED BY <1>1, <1>2, <2>1 DEF Whole
<1>8. \A k, v : SetBy(k, v)' <=> SetBy(k, v)
  BY <1>1 DEF SetBy
<1>9. \A k : Pending(k) <=> Pending(k)'
  BY <1>1 DEF Pending, Written
<1>10. PointersSet'
  BY <1>1, <1>7, <1>8, <1>9 DEF RInv, PointersSet
<1>. QED BY <1>3, <1>6, <1>10 DEF RInv

\* A checkpoint restates what earlier records say, while they are all there.
LEMMA CheckpointReplay == ASSUME IInv, RInv, RotateCheckpoint PROVE RInv'
<1>. DEFINE c == [kind |-> "Checkpoint", last_purged |-> mem.last_purged,
                  committed |-> mem.committed]
<1>1. /\ c \in WalRecord /\ c.kind = "Checkpoint"
      /\ c.last_purged = mem.last_purged /\ c.committed = mem.committed
  BY DEF WalRecord, IInv, TypeOK
<1>2. /\ pc = "rotating" /\ pc' = "rotated" /\ Write(c) /\ UNCHANGED <<files, mem, op>>
  BY DEF RotateCheckpoint
<1>. HIDE DEF c
<1>3. PICK f \in Frame : f.pos = pos + 1 /\ f.rec = c /\ f.seg = Active /\ recs' = recs \cup {f}
  BY <1>1, <1>2, WriteFacts DEF IInv
<1>4. FoundInRam'
  <2>. SUFFICES ASSUME NEW e \in recs', e.rec.kind = "Entry", Standing(e, e.rec.index)'
                PROVE  \/ mem.entries[e.rec.index] = e.rec.term \/ GapBehind(e)'
                       \/ e.rec = op
    BY <1>2 DEF FoundInRam, Written
  <2>1. e \in recs /\ Standing(e, e.rec.index)
    BY <1>1, <1>2, <1>3, RecordAdded
  <2>2. mem.entries[e.rec.index] = e.rec.term \/ GapBehind(e) \/ e.rec = op
    BY <1>2, <2>1 DEF RInv, FoundInRam
  <2>. QED BY <1>2, <1>3, <2>2, RecordAdded
<1>5. PointersSet'
  <2>. SUFFICES ASSUME Whole
                PROVE  PointersSet'
    BY <1>2, <1>3, RecordAdded DEF PointersSet
  <2>1. \A k : Pending(k) => \E q \in recs : q.rec.kind = k
    BY DEF Pending, IInv, OpOnDisk
  <2>2. \A k, v : SetBy(k, v) /\ v # 0 => \E q \in recs : q.rec.kind = k
    BY DEF SetBy
  <2>3. /\ mem.last_purged # 0 => \E q \in recs : q.rec.kind = "Purge"
        /\ mem.committed # 0 => \E q \in recs : q.rec.kind = "Committed"
    BY <1>2, <2>1, <2>2 DEF RInv, PointersSet
  <2>4. \A q \in recs : q.pos < f.pos
    BY <1>2, <1>3, RecordAdded
  <2>5. \A d \in recs' : d.rec.kind = "Checkpoint" =>
         /\ d.rec.last_purged # 0 => \E q \in recs' : q.pos < d.pos /\ q.rec.kind = "Purge"
         /\ d.rec.committed # 0 => \E q \in recs' : q.pos < d.pos /\ q.rec.kind = "Committed"
    BY <1>1, <1>3, <2>3, <2>4 DEF RInv, PointersSet
  <2>6. \A k : Pending(k) <=> Pending(k)'
    BY <1>2 DEF Pending, Written
  <2>7. /\ ~Pending("Purge") => SetBy("Purge", mem.last_purged)
        /\ ~Pending("Committed") => SetBy("Committed", mem.committed)
    BY <1>2 DEF RInv, PointersSet
  <2>8. \A k, v : SetBy(k, v) /\ f.rec.kind # k => SetBy(k, v)'
    BY <1>2, <1>3, RecordAdded
  <2>9. f.rec.kind # "Purge" /\ f.rec.kind # "Committed"
    BY <1>1, <1>3
  <2>. QED BY <1>2, <2>5, <2>6, <2>7, <2>8, <2>9 DEF PointersSet
<1>6. SegmentOrder'
  BY <1>2, <1>3, RecordAdded
<1>. QED BY <1>4, <1>5, <1>6 DEF RInv

\* The fold brings the entry or the pointer of the current record to RAM.
LEMMA FoldReplay == ASSUME IInv, RInv, Fold PROVE RInv'
<1>1. /\ pc \in Written /\ mem' = apply(mem, op) /\ pc' \in {"batch", "folded"}
      /\ UNCHANGED <<recs, files, op>>
  BY DEF Fold, Written
<1>2. op \in Calls
  BY <1>1 DEF IInv, OpSpares, TypeOK, Written, NoCall
<1>3. \A i \in Index : mem'.entries[i] =
        IF op.kind = "Entry" /\ op.index = i THEN op.term
        ELSE IF Voids(op, i) THEN 0 ELSE mem.entries[i]
  BY <1>1, <1>2, ApplyFacts DEF IInv, TypeOK
<1>4. /\ mem'.last_purged = IF op.kind = "Purge" THEN op.index ELSE mem.last_purged
      /\ mem'.committed = IF op.kind = "Committed" THEN op.index ELSE mem.committed
  BY <1>1, <1>2 DEF apply, Calls, IInv, TypeOK
<1>5. PICK o \in recs : /\ o.rec = op
                        /\ \A q \in recs : q.pos > o.pos => q.rec.kind = "Checkpoint"
  BY <1>1 DEF IInv, OpOnDisk
<1>6. Active' = Active
  BY <1>1 DEF Active
<1>7. SegmentOrder'
  BY <1>1 DEF RInv, SegmentOrder
<1>8. FoundInRam'
  <2>. SUFFICES ASSUME NEW e \in recs, e.rec.kind = "Entry", Standing(e, e.rec.index)'
                PROVE  mem'.entries[e.rec.index] = e.rec.term \/ GapBehind(e)'
    BY <1>1 DEF FoundInRam
  <2>1. e.rec.index \in Index /\ e.rec \in WalRecord
    BY DiskFacts DEF WalRecord, Calls
  <2>2. CASE e = o
    BY <1>3, <1>5, <2>1, <2>2
  <2>3. CASE e # o
    <3>1. o.pos > e.pos
      BY <1>5, <2>3, DiskFacts
    <3>2. ~Voids(op, e.rec.index)
      BY <1>1, <1>5, <3>1 DEF Standing
    <3>3. e.rec # op
      BY <3>2 DEF Voids
    <3>4. mem'.entries[e.rec.index] = mem.entries[e.rec.index]
      BY <1>3, <2>1, <3>2 DEF Voids
    <3>5. mem.entries[e.rec.index] = e.rec.term \/ GapBehind(e)
      BY <1>1, <3>3 DEF RInv, FoundInRam, Standing, Written
    <3>. QED BY <1>1, <1>6, <3>4, <3>5 DEF GapBehind
  <2>. QED BY <2>2, <2>3
<1>9. PointersSet'
  <2>1. Whole' <=> Whole
    BY <1>1, <1>6 DEF Whole
  <2>2. \A k, v : SetBy(k, v)' <=> SetBy(k, v)
    BY <1>1 DEF SetBy
  <2>3. ASSUME NEW k, op.kind = k, k # "Checkpoint"
        PROVE  SetBy(k, op.index)
    <3>1. \A q \in recs : q.rec.kind = k => q.pos <= o.pos
      BY <1>5, <2>3, DiskFacts
    <3>. QED BY <1>5, <2>3, <3>1 DEF SetBy
  <2>4. ASSUME Whole
        PROVE  SetBy("Purge", mem'.last_purged) /\ SetBy("Committed", mem'.committed)
    <3>1. CASE op.kind = "Purge"
      BY <1>1, <1>4, <2>3, <2>4, <3>1 DEF RInv, PointersSet, Pending, Written
    <3>2. CASE op.kind = "Committed"
      BY <1>1, <1>4, <2>3, <2>4, <3>2 DEF RInv, PointersSet, Pending, Written
    <3>3. CASE op.kind \notin {"Purge", "Committed"}
      BY <1>1, <1>4, <2>4, <3>3 DEF RInv, PointersSet, Pending, Written
    <3>. QED BY <3>1, <3>2, <3>3
  <2>. QED BY <1>1, <2>1, <2>2, <2>4 DEF RInv, PointersSet
<1>. QED BY <1>7, <1>8, <1>9 DEF RInv

\* An entry that loses what voided it keeps the gap behind it: the segments
\* that follow it in the record order follow it in number.
LEMMA UnlinkReplay == ASSUME IInv, RInv, Unlink PROVE RInv'
<1>1. PICK s \in files : /\ Removable(s)
                         /\ files' = files \ {s}
                         /\ recs' = {r \in recs : r.seg # s}
  BY DEF Unlink
<1>2. pc = "gc" /\ UNCHANGED <<mem, pc, op>>
  BY DEF Unlink
<1>3. s # Active /\ s \in Nat /\ s < Active
  BY <1>1, DiskFacts DEF Removable
<1>4. Active' = Active
  <2>1. Active \in files' /\ \A t \in files' : t \in Nat /\ t <= Active
    BY <1>1, <1>3, DiskFacts
  <2>2. Active' \in files' /\ \A t \in files' : t <= Active'
    BY <2>1 DEF Active
  <2>. QED BY <2>1, <2>2
<1>5. SegmentOrder'
  BY <1>1 DEF RInv, SegmentOrder
<1>6. FoundInRam'
  <2>. SUFFICES ASSUME NEW e \in recs', e.rec.kind = "Entry", Standing(e, e.rec.index)',
                       mem.entries[e.rec.index] # e.rec.term
                PROVE  GapBehind(e)'
    BY <1>2 DEF FoundInRam
  <2>1. e \in recs /\ e.seg \in Nat
    BY <1>1, DiskFacts
  <2>2. CASE Standing(e, e.rec.index)
    <3>1. GapBehind(e)
      BY <1>2, <2>1, <2>2 DEF RInv, FoundInRam, Written
    <3>. QED BY <1>1, <1>4, <3>1 DEF GapBehind
  <2>3. CASE ~Standing(e, e.rec.index)
    <3>1. PICK q \in recs : q.pos > e.pos /\ Voids(q.rec, e.rec.index)
      BY <2>3 DEF Standing
    <3>2. q \notin recs'
      BY <3>1 DEF Standing
    <3>3. q.seg = s
      BY <1>1, <3>2
    <3>4. e.seg <= s
      BY <2>1, <3>1, <3>3, DiskFacts DEF RInv, SegmentOrder
    <3>5. s \in e.seg .. Active
      BY <1>3, <2>1, <3>4, DiskFacts
    <3>. QED BY <1>1, <1>4, <3>5 DEF GapBehind
  <2>. QED BY <2>2, <2>3
<1>7. ~Whole'
  <2>1. s \in 0 .. Active'
    BY <1>3, <1>4, DiskFacts
  <2>. QED BY <1>1, <2>1 DEF Whole
<1>. QED BY <1>5, <1>6, <1>7 DEF RInv, PointersSet

\* A power loss leaves a prefix of the records.
LEMMA CrashReplay == ASSUME IInv, RInv, Crash PROVE RInv'
<1>1. PICK k \in synced .. pos : recs' = {r \in recs : r.pos <= k}
  BY DEF Crash, Remains
<1>2. pc' = "down" /\ files' = files
  BY DEF Crash
<1>3. SegmentOrder'
  BY <1>1, <1>2 DEF RInv, SegmentOrder
<1>4. Whole' => Whole
  BY <1>2 DEF Whole, Active
<1>5. \A c \in recs', r \in recs : r.pos < c.pos => r \in recs'
  BY <1>1, DiskFacts DEF IInv, TypeOK
<1>6. PointersSet'
  BY <1>1, <1>2, <1>4, <1>5 DEF RInv, PointersSet
<1>. QED BY <1>2, <1>3, <1>6 DEF RInv, FoundInRam

\* While every segment is there, replay finds the last pointers that were set.
LEMMA ReplayedPointers ==
  ASSUME IInv, RInv, Whole
  PROVE  SetBy("Purge", ReplayedPurge(recs)) /\ SetBy("Committed", ReplayedCommit(recs))
<1>1. SetBy("Purge", ReplayedPurge(recs))
  <2>. DEFINE P == {r \in recs : r.rec.kind = "Purge"}
              H == {r \in recs : r.rec.kind = "Checkpoint" /\ r.rec.last_purged # 0}
  <2>1. CASE P = {}
    <3>1. H = {}
      BY <2>1 DEF RInv, PointersSet
    <3>. QED BY <2>1, <3>1 DEF ReplayedPurge, SetBy
  <2>2. CASE P # {}
    <3>1. Latest(P) \in P /\ \A q \in P : q.pos <= Latest(P).pos
      BY <2>2, LatestFacts, DiskFacts
    <3>2. ReplayedPurge(recs) = Latest(P).rec.index
      BY <2>2 DEF ReplayedPurge
    <3>. QED BY <3>1, <3>2 DEF SetBy
  <2>. QED BY <2>1, <2>2
<1>2. SetBy("Committed", ReplayedCommit(recs))
  <2>. DEFINE C == {r \in recs : r.rec.kind = "Committed"}
              H == {r \in recs : r.rec.kind = "Checkpoint" /\ r.rec.committed # 0}
  <2>1. CASE C = {}
    <3>1. H = {}
      BY <2>1 DEF RInv, PointersSet
    <3>. QED BY <2>1, <3>1 DEF ReplayedCommit, SetBy
  <2>2. CASE C # {}
    <3>1. Latest(C) \in C /\ \A q \in C : q.pos <= Latest(C).pos
      BY <2>2, LatestFacts, DiskFacts
    <3>2. ReplayedCommit(recs) = Latest(C).rec.index
      BY <2>2 DEF ReplayedCommit
    <3>. QED BY <3>1, <3>2 DEF SetBy
  <2>. QED BY <2>1, <2>2
<1>. QED BY <1>1, <1>2

\* A standing record of an entry is what replay makes of it.
LEMMA ReplayFinds ==
  ASSUME IInv, NEW e \in recs, e.rec.kind = "Entry", Standing(e, e.rec.index)
  PROVE  e.rec.index \in Index /\ ReplayedEntries(recs)[e.rec.index] = e.rec.term
<1>. DEFINE i == e.rec.index
            t == e.rec.term
<1>1. i \in Index /\ t \in Term /\ e.rec = EntryRec(i, t)
  BY DiskFacts DEF WalRecord, Calls, EntryRec
<1>2. Holds(recs, i, t)
  BY <1>1 DEF Holds, Standing, EntryRec
<1>3. ReplayedEntries(recs)[i] = CHOOSE u \in Term : Holds(recs, i, u)
  BY <1>1, <1>2 DEF ReplayedEntries
<1>4. Holds(recs, i, ReplayedEntries(recs)[i])
  BY <1>1, <1>2, <1>3
<1>. HIDE DEF i, t
<1>5. ReplayedEntries(recs)[i] = t
  BY <1>1, <1>2, <1>4, HoldsOnce, DiskFacts
<1>. QED BY <1>1, <1>5 DEF i, t

\* Recovery brings to RAM what replay finds.
LEMMA OpenReplay == ASSUME IInv, RInv, open PROVE RInv'
<1>1. /\ pc' = "idle" /\ mem' = Replay(recs) /\ UNCHANGED <<recs, files, op>>
  BY DEF open
<1>2. /\ mem'.entries = ReplayedEntries(recs)
      /\ mem'.last_purged = ReplayedPurge(recs) /\ mem'.committed = ReplayedCommit(recs)
  BY <1>1 DEF Replay
<1>3. SegmentOrder'
  BY <1>1 DEF RInv, SegmentOrder
<1>4. FoundInRam'
  BY <1>1, <1>2, ReplayFinds DEF FoundInRam, Standing
<1>5. Whole' => Whole
  BY <1>1 DEF Whole, Active
<1>6. \A k, v : SetBy(k, v)' <=> SetBy(k, v)
  BY <1>1 DEF SetBy
<1>7. PointersSet'
  BY <1>1, <1>2, <1>5, <1>6, ReplayedPointers DEF RInv, PointersSet
<1>. QED BY <1>3, <1>4, <1>7 DEF RInv

\* Every step keeps both directions.
LEMMA NextReplay == ASSUME IInv, RInv, [Next]_vars PROVE RInv'
<1>1. CASE UNCHANGED vars
  BY <1>1, SameReplay DEF vars
<1>2. ASSUME NEW r \in Calls, NEW hi, Begin(r, hi)
      PROVE  RInv'
  BY <1>2, CallReplay DEF Begin
<1>3. ASSUME NEW n \in 1 .. MaxBatch, NEW t \in Term, append_entries(n, t)
      PROVE  RInv'
  <2>. DEFINE lo == LastLogIndex + 1
  <2>1. lo \in Index
    BY <1>3, LastLogIndexType, MaxIndexAssumption, MaxBatchAssumption
       DEF append_entries, IInv, Index, Pointer
  <2>2. EntryRec(lo, t) \in Calls
    BY <2>1 DEF EntryRec, Calls
  <2>. QED BY <1>2, <1>3, <2>2 DEF append_entries, EntryRec
<1>4. ASSUME NEW i \in Index, truncate_from(i) \/ purge(i) \/ save_committed(i)
      PROVE  RInv'
  BY <1>2, <1>4 DEF truncate_from, purge, save_committed, Calls
<1>5. CASE NextOfBatch
  <2>1. op \in Calls /\ op.kind = "Entry" /\ op.index < last
    BY <1>5 DEF NextOfBatch, IInv, OpSpares, TypeOK, BatchBelowLast
  <2>2. op.index \in Index /\ op.index + 1 \in Index
    BY <2>1, MaxIndexAssumption DEF Calls, IInv, TypeOK, Index
  <2>3. op' = [op EXCEPT !.index = op.index + 1]
    BY <1>5 DEF NextOfBatch
  <2>4. op' \in Calls
    BY <2>1, <2>2, <2>3 DEF Calls
  <2>. QED BY <1>5, <2>4, CallReplay DEF NextOfBatch
<1>6. CASE Sync \/ PurgeDone
  <2>1. /\ UNCHANGED <<recs, files, mem>> /\ pc \notin Written /\ pc # "down"
    BY <1>6 DEF Sync, PurgeDone, Written
  <2>. QED BY <2>1, SameReplay
<1>. QED
  BY <1>1, <1>3, <1>4, <1>5, <1>6, RotateReplay, CheckpointReplay, FoldReplay,
     UnlinkReplay, CrashReplay, OpenReplay
     DEF Next

\* Between calls replay gives what is in RAM, if no segment is missing in
\* between (entries) or at all (pointers).
LEMMA ExactBetweenCalls == ASSUME IInv, RInv PROVE ReplayExact
<1>. SUFFICES ASSUME pc = "idle"
              PROVE  /\ Contiguous => ReplayedEntries(recs) = mem.entries
                     /\ Whole => /\ ReplayedPurge(recs) = mem.last_purged
                                 /\ ReplayedCommit(recs) = mem.committed
  BY DEF ReplayExact
<1>1. ASSUME Contiguous
      PROVE  ReplayedEntries(recs) = mem.entries
  <2>1. \A r \in recs : ~GapBehind(r)
    BY <1>1, DiskFacts DEF GapBehind, Contiguous, RInv, SegmentOrder
  <2>2. ASSUME NEW i \in Index
        PROVE  ReplayedEntries(recs)[i] = mem.entries[i]
    <3>1. CASE mem.entries[i] # 0
      <4>1. PICK e \in recs : e.rec = EntryRec(i, mem.entries[i]) /\ Standing(e, i)
        BY <3>1 DEF IInv, RamOnDisk, Holds, Written, Standing, EntryRec
      <4>2. e.rec.kind = "Entry" /\ e.rec.index = i /\ e.rec.term = mem.entries[i]
        BY <4>1 DEF EntryRec
      <4>. QED BY <4>1, <4>2, ReplayFinds
    <3>2. CASE mem.entries[i] = 0
      <4>. SUFFICES ASSUME NEW t \in Term, Holds(recs, i, t)
                    PROVE  FALSE
        BY <3>2 DEF ReplayedEntries
      <4>1. PICK e \in recs : e.rec = EntryRec(i, t) /\ Standing(e, i)
        BY DEF Holds, Standing, EntryRec
      <4>2. e.rec.kind = "Entry" /\ e.rec.index = i /\ e.rec.term = t
        BY <4>1 DEF EntryRec
      <4>3. mem.entries[i] = t
        BY <2>1, <4>1, <4>2 DEF RInv, FoundInRam, Written
      <4>. QED BY <3>2, <4>3 DEF Term
    <3>. QED BY <3>1, <3>2
  <2>3. mem.entries \in [Index -> 0 .. MaxTerm]
    BY DEF IInv, TypeOK, Log
  <2>. QED BY <2>2, <2>3 DEF ReplayedEntries
<1>2. ASSUME NEW k, NEW v, NEW w, SetBy(k, v), SetBy(k, w)
      PROVE  v = w
  BY <1>2, DiskFacts DEF SetBy
<1>3. ASSUME Whole
      PROVE  ReplayedPurge(recs) = mem.last_purged /\ ReplayedCommit(recs) = mem.committed
  <2>1. SetBy("Purge", mem.last_purged) /\ SetBy("Committed", mem.committed)
    BY <1>3 DEF RInv, PointersSet, Pending, Written
  <2>. QED BY <1>2, <1>3, <2>1, ReplayedPointers
<1>. QED BY <1>1, <1>3

\* Between calls the files replay to exactly what RAM holds: nothing that was
\* truncated or purged comes back, wherever the power failed, while the segments
\* are contiguous (wal.rs: open, rotate, purge).
THEOREM ReplaysExactly == Spec => []ReplayExact
<1>1. Init => RInv
  <2>. SUFFICES ASSUME Init PROVE RInv
    OBVIOUS
  <2>1. recs = {} /\ mem.last_purged = 0 /\ mem.committed = 0
    BY DEF Init, EmptyState
  <2>. QED BY <2>1 DEF RInv, SegmentOrder, FoundInRam, PointersSet, SetBy
<1>2. IInv /\ RInv /\ [Next]_vars => RInv'
  BY NextReplay
<1>3. IInv /\ RInv => ReplayExact
  BY ExactBetweenCalls
<1>. QED BY <1>1, <1>2, <1>3, Inductive, PTL DEF Spec

-----------------------------------------------------------------------------
(* The vote file                                                           *)
(*                                                                         *)
(* A raft member votes once per term until a directory sync fails, for     *)
(* any number of terms, candidates and power losses.  OneVotePerTerm needs *)
(* that no answered vote is newer than the stable file (AnsweredStable),   *)
(* and that the vote on its way to the file was granted against exactly    *)
(* that file (Progress).                                                   *)


\* The request, the cache and the file at each step, whatever a directory
\* sync does.
Progress ==
  /\ vpc \in {"tmp", "renamed", "synced"} => req \in Ballot
  /\ vpc = "idle" => vote = file
  /\ vpc = "tmp" => vote = file
  /\ vpc \in {"renamed", "synced"} => file = req

\* b may follow the stored vote s.
Follows(b, s) == b.term > s.term \/ b = s

\* Every answered vote is at or below the stable vote.
AnsweredStable == ~skipped => \A a \in answered : Follows(stable, a)

\* When directory syncs succeed, only a renamed file is ahead of the stable
\* one, and the vote on its way was granted against the stable one.
StableFile ==
  ~skipped => /\ vpc # "renamed" => file = stable
              /\ vpc \in {"tmp", "renamed"} => Follows(req, stable)

VoteInv == VoteTypeOK /\ Progress /\ OneVotePerTerm /\ AnsweredStable /\ StableFile

\* The terms of stored votes are numbers.
LEMMA Terms == \A s \in Stored : s.term \in Int
BY MaxVoteTermAssumption DEF Ballot, Stored, None

\* Follows is transitive.
LEMMA FollowsTransitive ==
  ASSUME NEW a \in Stored, NEW b \in Stored, NEW c \in Stored,
         Follows(a, b), Follows(b, c)
  PROVE  Follows(a, c)
BY Terms DEF Follows

\* Every step keeps types and Progress.
LEMMA ProgressStep ==
  ASSUME VoteTypeOK, Progress, [VoteNext]_vote_vars
  PROVE  VoteTypeOK' /\ Progress'
<1>. USE DEF VoteTypeOK, Progress
<1>1. ASSUME NEW b \in Ballot, save_vote(b) PROVE VoteTypeOK' /\ Progress'
  BY <1>1 DEF save_vote, Stored
<1>2. CASE Rename
  BY <1>2 DEF Rename
<1>3. CASE DirSync
  BY <1>3 DEF DirSync
<1>4. CASE Answer
  BY <1>4 DEF Answer, Stored
<1>5. CASE Fail
  BY <1>5 DEF Fail, Stored
<1>6. CASE PowerLoss
  BY <1>6 DEF PowerLoss, Stored
<1>7. CASE open_vote
  BY <1>7 DEF open_vote
<1>8. CASE UNCHANGED vote_vars
  BY <1>8 DEF vote_vars
<1>. QED BY <1>1, <1>2, <1>3, <1>4, <1>5, <1>6, <1>7, <1>8 DEF VoteNext

\* Types and Progress hold whether or not directory syncs fail.
THEOREM VoteProgress == VoteSpec => [](VoteTypeOK /\ Progress)
<1>1. VoteInit => VoteTypeOK /\ Progress
  BY DEF VoteInit, VoteTypeOK, Progress, Stored
<1>. QED BY <1>1, ProgressStep, PTL DEF VoteSpec

\* The variables of the vote file keep their types.
THEOREM VoteTypeCorrect == VoteSpec => []VoteTypeOK
BY VoteProgress, PTL

\* Between two calls the core reads what the vote file holds (wal.rs:
\* save_vote caches the vote last, open reads it back).
THEOREM CacheAgrees == VoteSpec => []CacheIsFile
<1>1. Progress => CacheIsFile
  BY DEF Progress, CacheIsFile
<1>. QED BY <1>1, VoteProgress, PTL

\* Every step keeps the invariant.
LEMMA VoteInvStep ==
  ASSUME VoteInv, [VoteNext]_vote_vars
  PROVE  VoteInv'
<1>1. VoteTypeOK' /\ Progress'
  BY ProgressStep DEF VoteInv
<1>. SUFFICES ASSUME ~skipped'
             PROVE  OneVotePerTerm' /\ AnsweredStable' /\ StableFile'
  BY <1>1 DEF VoteInv, OneVotePerTerm, AnsweredStable, StableFile
<1>0. ~skipped
  BY DEF VoteNext, vote_vars, save_vote, Rename, DirSync, Answer, Fail, PowerLoss, open_vote
<1>. USE <1>0
<1>. USE DEF VoteInv, OneVotePerTerm, AnsweredStable, StableFile
<1>2. ASSUME NEW b \in Ballot, save_vote(b)
      PROVE  OneVotePerTerm' /\ AnsweredStable' /\ StableFile'
  BY <1>2 DEF save_vote, Grants, Progress, Follows
<1>3. CASE Rename
  BY <1>3 DEF Rename
<1>4. CASE DirSync
  <2>1. /\ stable' = req /\ file' = req /\ vpc' = "synced" /\ answered' = answered
        /\ req' = req /\ Follows(req, stable)
    BY <1>4 DEF DirSync, Progress
  <2>2. ASSUME NEW a \in answered
        PROVE  Follows(req, a)
    <3>1. a \in Stored /\ req \in Stored /\ stable \in Stored
      BY DEF VoteTypeOK, Stored
    <3>. QED BY <2>1, <3>1, FollowsTransitive
  <2>. QED BY <2>1, <2>2
<1>5. CASE Answer
  <2>1. stable = req /\ stable' = req /\ file' = req /\ vpc' = "idle"
        /\ answered' = answered \cup {req}
    BY <1>5 DEF Answer, Progress
  <2>2. ASSUME NEW a \in answered, a.term = req.term
        PROVE  a = req
    <3>1. a \in Stored /\ req \in Stored
      BY DEF VoteTypeOK, Stored
    <3>. QED BY <2>1, <2>2, <3>1, Terms DEF Follows
  <2>. QED BY <2>1, <2>2 DEF Follows
<1>6. CASE Fail
  BY <1>6 DEF Fail
<1>7. CASE PowerLoss
  <2>1. file' \in {file, stable} /\ stable' = file' /\ vpc' = "down" /\ answered' = answered
    BY <1>7 DEF PowerLoss
  <2>2. ASSUME NEW a \in answered
        PROVE  Follows(file, a)
    <3>1. a \in Stored /\ file \in Stored /\ stable \in Stored
      BY DEF VoteTypeOK, Stored
    <3>2. Follows(file, stable)
      BY DEF Progress, Follows
    <3>. QED BY <3>1, <3>2, FollowsTransitive
  <2>. QED BY <2>1, <2>2
<1>8. CASE open_vote
  BY <1>8 DEF open_vote
<1>9. CASE UNCHANGED vote_vars
  BY <1>9 DEF vote_vars
<1>. QED BY <1>2, <1>3, <1>4, <1>5, <1>6, <1>7, <1>8, <1>9 DEF VoteNext

\* A member answers at most one candidate per term, wherever in save_vote
\* the power fails, until a directory sync fails.
THEOREM VotesOnce == VoteSpec => []OneVotePerTerm
<1>1. VoteInit => VoteInv
  BY DEF VoteInit, VoteInv, VoteTypeOK, Progress, Stored, OneVotePerTerm, AnsweredStable, StableFile
<1>2. VoteInv /\ [VoteNext]_vote_vars => VoteInv'
  BY VoteInvStep
<1>3. VoteInv => OneVotePerTerm
  BY DEF VoteInv
<1>. QED BY <1>1, <1>2, <1>3, PTL DEF VoteSpec

-----------------------------------------------------------------------------
(* The store as a whole                                                    *)

\* A log store is a write-ahead log and a vote file that leave each other alone,
\* so each of them keeps what it promises in the store (WalLogStore).
THEOREM StoreKeepsBoth ==
  StoreSpec => [](NoLoss /\ ReplayExact /\ OneVotePerTerm /\ CacheIsFile)
<1>1. StoreSpec => Spec
  <2>1. StoreInit => Init
    BY DEF StoreInit
  <2>2. [StoreNext]_<<vars, vote_vars, snapshot_vars>> => [Next]_vars
    BY DEF StoreNext
  <2>. QED BY <2>1, <2>2, PTL DEF StoreSpec, Spec
<1>2. StoreSpec => VoteSpec
  <2>1. StoreInit => VoteInit
    BY DEF StoreInit
  <2>2. [StoreNext]_<<vars, vote_vars, snapshot_vars>> => [VoteNext]_vote_vars
    BY DEF StoreNext
  <2>. QED BY <2>1, <2>2, PTL DEF StoreSpec, VoteSpec
<1>. QED BY <1>1, <1>2, NoPromiseLost, ReplaysExactly, VotesOnce, CacheAgrees, PTL
=============================================================================

------------------------- MODULE ReplicationProofs -------------------------
(***************************************************************************)
(* The legacy ingestion pipeline and its followers, for any feed, any      *)
(* number of polls and followers, and channels of any capacity.  A batch   *)
(* is fetched, waits in the inbox, is held by the consumer, is queued in   *)
(* the outbox and is with the replication task, which looks for followers  *)
(* or has calls to them under way, in this order; a request whose call     *)
(* failed may be applied at any later time.  The invariant says that       *)
(*   Single    the task has one batch at a time;                           *)
(*   Ordered   the polls behind a batch are later than its own;            *)
(*   Latest    a document's value at the leader is that of the last batch  *)
(*             behind which no other has the document;                     *)
(*   Settled   a follower that differs from the leader in a document has   *)
(*             missed it, was set back in it by a late request, or has a   *)
(*             batch with it still to come.                                *)
(***************************************************************************)
EXTENDS Replication, SequenceTheorems, TLAPS

\* The polls of the batches at each place.
Polled == IF fetched = NoPoll THEN {} ELSE {fetched.poll}
Waiting == {inbox[i].poll : i \in 1 .. Len(inbox)}
Held == IF indexed.full THEN {indexed.batch.poll} ELSE {}
Queued == {outbox[i].poll : i \in 1 .. Len(outbox)}
Tasked == (IF taken.full THEN {taken.batch.poll} ELSE {}) \cup {c.batch.poll : c \in calls}

\* The polls that a follower's store has or may still get from a late request.
Past == {c.batch.poll : c \in late} \cup UNION {{replica[f][d] : d \in Feed} : f \in Followers}

NotAfter(S, T) == \A a \in S : \A b \in T : a <= b

\* The task takes a batch when the calls of the one before are back.
Single == taken.full => calls = {}

Sorted(q) == \A i, j \in 1 .. Len(q) : i <= j => q[i].poll <= q[j].poll

Ordered ==
  /\ Sorted(inbox) /\ Sorted(outbox)
  /\ NotAfter(Polled, {polls})
  /\ NotAfter(Waiting, Polled \cup {polls})
  /\ NotAfter(Held, Waiting \cup Polled \cup {polls})
  /\ NotAfter(Queued, Held \cup Waiting \cup Polled \cup {polls})
  /\ NotAfter(Tasked, Tasked \cup Queued \cup Held \cup Waiting \cup Polled \cup {polls})
  /\ \A d \in Feed : NotAfter({index[d]}, Waiting \cup Polled \cup {polls})
  /\ NotAfter(Past, Tasked \cup Queued \cup Held \cup Waiting \cup Polled \cup {polls})

\* Document d is in a batch that the outbox gets or has from position i on.
Behind(d, i) ==
  \/ indexed.full /\ d \in indexed.batch.docs
  \/ \E j \in i .. Len(outbox) : d \in outbox[j].docs

Latest ==
  /\ indexed.full => \A d \in indexed.batch.docs : indexed.batch.poll = index[d]
  /\ \A i \in 1 .. Len(outbox) : \A d \in outbox[i].docs :
       outbox[i].poll = index[d] \/ Behind(d, i + 1)
  /\ taken.full => \A d \in taken.batch.docs : taken.batch.poll = index[d] \/ Behind(d, 1)
  /\ \A c \in calls : \A d \in c.batch.docs : c.batch.poll = index[d] \/ Behind(d, 1)

Settled ==
  \A f \in Followers, d \in Feed :
    \/ Behind(d, 1)
    \/ taken.full /\ d \in taken.batch.docs
    \/ \E c \in calls : c.to = f /\ d \in c.batch.docs
    \/ d \in missed[f]
    \/ replica[f][d] = index[d]

IInv == PipelineTypeOK /\ Single /\ Ordered /\ Latest /\ Settled

-----------------------------------------------------------------------------
(* Channels                                                                *)

\* Sending puts a batch at the end of a channel.
LEMMA AppendFacts ==
  ASSUME NEW q \in Seq(Batch), NEW b \in Batch
  PROVE  /\ Append(q, b) \in Seq(Batch)
         /\ Len(Append(q, b)) = Len(q) + 1
         /\ \A i \in 1 .. Len(q) : Append(q, b)[i] = q[i]
         /\ Append(q, b)[Len(q) + 1] = b
         /\ Len(q) \in Nat
OBVIOUS

\* Receiving takes the batch at its head.
LEMMA TailFacts ==
  ASSUME NEW q \in Seq(Batch), q # <<>>
  PROVE  /\ Tail(q) \in Seq(Batch)
         /\ Len(q) \in Nat \ {0} /\ Len(Tail(q)) = Len(q) - 1
         /\ \A i \in 1 .. Len(q) - 1 : Tail(q)[i] = q[i + 1]
         /\ Head(q) = q[1] /\ Head(q) \in Batch
<1>1. Len(q) \in Nat \ {0} /\ Len(Tail(q)) = Len(q) - 1
  OBVIOUS
<1>2. Tail(q) \in Seq(Batch) /\ Head(q) = q[1] /\ Head(q) \in Batch
  OBVIOUS
<1>3. \A i \in 1 .. Len(q) - 1 : Tail(q)[i] = q[i + 1]
  OBVIOUS
<1>. QED BY <1>1, <1>2, <1>3

\* The polls in a channel are integers, so that they can be compared.
LEMMA Numbers ==
  ASSUME PipelineTypeOK
  PROVE  /\ MaxPolls \in Nat /\ polls \in Nat /\ polls \in Int
         /\ \A b \in Batch : b.poll \in Int /\ b.docs \subseteq Feed
         /\ \A i \in 1 .. Len(inbox) : inbox[i] \in Batch
         /\ \A i \in 1 .. Len(outbox) : outbox[i] \in Batch
         /\ indexed.batch \in Batch /\ fetched \in Batch /\ taken.batch \in Batch
         /\ \A c \in calls \cup late : c.to \in Followers /\ c.batch \in Batch
         /\ \A d \in Feed : index[d] \in 0 .. MaxPolls /\ index[d] \in Int
         /\ \A f \in Followers, d \in Feed : replica[f][d] \in Int
         /\ Polled \cup Waiting \cup Held \cup Queued \cup Tasked \cup Past \subseteq Int
<1>1. /\ MaxPolls \in Nat /\ polls \in Nat /\ polls \in Int
      /\ \A b \in Batch : b.poll \in Int /\ b.docs \subseteq Feed
  BY PollsAssumption DEF PipelineTypeOK, Batch
<1>2. /\ \A i \in 1 .. Len(inbox) : inbox[i] \in Batch
      /\ \A i \in 1 .. Len(outbox) : outbox[i] \in Batch
      /\ indexed.batch \in Batch /\ fetched \in Batch /\ taken.batch \in Batch
      /\ \A c \in calls \cup late : c.to \in Followers /\ c.batch \in Batch
  BY DEF PipelineTypeOK, Push
<1>3. /\ \A d \in Feed : index[d] \in 0 .. MaxPolls /\ index[d] \in Int
      /\ \A f \in Followers, d \in Feed : replica[f][d] \in Int
  BY PollsAssumption DEF PipelineTypeOK, Store
<1>4. Polled \cup Waiting \cup Held \cup Queued \cup Tasked \cup Past \subseteq Int
  BY <1>1, <1>2, <1>3 DEF Polled, Waiting, Held, Queued, Tasked, Past
<1>. QED BY <1>1, <1>2, <1>3, <1>4

\* A store that takes a batch is a store.
LEMMA UpsertFacts ==
  ASSUME NEW store \in Store, NEW b \in Batch
  PROVE  /\ Upsert(store, b) \in Store
         /\ \A d \in Feed : Upsert(store, b)[d] = IF d \in b.docs THEN b.poll ELSE store[d]
BY DEF Upsert, Store, Batch

\* The empty batch.
LEMMA EmptyFacts == NoPoll \in Batch /\ EmptyHand \in [full : {FALSE}, batch : Batch]
BY PollsAssumption DEF NoPoll, Batch, EmptyHand

-----------------------------------------------------------------------------
(* The steps                                                               *)

\* A poll that fetches documents gets a later number than every batch.
LEMMA PollStep == ASSUME IInv, NEW S \in SUBSET Feed, Poll(S) PROVE IInv'
<1>1. /\ PipelineTypeOK /\ fetched = NoPoll /\ polls' = polls + 1
      /\ fetched' = IF S = {} THEN NoPoll ELSE [docs |-> S, poll |-> polls + 1]
      /\ UNCHANGED <<inbox, index, indexed, outbox, taken, calls, late, replica, hung, dark,
                     missed>>
  BY DEF IInv, Poll
<1>2. polls' \in 0 .. MaxPolls /\ fetched' \in Batch
  BY <1>1, EmptyFacts, PollsAssumption DEF Poll, PipelineTypeOK, Batch
<1>3. PipelineTypeOK'
  BY <1>1, <1>2 DEF PipelineTypeOK
<1>4. Ordered'
  <2>1. /\ Waiting' = Waiting /\ Held' = Held /\ Queued' = Queued /\ Tasked' = Tasked /\ Past' = Past
        /\ Polled = {} /\ Polled' \subseteq {polls + 1}
    BY <1>1 DEF Waiting, Held, Queued, Tasked, Past, Polled
  <2>2. \A a \in Int : a <= polls => \A b \in Polled' \cup {polls'} : a <= b
    BY <1>1, <2>1, Numbers
  <2>3. NotAfter(Polled', {polls'})
    BY <1>1, <2>1, Numbers DEF NotAfter
  <2>4. /\ NotAfter(Waiting, Polled' \cup {polls'})
        /\ \A d \in Feed : index[d] \in Int /\ NotAfter({index[d]}, Waiting \cup Polled' \cup {polls'})
        /\ NotAfter(Held, Waiting \cup Polled' \cup {polls'})
    BY <1>1, <2>1, <2>2, Numbers DEF IInv, Ordered, NotAfter
  <2>5. /\ NotAfter(Queued, Held \cup Waiting \cup Polled' \cup {polls'})
        /\ NotAfter(Tasked, Tasked \cup Queued \cup Held \cup Waiting \cup Polled' \cup {polls'})
    BY <1>1, <2>1, <2>2, Numbers DEF IInv, Ordered, NotAfter
  <2>6. NotAfter(Past, Tasked \cup Queued \cup Held \cup Waiting \cup Polled' \cup {polls'})
    BY <1>1, <2>1, <2>2, Numbers DEF IInv, Ordered, NotAfter
  <2>. QED BY <1>1, <2>1, <2>3, <2>4, <2>5, <2>6 DEF IInv, Ordered
<1>5. Latest' /\ Settled' /\ Single'
  BY <1>1 DEF IInv, Single, Latest, Settled, Behind
<1>. QED BY <1>3, <1>4, <1>5 DEF IInv

\* The producer's batch goes to the end of the inbox.
LEMMA SendStep == ASSUME IInv, Send PROVE IInv'
<1>1. /\ PipelineTypeOK /\ fetched # NoPoll /\ inbox' = Append(inbox, fetched) /\ fetched' = NoPoll
      /\ Len(inbox) < Inbox
      /\ UNCHANGED <<polls, index, indexed, outbox, taken, calls, late, replica, hung, dark,
                     missed>>
  BY DEF IInv, Send
<1>2. /\ inbox' \in Seq(Batch) /\ Len(inbox') = Len(inbox) + 1 /\ Len(inbox) \in Nat
      /\ \A i \in 1 .. Len(inbox) : inbox'[i] = inbox[i]
      /\ inbox'[Len(inbox) + 1] = fetched
  BY <1>1, AppendFacts DEF PipelineTypeOK
<1>3. PipelineTypeOK'
  BY <1>1, <1>2, EmptyFacts, CapacityAssumption DEF PipelineTypeOK
<1>4. Ordered'
  <2>1. /\ Held' = Held /\ Queued' = Queued /\ Tasked' = Tasked /\ Past' = Past
        /\ Polled' = {} /\ Polled = {fetched.poll}
    BY <1>1 DEF Held, Queued, Tasked, Past, Polled
  <2>2. \A i \in 1 .. Len(inbox') : i \in 1 .. Len(inbox) \/ i = Len(inbox) + 1
    BY <1>2
  <2>3. Waiting' = Waiting \cup Polled
    BY <1>2, <2>1, <2>2 DEF Waiting
  <2>4. Sorted(inbox')
    <3>1. \A i \in 1 .. Len(inbox) : inbox[i].poll <= fetched.poll
      BY <2>1 DEF IInv, Ordered, NotAfter, Waiting
    <3>2. fetched.poll <= fetched.poll
      BY <1>1, Numbers
    <3>. QED BY <1>2, <2>2, <3>1, <3>2 DEF IInv, Ordered, Sorted
  <2>. QED BY <1>1, <2>1, <2>3, <2>4 DEF IInv, Ordered, NotAfter
<1>5. Latest' /\ Settled' /\ Single'
  BY <1>1 DEF IInv, Single, Latest, Settled, Behind
<1>. QED BY <1>3, <1>4, <1>5 DEF IInv

\* The consumer takes the head of the inbox, and the leader's store gets it.
LEMMA ConsumeStep == ASSUME IInv, Consume PROVE IInv'
<1>. DEFINE mine == [docs |-> Head(inbox).docs \cap Owned, poll |-> Head(inbox).poll]
<1>1. /\ PipelineTypeOK /\ ~indexed.full /\ inbox # <<>> /\ inbox' = Tail(inbox)
      /\ index' = Upsert(index, mine) /\ indexed' = [full |-> TRUE, batch |-> mine]
      /\ UNCHANGED <<polls, fetched, outbox, taken, calls, late, replica, hung, dark, missed>>
  BY DEF IInv, Consume, InHand
<1>2. /\ inbox' \in Seq(Batch) /\ Len(inbox) \in Nat \ {0} /\ Len(inbox') = Len(inbox) - 1
      /\ \A i \in 1 .. Len(inbox') : inbox'[i] = inbox[i + 1] /\ i + 1 \in 1 .. Len(inbox)
      /\ Head(inbox) = inbox[1] /\ Head(inbox) \in Batch
  BY <1>1, TailFacts DEF PipelineTypeOK
<1>3. mine \in Batch /\ mine.poll = inbox[1].poll /\ mine.docs \subseteq Feed
  BY <1>2, Numbers DEF Batch
<1>. HIDE DEF mine
<1>4. /\ index' \in Store
      /\ \A d \in Feed : index'[d] = IF d \in mine.docs THEN mine.poll ELSE index[d]
  BY <1>1, <1>3, UpsertFacts DEF PipelineTypeOK
<1>5. indexed'.full /\ indexed'.batch = mine /\ indexed' \in [full : BOOLEAN, batch : Batch]
  BY <1>1, <1>3
<1>6. PipelineTypeOK'
  BY <1>1, <1>2, <1>4, <1>5, CapacityAssumption DEF PipelineTypeOK
<1>7. Ordered'
  <2>1. /\ Queued' = Queued /\ Tasked' = Tasked /\ Past' = Past /\ Polled' = Polled
        /\ Held = {} /\ Held' = {mine.poll}
    BY <1>1, <1>5 DEF Held, Queued, Tasked, Past, Polled
  <2>2. Waiting' \subseteq Waiting /\ mine.poll \in Waiting
    BY <1>2, <1>3 DEF Waiting
  <2>3. Sorted(inbox') /\ NotAfter({mine.poll}, Waiting')
    <3>1. \A i, j \in 1 .. Len(inbox') : i <= j => i + 1 <= j + 1
      BY <1>2
    <3>2. \A i \in 1 .. Len(inbox') : 1 <= i + 1 /\ 1 \in 1 .. Len(inbox)
      BY <1>2
    <3>3. Sorted(inbox)
      BY DEF IInv, Ordered
    <3>4. Sorted(inbox')
      BY <1>2, <3>1, <3>3 DEF Sorted
    <3>5. \A i \in 1 .. Len(inbox') : mine.poll <= inbox'[i].poll
      BY <1>2, <1>3, <3>2, <3>3 DEF Sorted
    <3>. QED BY <3>4, <3>5 DEF NotAfter, Waiting
  <2>4. NotAfter(Waiting', Polled \cup {polls}) /\ NotAfter(Held', Waiting' \cup Polled \cup {polls})
    BY <2>1, <2>2, <2>3 DEF IInv, Ordered, NotAfter
  <2>5. /\ NotAfter(Queued, Held' \cup Waiting' \cup Polled \cup {polls})
        /\ NotAfter(Tasked, Tasked \cup Queued \cup Held' \cup Waiting' \cup Polled \cup {polls})
    BY <2>1, <2>2 DEF IInv, Ordered, NotAfter
  <2>6. \A d \in Feed : NotAfter({index'[d]}, Waiting' \cup Polled \cup {polls})
    BY <1>4, <2>1, <2>2, <2>4 DEF IInv, Ordered, NotAfter
  <2>7. NotAfter(Past, Tasked \cup Queued \cup Held' \cup Waiting' \cup Polled \cup {polls})
    BY <2>1, <2>2 DEF IInv, Ordered, NotAfter
  <2>. QED BY <1>1, <2>1, <2>3, <2>4, <2>5, <2>6, <2>7 DEF IInv, Ordered
<1>8. \A d, i : d \in mine.docs \/ Behind(d, i) => Behind(d, i)'
  BY <1>1, <1>5 DEF Behind
<1>9. \A i \in 1 .. Len(outbox) : outbox[i].docs \subseteq Feed
  BY <1>1, Numbers
<1>10. taken.batch.docs \subseteq Feed /\ \A c \in calls : c.batch.docs \subseteq Feed
  BY <1>1, Numbers
<1>11. Latest'
  BY <1>1, <1>3, <1>4, <1>5, <1>8, <1>9, <1>10 DEF IInv, Latest
<1>12. Settled' /\ Single'
  BY <1>1, <1>4, <1>8 DEF IInv, Settled, Single
<1>. QED BY <1>6, <1>7, <1>11, <1>12 DEF IInv

\* The consumer's batch goes to the end of the outbox.
LEMMA ForwardStep == ASSUME IInv, Forward PROVE IInv'
<1>. DEFINE b == indexed.batch
<1>1. /\ PipelineTypeOK /\ indexed.full /\ outbox' = Append(outbox, b) /\ indexed' = EmptyHand
      /\ Len(outbox) < Outbox /\ b \in Batch
      /\ UNCHANGED <<polls, fetched, inbox, index, taken, calls, late, replica, hung, dark,
                     missed>>
  BY Numbers DEF IInv, Forward
<1>2. /\ outbox' \in Seq(Batch) /\ Len(outbox') = Len(outbox) + 1 /\ Len(outbox) \in Nat
      /\ \A i \in 1 .. Len(outbox) : outbox'[i] = outbox[i]
      /\ outbox'[Len(outbox) + 1] = b
  BY <1>1, AppendFacts DEF PipelineTypeOK
<1>3. \A i \in 1 .. Len(outbox') : i \in 1 .. Len(outbox) \/ i = Len(outbox) + 1
  BY <1>2
<1>4. ~indexed'.full /\ indexed' \in [full : BOOLEAN, batch : Batch]
  BY <1>1, EmptyFacts DEF EmptyHand
<1>5. PipelineTypeOK'
  BY <1>1, <1>2, <1>4, CapacityAssumption DEF PipelineTypeOK
<1>6. Ordered'
  <2>1. /\ Waiting' = Waiting /\ Tasked' = Tasked /\ Past' = Past /\ Polled' = Polled
        /\ Held' = {} /\ Held = {b.poll}
    BY <1>1, <1>4 DEF Held, Waiting, Tasked, Past, Polled
  <2>2. Queued' = Queued \cup Held
    BY <1>2, <1>3, <2>1 DEF Queued
  <2>3. Sorted(outbox')
    <3>1. \A i \in 1 .. Len(outbox) : outbox[i].poll <= b.poll
      BY <2>1 DEF IInv, Ordered, NotAfter, Queued
    <3>2. b.poll <= b.poll
      BY <1>1, Numbers
    <3>. QED BY <1>2, <1>3, <3>1, <3>2 DEF IInv, Ordered, Sorted
  <2>. QED BY <1>1, <2>1, <2>2, <2>3 DEF IInv, Ordered, NotAfter
<1>7. ASSUME NEW d, NEW i \in 1 .. Len(outbox) + 1, Behind(d, i) PROVE Behind(d, i)'
  <2>1. Len(outbox) + 1 \in i .. Len(outbox')
    BY <1>2
  <2>2. \A j \in i .. Len(outbox) : j \in 1 .. Len(outbox) /\ j \in i .. Len(outbox')
    BY <1>2
  <2>. QED BY <1>2, <1>7, <2>1, <2>2 DEF Behind
<1>8. 1 \in 1 .. Len(outbox) + 1 /\ \A i \in 1 .. Len(outbox) : i + 1 \in 1 .. Len(outbox) + 1
  BY <1>2
<1>9. Latest'
  <2>1. ASSUME NEW i \in 1 .. Len(outbox'), NEW d \in outbox'[i].docs
        PROVE  outbox'[i].poll = index'[d] \/ Behind(d, i + 1)'
    <3>1. CASE i \in 1 .. Len(outbox)
      BY <1>1, <1>2, <1>7, <1>8, <2>1, <3>1 DEF IInv, Latest
    <3>2. CASE i = Len(outbox) + 1
      BY <1>1, <1>2, <2>1, <3>2 DEF IInv, Latest
    <3>. QED BY <1>3, <3>1, <3>2
  <2>2. \A c \in calls : \A d \in c.batch.docs : c.batch.poll = index[d] \/ Behind(d, 1)'
    BY <1>7, <1>8 DEF IInv, Latest
  <2>3. taken.full => \A d \in taken.batch.docs : taken.batch.poll = index[d] \/ Behind(d, 1)'
    BY <1>7, <1>8 DEF IInv, Latest
  <2>. QED BY <1>1, <1>4, <2>1, <2>2, <2>3 DEF Latest
<1>10. Settled' /\ Single'
  BY <1>1, <1>7, <1>8 DEF IInv, Settled, Single
<1>. QED BY <1>5, <1>6, <1>9, <1>10 DEF IInv

\* The replication task takes the head of the outbox.
LEMMA RunReplicationStep == ASSUME IInv, run_replication PROVE IInv'
<1>. DEFINE b == Head(outbox)
<1>1. /\ PipelineTypeOK /\ calls = {} /\ ~taken.full /\ outbox # <<>> /\ outbox' = Tail(outbox)
      /\ taken' = [full |-> TRUE, batch |-> b]
      /\ UNCHANGED <<polls, fetched, inbox, index, indexed, calls, late, replica, hung, dark,
                     missed>>
  BY DEF IInv, run_replication, InHand
<1>2. /\ outbox' \in Seq(Batch) /\ Len(outbox) \in Nat \ {0} /\ Len(outbox') = Len(outbox) - 1
      /\ \A i \in 1 .. Len(outbox') : outbox'[i] = outbox[i + 1] /\ i + 1 \in 1 .. Len(outbox)
      /\ b = outbox[1] /\ b \in Batch
  BY <1>1, TailFacts DEF PipelineTypeOK
<1>. HIDE DEF b
<1>3. taken'.full /\ taken'.batch = b /\ taken' \in [full : BOOLEAN, batch : Batch]
  BY <1>1, <1>2
<1>4. PipelineTypeOK' /\ Single'
  BY <1>1, <1>2, <1>3, CapacityAssumption DEF PipelineTypeOK, Single
<1>5. Ordered'
  <2>1. /\ Waiting' = Waiting /\ Held' = Held /\ Polled' = Polled /\ Past' = Past
    BY <1>1 DEF Held, Waiting, Past, Polled
  <2>2. /\ Queued' \subseteq Queued /\ b.poll \in Queued
        /\ b.poll \in Int
    BY <1>1, <1>2, Numbers DEF Queued
  <2>3. Tasked' = {b.poll}
    BY <1>1, <1>3 DEF Tasked
  <2>4. Sorted(outbox') /\ NotAfter({b.poll}, Queued')
    <3>1. \A i, j \in 1 .. Len(outbox') : i <= j => i + 1 <= j + 1
      BY <1>2
    <3>2. \A i \in 1 .. Len(outbox') : 1 <= i + 1 /\ 1 \in 1 .. Len(outbox)
      BY <1>2
    <3>3. Sorted(outbox)
      BY DEF IInv, Ordered
    <3>4. Sorted(outbox')
      BY <1>2, <3>1, <3>3 DEF Sorted
    <3>5. \A i \in 1 .. Len(outbox') : b.poll <= outbox'[i].poll
      BY <1>2, <3>2, <3>3 DEF Sorted
    <3>. QED BY <3>4, <3>5 DEF NotAfter, Queued
  <2>5. NotAfter(Queued', Held \cup Waiting \cup Polled \cup {polls})
    BY <2>2 DEF IInv, Ordered, NotAfter
  <2>6. NotAfter(Tasked', Tasked' \cup Queued' \cup Held \cup Waiting \cup Polled \cup {polls})
    <3>1. b.poll <= b.poll
      BY <2>2
    <3>. QED BY <2>2, <2>3, <2>4, <3>1 DEF IInv, Ordered, NotAfter
  <2>7. NotAfter(Past, Tasked' \cup Queued' \cup Held \cup Waiting \cup Polled \cup {polls})
    BY <2>2, <2>3 DEF IInv, Ordered, NotAfter
  <2>. QED BY <1>1, <2>1, <2>4, <2>5, <2>6, <2>7 DEF IInv, Ordered
<1>6. ASSUME NEW d, NEW i \in 1 .. Len(outbox), Behind(d, i + 1) PROVE Behind(d, i)'
  <2>1. \A j \in i + 1 .. Len(outbox) :
          /\ j - 1 \in i .. Len(outbox') /\ j - 1 \in 1 .. Len(outbox')
          /\ outbox'[j - 1] = outbox[j]
    <3>. SUFFICES ASSUME NEW j \in i + 1 .. Len(outbox)
                  PROVE  /\ j - 1 \in i .. Len(outbox') /\ j - 1 \in 1 .. Len(outbox')
                         /\ outbox'[j - 1] = outbox[j]
      OBVIOUS
    <3>1. /\ j - 1 \in i .. Len(outbox') /\ j - 1 \in 1 .. Len(outbox') /\ (j - 1) + 1 = j
      BY <1>2
    <3>2. outbox'[j - 1] = outbox[(j - 1) + 1]
      BY <1>2, <3>1
    <3>. QED BY <3>1, <3>2
  <2>. QED BY <1>1, <1>6, <2>1 DEF Behind
<1>7. ASSUME NEW d, Behind(d, 1), d \notin b.docs PROVE Behind(d, 1)'
  <2>1. 1 \in 1 .. Len(outbox) /\ \A j \in 1 .. Len(outbox) : j = 1 \/ j \in 1 + 1 .. Len(outbox)
    BY <1>2
  <2>2. Behind(d, 1 + 1)
    BY <1>2, <1>7, <2>1 DEF Behind
  <2>. QED BY <1>6, <2>1, <2>2
<1>8. 1 \in 1 .. Len(outbox)
  BY <1>2
<1>9. Latest'
  <2>1. ASSUME NEW i \in 1 .. Len(outbox'), NEW d \in outbox'[i].docs
        PROVE  outbox'[i].poll = index'[d] \/ Behind(d, i + 1)'
    <3>1. /\ i + 1 \in 1 .. Len(outbox)
          /\ outbox[i + 1].poll = index[d] \/ Behind(d, i + 1 + 1)
      BY <1>2, <2>1 DEF IInv, Latest
    <3>. QED BY <1>1, <1>2, <1>6, <3>1
  <2>2. ASSUME NEW d \in b.docs
        PROVE  b.poll = index'[d] \/ Behind(d, 1)'
    <3>1. b.poll = index[d] \/ Behind(d, 1 + 1)
      BY <1>2, <1>8, <2>2 DEF IInv, Latest
    <3>. QED BY <1>1, <1>6, <1>8, <3>1
  <2>. QED BY <1>1, <1>3, <2>1, <2>2 DEF IInv, Latest
<1>10. Settled'
  <2>. SUFFICES ASSUME NEW f \in Followers, NEW d \in Feed, d \notin b.docs
                PROVE  \/ Behind(d, 1)'
                       \/ d \in missed'[f]
                       \/ replica'[f][d] = index'[d]
    BY <1>3 DEF Settled
  <2>1. \/ Behind(d, 1) \/ d \in missed[f] \/ replica[f][d] = index[d]
    BY <1>1 DEF IInv, Settled
  <2>. QED BY <1>1, <1>7, <2>1
<1>. QED BY <1>4, <1>5, <1>9, <1>10 DEF IInv

\* The task calls the followers it found; the others miss the batch.
LEMMA DiscoverStep ==
  ASSUME IInv, NEW found \in SUBSET Followers, discover_followers(found) PROVE IInv'
<1>. DEFINE b == taken.batch
<1>1. /\ PipelineTypeOK /\ calls = {} /\ taken.full /\ taken' = EmptyHand /\ b \in Batch
      /\ calls' = IF b.docs = {} THEN {} ELSE [to : found, batch : {b}]
      /\ missed' = [f \in Followers |-> IF f \in found THEN missed[f] ELSE missed[f] \cup b.docs]
      /\ UNCHANGED <<polls, fetched, inbox, index, indexed, outbox, late, replica, hung, dark>>
  BY Numbers DEF IInv, Single, discover_followers
<1>. HIDE DEF b
<1>2. ~taken'.full /\ taken' \in [full : BOOLEAN, batch : Batch]
  BY <1>1, EmptyFacts DEF EmptyHand
<1>3. /\ \A c \in calls' : c.to \in found /\ c.batch = b
      /\ b.docs # {} => \A f \in found : \E c \in calls' : c.to = f /\ c.batch = b
  <2>1. \A f \in found : [to |-> f, batch |-> b] \in [to : found, batch : {b}]
    OBVIOUS
  <2>. QED BY <1>1, <2>1
<1>4. PipelineTypeOK' /\ Single'
  <2>1. calls' \subseteq Push
    BY <1>1 DEF Push
  <2>2. missed' \in [Followers -> SUBSET Feed]
    BY <1>1, Numbers DEF PipelineTypeOK
  <2>. QED BY <1>1, <1>2, <2>1, <2>2 DEF PipelineTypeOK, Single
<1>5. Ordered'
  <2>1. /\ Waiting' = Waiting /\ Held' = Held /\ Polled' = Polled /\ Queued' = Queued
        /\ Past' = Past
    BY <1>1 DEF Held, Waiting, Queued, Past, Polled
  <2>2. Tasked' \subseteq Tasked
    BY <1>1, <1>2, <1>3 DEF Tasked, b
  <2>. QED BY <1>1, <2>1, <2>2 DEF IInv, Ordered, NotAfter
<1>6. \A d, i : Behind(d, i)' <=> Behind(d, i)
  BY <1>1 DEF Behind
<1>7. Latest'
  BY <1>1, <1>2, <1>3, <1>6 DEF IInv, Latest, b
<1>8. Settled'
  <2>. SUFFICES ASSUME NEW f \in Followers, NEW d \in Feed, ~Behind(d, 1)
                PROVE  \/ \E c \in calls' : c.to = f /\ d \in c.batch.docs
                       \/ d \in missed'[f]
                       \/ replica'[f][d] = index'[d]
    BY <1>6 DEF Settled
  <2>1. CASE d \in b.docs
    BY <1>1, <1>3, <2>1
  <2>2. CASE d \notin b.docs
    <3>1. d \in missed[f] \/ replica[f][d] = index[d]
      BY <1>1, <2>2 DEF IInv, Settled, b
    <3>. QED BY <1>1, <3>1
  <2>. QED BY <2>1, <2>2
<1>. QED BY <1>4, <1>5, <1>7, <1>8 DEF IInv

\* A follower takes the batch of a call or of a late request.
LEMMA TakesFacts ==
  ASSUME IInv, NEW c \in calls \cup late,
         replica' = [replica EXCEPT ![c.to] = Upsert(replica[c.to], c.batch)]
  PROVE  /\ replica' \in [Followers -> Store]
         /\ \A g \in Followers : \A d \in Feed :
              replica'[g][d] = IF g = c.to /\ d \in c.batch.docs THEN c.batch.poll
                               ELSE replica[g][d]
<1>1. c.to \in Followers /\ c.batch \in Batch /\ replica \in [Followers -> Store]
  BY Numbers DEF IInv, PipelineTypeOK
<1>2. /\ Upsert(replica[c.to], c.batch) \in Store
      /\ \A d \in Feed : Upsert(replica[c.to], c.batch)[d] =
           IF d \in c.batch.docs THEN c.batch.poll ELSE replica[c.to][d]
  BY <1>1, UpsertFacts
<1>. QED BY <1>1, <1>2

\* A follower takes the batch: what it then differs in is still to come.
LEMMA ReplicateStep == ASSUME IInv, NEW c \in calls, replicate(c) PROVE IInv'
<1>. DEFINE b == c.batch
            f == c.to
<1>1. /\ PipelineTypeOK /\ f \in Followers /\ b \in Batch /\ b.docs \subseteq Feed
      /\ calls' = calls \ {c} /\ ~taken.full
      /\ UNCHANGED <<polls, fetched, inbox, index, indexed, outbox, taken, late, hung, dark>>
  BY Numbers DEF IInv, Single, replicate
<1>2. /\ replica' = [replica EXCEPT ![f] = Upsert(replica[f], b)]
      /\ missed' = [missed EXCEPT ![f] = missed[f] \ b.docs]
  BY DEF replicate
<1>3. /\ replica' \in [Followers -> Store]
      /\ \A g \in Followers : \A d \in Feed :
           replica'[g][d] = IF g = f /\ d \in b.docs THEN b.poll ELSE replica[g][d]
  BY <1>2, TakesFacts
<1>. HIDE DEF f, b
<1>4. \A g \in Followers : \A d \in Feed :
        d \in missed[g] => d \in missed'[g] \/ (g = f /\ d \in b.docs)
  BY <1>1, <1>2 DEF PipelineTypeOK
<1>5. PipelineTypeOK' /\ Single'
  BY <1>1, <1>2, <1>3 DEF PipelineTypeOK, Single
<1>6. \A d, i : Behind(d, i)' <=> Behind(d, i)
  BY <1>1 DEF Behind
<1>7. Ordered'
  <2>1. /\ Waiting' = Waiting /\ Held' = Held /\ Polled' = Polled /\ Queued' = Queued
    BY <1>1 DEF Held, Waiting, Queued, Polled
  <2>2. Tasked' \subseteq Tasked /\ b.poll \in Tasked
    BY <1>1 DEF Tasked, b
  <2>3. Past' \subseteq Past \cup {b.poll}
    BY <1>1, <1>3 DEF Past
  <2>. QED BY <1>1, <2>1, <2>2, <2>3 DEF IInv, Ordered, NotAfter
<1>8. Latest'
  BY <1>1, <1>6 DEF IInv, Latest
<1>9. Settled'
  <2>. SUFFICES ASSUME NEW g \in Followers, NEW d \in Feed, ~Behind(d, 1)
                PROVE  \/ \E x \in calls' : x.to = g /\ d \in x.batch.docs
                       \/ d \in missed'[g]
                       \/ replica'[g][d] = index'[d]
    BY <1>6 DEF Settled
  <2>1. CASE g = f /\ d \in b.docs
    <3>1. b.poll = index[d]
      BY <2>1 DEF IInv, Latest, b
    <3>. QED BY <1>1, <1>3, <2>1, <3>1
  <2>2. CASE ~(g = f /\ d \in b.docs)
    <3>1. \/ \E x \in calls : x # c /\ x.to = g /\ d \in x.batch.docs
          \/ d \in missed[g]
          \/ replica[g][d] = index[d]
      BY <1>1, <2>2 DEF IInv, Settled, f, b
    <3>. QED BY <1>1, <1>3, <1>4, <2>2, <3>1
  <2>. QED BY <2>1, <2>2
<1>. QED BY <1>5, <1>7, <1>8, <1>9 DEF IInv

\* A call fails: the follower has missed the batch, and may get it late.
LEMMA CallFailsStep == ASSUME IInv, NEW c \in calls, CallFails(c) PROVE IInv'
<1>. DEFINE b == c.batch
            f == c.to
<1>1. /\ PipelineTypeOK /\ f \in Followers /\ b \in Batch /\ b.docs \subseteq Feed
      /\ c \in Push /\ ~taken.full
      /\ calls' = calls \ {c} /\ missed' = [missed EXCEPT ![f] = missed[f] \cup b.docs]
      /\ late' \subseteq late \cup {c}
      /\ UNCHANGED <<polls, fetched, inbox, index, indexed, outbox, taken, replica, hung, dark>>
  BY Numbers DEF IInv, PipelineTypeOK, Single, CallFails
<1>. HIDE DEF f, b
<1>2. \A g \in Followers : \A d \in Feed :
        /\ d \in missed[g] => d \in missed'[g]
        /\ g = f /\ d \in b.docs => d \in missed'[g]
  BY <1>1 DEF PipelineTypeOK
<1>3. PipelineTypeOK' /\ Single'
  BY <1>1 DEF PipelineTypeOK, Single
<1>4. \A d, i : Behind(d, i)' <=> Behind(d, i)
  BY <1>1 DEF Behind
<1>5. Ordered'
  <2>1. /\ Waiting' = Waiting /\ Held' = Held /\ Polled' = Polled /\ Queued' = Queued
    BY <1>1 DEF Held, Waiting, Queued, Polled
  <2>2. Tasked' \subseteq Tasked /\ b.poll \in Tasked
    BY <1>1 DEF Tasked, b
  <2>3. Past' \subseteq Past \cup {b.poll}
    BY <1>1 DEF Past, b
  <2>. QED BY <1>1, <2>1, <2>2, <2>3 DEF IInv, Ordered, NotAfter
<1>6. Latest'
  BY <1>1, <1>4 DEF IInv, Latest
<1>7. Settled'
  <2>. SUFFICES ASSUME NEW g \in Followers, NEW d \in Feed, ~Behind(d, 1)
                PROVE  \/ \E x \in calls' : x.to = g /\ d \in x.batch.docs
                       \/ d \in missed'[g]
                       \/ replica'[g][d] = index'[d]
    BY <1>4 DEF Settled
  <2>1. CASE g = f /\ d \in b.docs
    BY <1>2, <2>1
  <2>2. CASE ~(g = f /\ d \in b.docs)
    <3>1. \/ \E x \in calls : x # c /\ x.to = g /\ d \in x.batch.docs
          \/ d \in missed[g]
          \/ replica[g][d] = index[d]
      BY <1>1, <2>2 DEF IInv, Settled, f, b
    <3>. QED BY <1>1, <1>2, <3>1
  <2>. QED BY <2>1, <2>2
<1>. QED BY <1>3, <1>5, <1>6, <1>7 DEF IInv

\* A late request is applied: it is no newer than anything that is to come, and
\* what it may have set back is counted as missed.
LEMMA LateReplicateStep == ASSUME IInv, NEW c \in late, LateReplicate(c) PROVE IInv'
<1>. DEFINE b == c.batch
            f == c.to
<1>1. /\ PipelineTypeOK /\ f \in Followers /\ b \in Batch /\ b.docs \subseteq Feed
      /\ late' = late \ {c} /\ missed' = [missed EXCEPT ![f] = missed[f] \cup b.docs]
      /\ UNCHANGED <<polls, fetched, inbox, index, indexed, outbox, taken, calls, hung, dark>>
  BY Numbers DEF IInv, LateReplicate
<1>2. /\ replica' \in [Followers -> Store]
      /\ \A g \in Followers : \A d \in Feed :
           replica'[g][d] = IF g = f /\ d \in b.docs THEN b.poll ELSE replica[g][d]
  <2>1. replica' = [replica EXCEPT ![f] = Upsert(replica[f], b)]
    BY DEF LateReplicate
  <2>. QED BY <2>1, TakesFacts
<1>. HIDE DEF f, b
<1>3. \A g \in Followers : \A d \in Feed :
        /\ d \in missed[g] => d \in missed'[g]
        /\ g = f /\ d \in b.docs => d \in missed'[g]
  BY <1>1 DEF PipelineTypeOK
<1>4. PipelineTypeOK' /\ Single'
  BY <1>1, <1>2 DEF IInv, PipelineTypeOK, Single
<1>5. \A d, i : Behind(d, i)' <=> Behind(d, i)
  BY <1>1 DEF Behind
<1>6. Ordered'
  <2>1. /\ Waiting' = Waiting /\ Held' = Held /\ Polled' = Polled /\ Queued' = Queued
        /\ Tasked' = Tasked
    BY <1>1 DEF Held, Waiting, Queued, Polled, Tasked
  <2>2. Past' \subseteq Past
    <3>1. b.poll \in Past
      BY DEF Past, b
    <3>2. \A g \in Followers, d \in Feed : replica[g][d] \in Past
      BY DEF Past
    <3>3. {x.batch.poll : x \in late'} \subseteq Past
      BY <1>1 DEF Past
    <3>4. \A g \in Followers, d \in Feed : replica'[g][d] \in Past
      BY <1>2, <3>1, <3>2
    <3>. QED BY <3>3, <3>4 DEF Past
  <2>. QED BY <1>1, <2>1, <2>2 DEF IInv, Ordered, NotAfter
<1>7. Latest'
  BY <1>1, <1>5 DEF IInv, Latest
<1>8. Settled'
  BY <1>1, <1>2, <1>3, <1>5 DEF IInv, Settled
<1>. QED BY <1>4, <1>6, <1>7, <1>8 DEF IInv

\* A coordinator or a follower that hangs, or nothing at all, moves no batch.
LEMMA QuietStep ==
  ASSUME IInv,
         CoordinatorHangs \/ (\E f \in Followers : StopAnswering(f)) \/ UNCHANGED pipeline_vars
  PROVE  IInv'
<1>1. /\ UNCHANGED <<polls, fetched, inbox, index, indexed, outbox, taken, calls, late, replica,
                     missed>>
      /\ hung' \subseteq Followers
  BY DEF IInv, PipelineTypeOK, CoordinatorHangs, StopAnswering, pipeline_vars
<1>2. dark' \in BOOLEAN
  BY Zenon DEF IInv, PipelineTypeOK, CoordinatorHangs, StopAnswering, pipeline_vars
<1>3. PipelineTypeOK' /\ Single'
  BY <1>1, <1>2 DEF IInv, PipelineTypeOK, Single
<1>4. Ordered'
  <2>1. /\ Waiting' = Waiting /\ Held' = Held /\ Polled' = Polled /\ Queued' = Queued
        /\ Tasked' = Tasked /\ Past' = Past
    BY <1>1 DEF Held, Waiting, Queued, Polled, Tasked, Past
  <2>. QED BY <1>1, <2>1 DEF IInv, Ordered
<1>5. Latest' /\ Settled'
  BY <1>1 DEF IInv, Latest, Settled, Behind
<1>. QED BY <1>3, <1>4, <1>5 DEF IInv

-----------------------------------------------------------------------------
(* The theorems                                                            *)

\* The invariant holds in the initial state, ...
LEMMA InitIInv == ASSUME PipelineInit PROVE IInv
<1>1. /\ polls = 0 /\ fetched = NoPoll /\ inbox = <<>> /\ outbox = <<>> /\ calls = {}
      /\ index = [d \in Feed |-> 0] /\ indexed = EmptyHand /\ ~indexed.full
      /\ replica = [f \in Followers |-> [d \in Feed |-> 0]]
      /\ missed = [f \in Followers |-> {}] /\ hung = {} /\ late = {}
      /\ taken = EmptyHand /\ ~taken.full
  BY DEF PipelineInit, EmptyHand
<1>2. PipelineTypeOK
  <2>1. [d \in Feed |-> 0] \in Store /\ 0 \in 0 .. MaxPolls
    BY PollsAssumption DEF Store
  <2>2. /\ inbox \in Seq(Batch) /\ Len(inbox) <= Inbox
        /\ outbox \in Seq(Batch) /\ Len(outbox) <= Outbox
    BY <1>1, CapacityAssumption
  <2>3. indexed \in [full : BOOLEAN, batch : Batch] /\ taken \in [full : BOOLEAN, batch : Batch]
    BY <1>1, EmptyFacts
  <2>4. dark \in BOOLEAN
    BY Zenon DEF PipelineInit
  <2>. QED BY <1>1, <2>1, <2>2, <2>3, <2>4, EmptyFacts DEF PipelineTypeOK
<1>3. Len(inbox) = 0 /\ Len(outbox) = 0
  BY <1>1
<1>4. Ordered
  <2>1. Waiting = {} /\ Held = {} /\ Polled = {} /\ Queued = {} /\ Tasked = {}
    BY <1>1, <1>3 DEF Waiting, Held, Polled, Queued, Tasked
  <2>2. 0 <= polls
    BY <1>1
  <2>3. Past \subseteq {0}
    BY <1>1 DEF Past
  <2>. QED BY <1>1, <1>3, <2>1, <2>2, <2>3 DEF Ordered, NotAfter, Sorted
<1>5. Latest /\ Settled /\ Single
  BY <1>1, <1>3 DEF Latest, Settled, Single
<1>. QED BY <1>2, <1>4, <1>5 DEF IInv

\* ... and every step preserves it.
LEMMA NextIInv == ASSUME IInv, [PipelineNext]_pipeline_vars PROVE IInv'
BY PollStep, SendStep, ConsumeStep, ForwardStep, RunReplicationStep, DiscoverStep, ReplicateStep,
   CallFailsStep, LateReplicateStep, QuietStep DEF PipelineNext, Call, Discover

\* The invariant.
THEOREM Inductive == PipelineSpec => []IInv
BY InitIInv, NextIInv, PTL DEF PipelineSpec

\* Every variable of the pipeline keeps its type; both channels stay within
\* their capacity.
THEOREM TypeCorrect == PipelineSpec => []PipelineTypeOK
<1>1. IInv => PipelineTypeOK
  BY DEF IInv
<1>. QED BY <1>1, Inductive, PTL

\* When the pipeline is drained, a follower differs from its leader only in
\* documents whose latest batch it missed or which a late request set back.
THEOREM FollowersCatchUp == PipelineSpec => []CatchesUp
<1>1. IInv => CatchesUp
  <2>. SUFFICES ASSUME IInv, Drained, NEW f \in Followers, NEW d \in Feed
                PROVE  d \in missed[f] \/ replica[f][d] = index[d]
    BY DEF CatchesUp
  <2>1. ~indexed.full /\ ~taken.full /\ calls = {} /\ Len(outbox) = 0
    BY DEF Drained
  <2>2. ~Behind(d, 1)
    BY <2>1 DEF Behind
  <2>. QED BY <2>1, <2>2 DEF IInv, Settled
<1>. QED BY <1>1, Inductive, PTL

\* Batches reach every store in the order the leader observed them, but for a
\* request that is applied after its call was given up.
THEOREM StoresNeverGoBack == PipelineSpec => NeverBack
<1>. DEFINE Forth == /\ \A d \in Feed : index'[d] >= index[d]
                     /\ \/ \E c \in late : LateReplicate(c)
                        \/ \A f \in Followers, d \in Feed : replica'[f][d] >= replica[f][d]
<1>1. ASSUME IInv, [PipelineNext]_pipeline_vars
      PROVE  [Forth]_pipeline_vars
  <2>. SUFFICES ASSUME PipelineNext PROVE Forth
    BY <1>1
  <2>1. /\ PipelineTypeOK
        /\ \A d \in Feed : index[d] \in Int /\ index[d] >= index[d]
        /\ \A f \in Followers, d \in Feed : replica[f][d] \in Int /\ replica[f][d] >= replica[f][d]
    BY <1>1, Numbers DEF IInv
  <2>2. CASE UNCHANGED <<index, replica>>
    BY <2>1, <2>2
  <2>3. CASE Consume
    <3>. DEFINE mine == [docs |-> Head(inbox).docs \cap Owned, poll |-> Head(inbox).poll]
    <3>1. /\ index' = Upsert(index, mine) /\ replica' = replica /\ inbox # <<>>
      BY <2>3 DEF Consume
    <3>2. /\ Head(inbox) = inbox[1] /\ 1 \in 1 .. Len(inbox) /\ inbox[1].poll \in Int
      BY <2>1, <3>1, TailFacts, Numbers DEF PipelineTypeOK
    <3>3. \A d \in Feed : index'[d] \in {inbox[1].poll, index[d]}
      BY <3>1, <3>2 DEF Upsert
    <3>4. \A d \in Feed : index[d] <= inbox[1].poll
      BY <1>1, <3>2 DEF IInv, Ordered, NotAfter, Waiting
    <3>5. \A d \in Feed : index'[d] >= index[d]
      BY <2>1, <3>2, <3>3, <3>4
    <3>. QED BY <2>1, <3>1, <3>5
  <2>4. CASE \E c \in calls : replicate(c)
    <3>1. PICK c \in calls : replicate(c)
      BY <2>4
    <3>2. /\ replica' = [replica EXCEPT ![c.to] = Upsert(replica[c.to], c.batch)]
          /\ index' = index
      BY <3>1 DEF replicate
    <3>3. \A f \in Followers, d \in Feed : replica'[f][d] \in {replica[f][d], c.batch.poll}
      <4>1. IInv /\ c \in calls \cup late
        BY <1>1
      <4>2. \A g \in Followers : \A d \in Feed :
              replica'[g][d] = IF g = c.to /\ d \in c.batch.docs THEN c.batch.poll
                               ELSE replica[g][d]
        BY ONLY <4>1, <3>2, TakesFacts
      <4>. QED BY <4>2
    <3>4. c.batch.poll \in Int /\ c.batch.poll \in Tasked
      BY <2>1, Numbers DEF Tasked
    <3>5. \A f \in Followers, d \in Feed : replica[f][d] \in Past
      BY DEF Past
    <3>6. \A f \in Followers, d \in Feed : replica[f][d] <= c.batch.poll
      BY <1>1, <3>4, <3>5 DEF IInv, Ordered, NotAfter
    <3>7. \A f \in Followers, d \in Feed : replica'[f][d] >= replica[f][d]
      BY <2>1, <3>3, <3>4, <3>6
    <3>. QED BY <2>1, <3>2, <3>7
  <2>5. CASE \E c \in late : LateReplicate(c)
    <3>1. index' = index
      BY <2>5 DEF LateReplicate
    <3>. QED BY <2>1, <2>5, <3>1
  <2>6. \/ UNCHANGED <<index, replica>> \/ Consume
        \/ \E c \in calls : replicate(c)
        \/ \E c \in late : LateReplicate(c)
    BY DEF PipelineNext, Poll, Send, Forward, run_replication, Discover, discover_followers,
           Call, CallFails, CoordinatorHangs, StopAnswering
  <2>. QED BY <2>2, <2>3, <2>4, <2>5, <2>6
<1>. QED BY <1>1, Inductive, PTL DEF PipelineSpec, NeverBack
=============================================================================

---------------------------- MODULE Replication ----------------------------
(***************************************************************************)
(* A legacy (not raft-managed) leader: the ingestion pipeline and          *)
(* best-effort replication to followers (run_ingestion in                  *)
(* crates/shard-node/src/ingest.rs, and replication.rs): a producer and a  *)
(* consumer with a bounded channel between them, and a second channel from *)
(* the consumer to the replication task.                                   *)
(*                                                                         *)
(* A document's content is the number of the poll that observed it.        *)
(* External: the feed; the coordinator that lists the followers; and the   *)
(* followers, which apply a batch or fail.  Each of them may also take a   *)
(* call and never answer: the calls have no deadline.                      *)
(***************************************************************************)
EXTENDS Integers, Sequences

CONSTANTS
  Feed,       \* documents of the feed
  Owned,      \* the ones this node owns
  Followers,  \* followers of the shard
  MaxPolls,   \* max_polls (None in production: then a bound)
  Inbox,      \* capacity of the ingestion channel (4)
  Outbox      \* capacity of the replication channel (8)

ASSUME OwnedAssumption == Owned \subseteq Feed
ASSUME CapacityAssumption == Inbox \in Nat \ {0} /\ Outbox \in Nat \ {0}
ASSUME PollsAssumption == MaxPolls \in Nat

Store == [Feed -> 0 .. MaxPolls]
Batch == [docs : SUBSET Feed, poll : 0 .. MaxPolls]
Push == [to : Followers, batch : Batch]

NoPoll == [docs |-> {}, poll |-> 0]
EmptyHand == [full |-> FALSE, batch |-> NoPoll]
InHand(b) == [full |-> TRUE, batch |-> b]

VARIABLES
  polls,      \* polls made
  fetched,    \* batch the producer holds, NoPoll if none
  inbox,      \* ingestion channel
  index,      \* the leader's store
  indexed,    \* [full, batch]: the consumer waits to forward the batch
  outbox,     \* replication channel
  taken,      \* [full, batch]: the replication task waits for the followers' list
  calls,      \* replicate calls under way
  late,       \* failed calls whose request the follower may still apply
  replica,    \* follower -> its store
  hung,       \* followers that stopped answering
  dark,       \* the coordinator stopped answering
  missed      \* follower -> documents whose latest batch it missed, or which a
              \* late request set back (history)

pipeline_vars ==
  <<polls, fetched, inbox, index, indexed, outbox, taken, calls, late, replica, hung, dark,
    missed>>

PipelineTypeOK ==
  /\ polls \in 0 .. MaxPolls
  /\ fetched \in Batch
  /\ inbox \in Seq(Batch) /\ Len(inbox) <= Inbox
  /\ index \in Store
  /\ indexed \in [full : BOOLEAN, batch : Batch]
  /\ outbox \in Seq(Batch) /\ Len(outbox) <= Outbox
  /\ taken \in [full : BOOLEAN, batch : Batch]
  /\ calls \subseteq Push
  /\ late \subseteq Push
  /\ replica \in [Followers -> Store]
  /\ hung \subseteq Followers
  /\ dark \in BOOLEAN
  /\ missed \in [Followers -> SUBSET Feed]

PipelineInit ==
  /\ polls = 0 /\ fetched = NoPoll
  /\ inbox = <<>> /\ outbox = <<>>
  /\ index = [d \in Feed |-> 0]
  /\ indexed = EmptyHand /\ taken = EmptyHand
  /\ calls = {} /\ late = {} /\ hung = {} /\ dark = FALSE
  /\ replica = [f \in Followers |-> [d \in Feed |-> 0]]
  /\ missed = [f \in Followers |-> {}]

Upsert(store, b) == [d \in Feed |-> IF d \in b.docs THEN b.poll ELSE store[d]]

-----------------------------------------------------------------------------
(* Producer                                                                *)

\* An empty snapshot, or a failed fetch, is skipped.
Poll(S) ==
  /\ fetched = NoPoll /\ polls < MaxPolls
  /\ polls' = polls + 1
  /\ fetched' = IF S = {} THEN NoPoll ELSE [docs |-> S, poll |-> polls + 1]
  /\ UNCHANGED <<inbox, index, indexed, outbox, taken, calls, late, replica, hung, dark, missed>>

\* Mutant: a batch that finds the channel full is dropped.
Send_DropsWhenFull ==
  /\ fetched # NoPoll
  /\ inbox' = IF Len(inbox) < Inbox THEN Append(inbox, fetched) ELSE inbox
  /\ fetched' = NoPoll
  /\ UNCHANGED <<polls, index, indexed, outbox, taken, calls, late, replica, hung, dark, missed>>

\* Waits while the channel is full.
Send ==
  /\ fetched # NoPoll /\ Len(inbox) < Inbox
  /\ inbox' = Append(inbox, fetched)
  /\ fetched' = NoPoll
  /\ UNCHANGED <<polls, index, indexed, outbox, taken, calls, late, replica, hung, dark, missed>>

-----------------------------------------------------------------------------
(* Consumer                                                                *)

Consume ==
  /\ ~indexed.full /\ inbox # <<>>
  /\ LET mine == [docs |-> Head(inbox).docs \cap Owned, poll |-> Head(inbox).poll]
     IN index' = Upsert(index, mine) /\ indexed' = InHand(mine)
  /\ inbox' = Tail(inbox)
  /\ UNCHANGED <<polls, fetched, outbox, taken, calls, late, replica, hung, dark, missed>>

\* tx.send(indexed).await: waits while the replication channel is full.
Forward ==
  /\ indexed.full /\ Len(outbox) < Outbox
  /\ outbox' = Append(outbox, indexed.batch)
  /\ indexed' = EmptyHand
  /\ UNCHANGED <<polls, fetched, inbox, index, taken, calls, late, replica, hung, dark, missed>>

-----------------------------------------------------------------------------
(* The replication task: one batch at a time, to all followers at once     *)

\* Mutant: the next batch is taken before the calls of the last one are back.
run_replication_NoWait ==
  /\ ~taken.full /\ outbox # <<>>
  /\ taken' = InHand(Head(outbox))
  /\ outbox' = Tail(outbox)
  /\ UNCHANGED <<polls, fetched, inbox, index, indexed, calls, late, replica, hung, dark, missed>>

\* The task takes a batch and asks for the followers.
run_replication ==
  /\ calls = {} /\ ~taken.full /\ outbox # <<>>
  /\ taken' = InHand(Head(outbox))
  /\ outbox' = Tail(outbox)
  /\ UNCHANGED <<polls, fetched, inbox, index, indexed, calls, late, replica, hung, dark, missed>>

\* found: what list_replicas returned, nothing if the coordinator is away or
\* fails.  The calls go out; an empty batch is not sent.
discover_followers(found) ==
  /\ taken.full /\ ~dark
  /\ calls' = calls \cup (IF taken.batch.docs = {} THEN {}
                          ELSE [to : found, batch : {taken.batch}])
  /\ missed' = [f \in Followers |->
       IF f \in found THEN missed[f] ELSE missed[f] \cup taken.batch.docs]
  /\ taken' = EmptyHand
  /\ UNCHANGED <<polls, fetched, inbox, index, indexed, outbox, late, replica, hung, dark>>

\* Mutant: an insert where an upsert is due.
replicate_Once(c) ==
  /\ c \in calls /\ c.to \notin hung
  /\ replica' = [replica EXCEPT ![c.to] =
                   [d \in Feed |-> IF @[d] = 0 /\ d \in c.batch.docs THEN c.batch.poll ELSE @[d]]]
  /\ missed' = [missed EXCEPT ![c.to] = @ \ c.batch.docs]
  /\ calls' = calls \ {c}
  /\ UNCHANGED <<polls, fetched, inbox, index, indexed, outbox, taken, late, hung, dark>>

\* ReplicationService::replicate
replicate(c) ==
  /\ c \in calls /\ c.to \notin hung
  /\ replica' = [replica EXCEPT ![c.to] = Upsert(@, c.batch)]
  /\ missed' = [missed EXCEPT ![c.to] = @ \ c.batch.docs]
  /\ calls' = calls \ {c}
  /\ UNCHANGED <<polls, fetched, inbox, index, indexed, outbox, taken, late, hung, dark>>

\* Unreachable, or the call breaks: logged and skipped.  A request that was
\* sent before it broke may still reach the follower.
CallFails(c) ==
  /\ c \in calls /\ c.to \notin hung
  /\ missed' = [missed EXCEPT ![c.to] = @ \cup c.batch.docs]
  /\ late' \in {late, late \cup {c}}
  /\ calls' = calls \ {c}
  /\ UNCHANGED <<polls, fetched, inbox, index, indexed, outbox, taken, replica, hung, dark>>

LateReplicate(c) ==
  /\ c \in late
  /\ replica' = [replica EXCEPT ![c.to] = Upsert(@, c.batch)]
  /\ missed' = [missed EXCEPT ![c.to] = @ \cup c.batch.docs]
  /\ late' = late \ {c}
  /\ UNCHANGED <<polls, fetched, inbox, index, indexed, outbox, taken, calls, hung, dark>>

StopAnswering(f) ==
  /\ f \notin hung
  /\ hung' = hung \cup {f}
  /\ UNCHANGED <<polls, fetched, inbox, index, indexed, outbox, taken, calls, late, replica,
                 dark, missed>>

CoordinatorHangs ==
  /\ ~dark
  /\ dark' = TRUE
  /\ UNCHANGED <<polls, fetched, inbox, index, indexed, outbox, taken, calls, late, replica,
                 hung, missed>>

-----------------------------------------------------------------------------
Call == \E c \in calls : replicate(c) \/ CallFails(c)
Discover == \E found \in SUBSET Followers : discover_followers(found)

PipelineNext ==
  \/ \E S \in SUBSET Feed : Poll(S)
  \/ Send \/ Consume \/ Forward
  \/ run_replication \/ Discover
  \/ Call \/ \E c \in late : LateReplicate(c)
  \/ CoordinatorHangs \/ \E f \in Followers : StopAnswering(f)

\* The three tasks run; a coordinator or a follower that has not hung answers
\* or fails.
PipelineFair ==
  /\ WF_pipeline_vars(\E S \in SUBSET Feed : Poll(S))
  /\ WF_pipeline_vars(Send) /\ WF_pipeline_vars(Consume) /\ WF_pipeline_vars(Forward)
  /\ WF_pipeline_vars(run_replication) /\ WF_pipeline_vars(Discover)
  /\ WF_pipeline_vars(Call)

PipelineSpec == PipelineInit /\ [][PipelineNext]_pipeline_vars /\ PipelineFair

-----------------------------------------------------------------------------
\* Batches reach a follower in the order the leader indexed them: no store
\* ever goes back to an older observation, but for a request that is applied
\* after its call was given up.
NeverBack ==
  [][/\ \A d \in Feed : index'[d] >= index[d]
     /\ \/ \E c \in late : LateReplicate(c)
        \/ \A f \in Followers, d \in Feed : replica'[f][d] >= replica[f][d]]_pipeline_vars

\* Every snapshot polled is eventually indexed, whatever followers and the
\* coordinator do: "replication is best-effort and must not stall the data
\* plane".  The code does not keep this: nothing ends a call that is never
\* answered, both channels fill up and the producer waits for ever.
NeverStalls ==
  \A p \in 1 .. MaxPolls, d \in Owned :
    (fetched.poll = p /\ d \in fetched.docs) ~> index[d] >= p

\* It does as long as every call is answered or fails: followers that are
\* down, missing or failing, and lists that cannot be had, stall nothing.
DataPlaneMoves ==
  \A p \in 1 .. MaxPolls, d \in Owned :
    (fetched.poll = p /\ d \in fetched.docs) ~> (index[d] >= p \/ hung # {} \/ dark)

Drained ==
  /\ fetched = NoPoll /\ inbox = <<>> /\ ~indexed.full
  /\ outbox = <<>> /\ ~taken.full /\ calls = {}

\* When the pipeline is drained, a follower differs from its leader only in
\* documents whose latest batch it missed or which a late request set back: it
\* catches up with the next batch that has the document again ("the follower
\* catches up on the next batch"), and nothing else is lost or overtaken.
CatchesUp ==
  Drained => \A f \in Followers, d \in Feed : d \in missed[f] \/ replica[f][d] = index[d]
=============================================================================

-------------------------------- MODULE Vote --------------------------------
(***************************************************************************)
(* The vote of a raft member and its file (save_vote and read_vote of      *)
(* crates/consensus/src/wal.rs): write and sync a temporary file, rename   *)
(* it over the vote file, sync the directory, cache the vote in memory,    *)
(* and only then let the core (external: openraft) answer the candidate.   *)
(*                                                                         *)
(* A power loss undoes a rename whose directory was not synced, or does    *)
(* not.  A vote is a term and the candidate it went to; term 0 is None.    *)
(***************************************************************************)
EXTENDS Integers

CONSTANTS
  MaxVoteTerm,        \* bound: largest term
  Candidates      \* members that stand for election

ASSUME MaxVoteTermAssumption == MaxVoteTerm \in Nat

VARIABLES
  file,      \* the vote file
  stable,    \* the vote file that a power loss cannot undo
  vote,      \* the cached vote that the core reads
  req,       \* the vote being saved
  vpc,        \* progress of save_vote
  answered,  \* history: votes that candidates were told of
  skipped    \* history: a directory sync has failed, which is ignored

vote_vars == <<file, stable, vote, req, vpc, answered, skipped>>

Ballot == [term : 1 .. MaxVoteTerm, cand : Candidates]
None == [term |-> 0]
Stored == Ballot \cup {None}

VoteTypeOK ==
  /\ file \in Stored /\ stable \in Stored /\ vote \in Stored /\ req \in Stored
  /\ vpc \in {"idle", "tmp", "renamed", "synced", "down"}
  /\ answered \subseteq Ballot
  /\ skipped \in BOOLEAN

VoteInit ==
  /\ file = None /\ stable = None /\ vote = None /\ req = None
  /\ vpc = "idle"
  /\ answered = {}
  /\ skipped = FALSE

\* The core grants a vote for a later term, or again the vote it has.
Grants(b) == b.term > vote.term \/ b = vote

\* The temporary file is written and synced.
save_vote(b) ==
  /\ vpc = "idle"
  /\ Grants(b)
  /\ req' = b
  /\ vpc' = "tmp"
  /\ UNCHANGED <<file, stable, vote, answered, skipped>>

Rename ==
  /\ vpc = "tmp"
  /\ file' = req
  /\ vpc' = "renamed"
  /\ UNCHANGED <<stable, vote, req, answered, skipped>>

\* Mutant: no directory sync.
DirSync_Skipped ==
  /\ vpc = "renamed"
  /\ vpc' = "synced"
  /\ UNCHANGED <<file, stable, vote, req, answered, skipped>>

\* Best effort: an error is dropped.
DirSync ==
  /\ vpc = "renamed"
  /\ \/ stable' = file /\ skipped' = skipped
     \/ stable' = stable /\ skipped' = TRUE
  /\ vpc' = "synced"
  /\ UNCHANGED <<file, vote, req, answered>>

\* The vote is cached, save_vote returns and the candidate is answered.
Answer ==
  /\ vpc = "synced"
  /\ vote' = req
  /\ answered' = answered \cup {req}
  /\ req' = None
  /\ vpc' = "idle"
  /\ UNCHANGED <<file, stable, skipped>>

\* Mutant: the error is dropped, and the vote is cached and answered.
Fail_Dropped ==
  /\ vpc = "tmp"
  /\ vote' = req /\ req' = None
  /\ answered' = answered \cup {req}
  /\ vpc' = "idle"
  /\ UNCHANGED <<file, stable, skipped>>

\* An error of the write, the sync or the rename is returned: the core stops.
Fail ==
  /\ vpc = "tmp"
  /\ vote' = None /\ req' = None
  /\ vpc' = "down"
  /\ UNCHANGED <<file, stable, answered, skipped>>

PowerLoss ==
  /\ vpc # "down"
  /\ file' \in {file, stable}
  /\ stable' = file'
  /\ vote' = None /\ req' = None
  /\ vpc' = "down"
  /\ UNCHANGED <<answered, skipped>>

\* open reads the vote file once.
open_vote ==
  /\ vpc = "down"
  /\ vote' = file
  /\ vpc' = "idle"
  /\ UNCHANGED <<file, stable, req, answered, skipped>>

VoteNext ==
  \/ \E b \in Ballot : save_vote(b)
  \/ Rename \/ DirSync \/ Answer \/ Fail \/ PowerLoss \/ open_vote

VoteSpec == VoteInit /\ [][VoteNext]_vote_vars

-----------------------------------------------------------------------------
\* A member answers at most one candidate per term, also across power losses
\* and I/O errors at any point of save_vote ("a vote that isn't durable
\* before we answer a candidate is a double-vote waiting to happen"), as long
\* as no directory sync fails: that error alone is ignored by the code, and
\* a power loss then forgets a vote that was answered.
OneVotePerTerm ==
  ~skipped => \A a, b \in answered : a.term = b.term => a = b

\* Between two calls the core reads what the vote file holds, whichever step of
\* an earlier save failed or was cut short.
CacheIsFile == vpc = "idle" => vote = file
=============================================================================

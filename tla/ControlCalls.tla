---------------------------- MODULE ControlCalls ----------------------------
(***************************************************************************)
(* An operator's call on its way through the coordinators: bearer token    *)
(* (crates/coordinator/src/auth.rs), validation against the local view,    *)
(* ControlPlane::propose, and the forwarding of the whole call to the      *)
(* leader (drain_node and reassign_v_shard of service.rs).                 *)
(*                                                                         *)
(* External: raft's choice of a leader, each replica's belief about who    *)
(* leads (it lags), client_write at the leader (it returns once the        *)
(* command is committed, and has no timeout), and crashes.                 *)
(*                                                                         *)
(* A behaviour with calling = FALSE is one of Control, where commands are  *)
(* committed in one step; with calling = TRUE one call is followed in      *)
(* detail.                                                                 *)
(***************************************************************************)
EXTENDS Control

CONSTANTS
  Guarded,       \* coordinators whose AETHER_TOKENS_FILE is set
  Active,        \* bound: the replicas that do something when no call is followed
  MaxElections   \* bound: leaderships lost while the leader is up

ASSUME GuardedAssumption == Guarded \subseteq Replicas
ASSUME ActiveAssumption == Active \subseteq Replicas

None == "none"

\* The authorization header a client sends: missing, not in the table, or in it.
Tokens == {"missing", "unknown", "read", "operator"}

VARIABLES
  calling,   \* TRUE: this behaviour follows a call
  up,        \* coordinators that run
  leader,    \* leader of the state group, or None
  belief,    \* coordinator -> the leader its raft knows of, or None
  elections, \* leaderships lost
  call       \* the call: where it is and what became of it

call_vars == <<calling, up, leader, belief, elections, call>>
cvars == <<vars, call_vars>>

\* Requests also name nodes and tables that do not exist.
Requests ==
  [kind : {"ReassignVShard"}, vshard : {0, V}, group : {N - 1}]
    \cup [kind : {"DrainNode"}, node : Nodes]

NoCall ==
  [pc |-> "idle", req |-> None, token |-> None, bearer |-> None,
   at |-> None, visited |-> {}, answer |-> None, commits |-> 0]

CallsInit ==
  /\ Init
  /\ calling \in BOOLEAN
  /\ up = Replicas
  /\ leader = None
  /\ belief = [r \in Replicas |-> None]
  /\ elections = 0
  /\ call = NoCall

Majorities == {Q \in SUBSET Replicas : 2 * Cardinality(Q) > Cardinality(Replicas)}

Quorum == up \in Majorities

-----------------------------------------------------------------------------
(* auth.rs                                                                 *)

rank(scope) == IF scope = "operator" THEN 2 ELSE 1

satisfies(scope, needed) == rank(scope) >= rank(needed)

require(r, token, needed) ==
  IF r \notin Guarded THEN "ok"
  ELSE IF token \in {"missing", "unknown"} THEN "unauthenticated"
  ELSE IF satisfies(token, needed) THEN "ok" ELSE "permission_denied"

-----------------------------------------------------------------------------
(* The call                                                                *)

Keep == UNCHANGED <<calling, up, leader, belief, elections>>

Answer(a) == call' = [call EXCEPT !.pc = "done", !.answer = a]

\* The client calls any coordinator that runs.
Send(r, req, token) ==
  /\ call.pc = "idle" /\ r \in up
  /\ call' = [call EXCEPT !.pc = "received", !.req = req, !.token = token,
                          !.bearer = token, !.at = r, !.visited = {r}]
  /\ Keep /\ UNCHANGED vars

Valid(r, req) ==
  IF req.kind = "DrainNode" THEN req.node \in known[r]
  ELSE validate_reassign(req.vshard, req.group)

\* The head of drain_node and of reassign_v_shard: token, then the local view,
\* read under a lock that is released before the proposal.
Handle ==
  /\ call.pc = "received" /\ call.at \in up
  /\ LET verdict == require(call.at, call.bearer, "operator")
     IN \/ verdict # "ok" /\ Answer(verdict)
        \/ verdict = "ok" /\ ~Valid(call.at, call.req) /\ Answer("refused")
        \/ /\ verdict = "ok" /\ Valid(call.at, call.req)
           /\ call' = [call EXCEPT !.pc = "proposing"]
  /\ Keep /\ UNCHANGED vars

\* bearer_of, forward: the caller's credential travels with the call.
\* Mutant: the forwarded request is a new one, without its metadata.
forward_NoBearer(r) ==
  call' = [call EXCEPT !.pc = "received", !.at = r, !.bearer = "missing",
                       !.visited = @ \cup {r}]

forward(r) ==
  call' = [call EXCEPT !.pc = "received", !.at = r, !.visited = @ \cup {r}]

\* Mutant: a follower sends the call to the coordinator that bootstraps.
propose_call_ToFirst ==
  /\ call.pc = "proposing" /\ call.at \in up
  /\ LET first == CHOOSE r \in Replicas : TRUE
     IN \/ call.at = leader /\ call' = [call EXCEPT !.pc = "committing"]
        \/ call.at # leader /\ first \in up /\ forward(first)
        \/ call.at # leader /\ first \notin up /\ Answer("unavailable")
  /\ Keep /\ UNCHANGED vars

\* ControlPlane::propose and what the handler makes of its result.
propose_call ==
  /\ call.pc = "proposing" /\ call.at \in up
  /\ LET to == belief[call.at]
     IN \/ call.at = leader /\ call' = [call EXCEPT !.pc = "committing"]
        \/ /\ call.at # leader /\ to \notin {None, call.at}
           /\ IF to \in up THEN forward(to) ELSE Answer("unavailable")
        \/ call.at # leader /\ to \in {None, call.at} /\ Answer("unavailable")
  /\ Keep /\ UNCHANGED vars

\* client_write returns: the command is in the log.  The caller may have gone.
Commit ==
  /\ call.pc \in {"committing", "orphan"} /\ call.at = leader /\ Quorum
  /\ propose(call.req)
  /\ call' = [call EXCEPT !.pc = "done", !.commits = @ + 1,
                          !.answer = IF call.pc = "orphan" THEN @ ELSE "ok"]
  /\ Keep

\* The leader lost its office before the command was committed: its entry was
\* cut off, and the write fails with the new leader's name.
Deposed ==
  /\ call.pc \in {"committing", "orphan"} /\ call.at # leader /\ call.at \in up
  /\ call' = [call EXCEPT !.pc = IF @ = "orphan" THEN "done" ELSE "proposing"]
  /\ Keep /\ UNCHANGED vars

\* The connection of a forwarded call breaks: the caller is told so, and what
\* the leader has begun goes on.
Lose ==
  /\ call.pc \in {"received", "proposing", "committing"} /\ call.visited # {call.at}
  /\ call' = [call EXCEPT !.answer = "unavailable",
                          !.pc = IF @ = "committing" THEN "orphan" ELSE "done"]
  /\ Keep /\ UNCHANGED vars

-----------------------------------------------------------------------------
(* The state group (external)                                              *)

Elect(r) ==
  /\ r \in up /\ r # leader /\ Quorum
  /\ leader \in up => elections < MaxElections
  /\ leader' = r
  /\ elections' = IF leader \in up THEN elections + 1 ELSE elections
  /\ belief' = [belief EXCEPT ![r] = r]
  /\ UNCHANGED <<vars, calling, up, call>>

Believe(r) ==
  /\ r \in up /\ leader # None /\ belief[r] # leader
  /\ belief' = [belief EXCEPT ![r] = leader]
  /\ UNCHANGED <<vars, calling, up, leader, elections, call>>

\* A coordinator stops for good; a call it works on is cut short.
Crash(r) ==
  /\ r \in up /\ up # {r}
  /\ up' = up \ {r}
  /\ call' = IF r = call.at /\ call.pc \in {"received", "proposing", "committing", "orphan"}
             THEN [call EXCEPT !.pc = "done", !.answer = "unavailable"] ELSE call
  /\ UNCHANGED <<vars, calling, leader, belief, elections>>

-----------------------------------------------------------------------------
Calls ==
  \/ \E r \in Replicas, req \in Requests, token \in Tokens : Send(r, req, token)
  \/ Handle
  \/ propose_call
  \/ Commit
  \/ Deposed
  \/ Lose

Cluster ==
  \E r \in Replicas :
    \/ Elect(r) \/ Believe(r) \/ Crash(r)
    \/ \E n \in Nodes : (Learn(r, n) \/ Reap(r, n)) /\ UNCHANGED call_vars

CallsNext ==
  \/ ~calling /\ Steps(Active) /\ UNCHANGED call_vars
  \/ calling /\ (Calls \/ Cluster)

\* A handler's code runs; raft elects while a majority is up, and its replicas
\* learn of the leader; an entry that is cut off or committed is answered.
CallsFair ==
  /\ WF_cvars(calling /\ (Handle \/ propose_call \/ Commit \/ Deposed))
  /\ WF_cvars(calling /\ leader \notin up /\ \E r \in Replicas : Elect(r))
  /\ \A r \in Replicas : WF_cvars(calling /\ Believe(r))

CallsSpec == CallsInit /\ [][CallsNext]_cvars /\ CallsFair

-----------------------------------------------------------------------------
Authorised(r) == r \notin Guarded \/ call.token = "operator"

\* The answer is the truth about the log: ok means the command was committed,
\* once; a refusal of any kind means it was not; a broken call means at most
\* once.  Nothing is committed unless every coordinator the call came through
\* that checks tokens would let its sender do it, and nobody is turned away
\* for a credential that each of them accepts ("the leader authorizes it too").
CallHonest ==
  /\ call.answer = "ok" => call.commits = 1
  /\ call.answer \in {"refused", "unauthenticated", "permission_denied"} => call.commits = 0
  /\ call.commits <= 1
  /\ call.commits = 1 => \A r \in call.visited : Authorised(r)
  /\ call.answer \in {"unauthenticated", "permission_denied"} =>
       \E r \in call.visited : ~Authorised(r)

\* A call is answered, however the replicas' beliefs about the leader send it
\* round, unless the group has lost its majority (a leader's write then waits).
CallEnds == (call.pc = "received" /\ Quorum) ~> (call.answer # None \/ ~Quorum)
=============================================================================

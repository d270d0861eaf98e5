------------------------------ MODULE Control ------------------------------
(***************************************************************************)
(* The coordinator state group: operator intent (the vshard placement      *)
(* table and the drain set) replicated across coordinators                 *)
(* (crates/coordinator/src/control.rs, the authority half of registry.rs,  *)
(* the handlers drain_node and reassign_v_shard of service.rs), in the     *)
(* state machine store of crates/consensus/src/storage.rs.                 *)
(*                                                                         *)
(* The store keeps the registry and last_applied under two locks.  Its     *)
(* worker changes the registry and then last_applied; a snapshot builder   *)
(* reads them in the same order, in a task of its own, so a step of the    *)
(* worker may fall between its two reads: the snapshot is then torn.       *)
(* Writing snapshots to disk is left to SnapshotStore; here the latest one *)
(* survives a restart.                                                     *)
(*                                                                         *)
(* External: the group's raft log, a sequence of committed commands; each  *)
(* replica applies it in order.  A follower forwards the whole call to the *)
(* leader, which validates it again.  A replica restarts from its latest   *)
(* snapshot, or receives one, and replays the log behind it.  The bytes of *)
(* a snapshot are those that snapshot_bytes wrote, so they can be decoded. *)
(***************************************************************************)
EXTENDS Integers, Sequences, FiniteSets

CONSTANTS
  Replicas,   \* coordinators
  Nodes,      \* shard nodes that may be drained
  N,          \* shard_count
  V,          \* number of virtual shards, fixed at construction
  MaxLog      \* bound: committed commands

ASSUME NAssumption == N \in Nat \ {0}
ASSUME VAssumption == V \in Nat
ASSUME MaxLogAssumption == MaxLog \in Nat

Groups == 0 .. N - 1
VShards == 0 .. V - 1
Table == [VShards -> Groups]

Command ==
  [kind : {"ReassignVShard"}, vshard : VShards, group : Groups]
    \cup [kind : {"DrainNode"}, node : Nodes]

VARIABLES
  log,       \* committed commands
  known,     \* replica -> nodes in its view (heartbeats, reaper)
  applied,   \* replica -> last_applied, as a number of commands
  vshards,   \* replica -> placement table
  draining,  \* replica -> drain set
  version,   \* replica -> placement_version
  snap,      \* replica -> its latest snapshot
  worker,    \* replica -> the snapshot or command it has put into the registry
             \* and not yet into last_applied, Idle if none
  builder,   \* replica -> what its builder read from the registry, Idle if none
  torn       \* replicas whose registry stems from a torn snapshot (history)

vars == <<log, known, applied, vshards, draining, version, snap, worker, builder, torn>>

\* with_vshards
RoundRobin == [v \in VShards |-> v % N]

\* A snapshot: the position it names, its Authority, and whether it is torn.
Authority == [index : Nat, vshards : Table, draining : SUBSET Nodes, torn : BOOLEAN]

Empty == [index |-> 0, vshards |-> RoundRobin, draining |-> {}, torn |-> FALSE]

\* A task at the position `to` of the log, with a snapshot
Job == [to : Nat, snap : Authority]
Idle == [to |-> 0, snap |-> Empty]

TypeOK ==
  /\ log \in Seq(Command)
  /\ known \in [Replicas -> SUBSET Nodes]
  /\ applied \in [Replicas -> Nat]
  /\ vshards \in [Replicas -> Table]
  /\ draining \in [Replicas -> SUBSET Nodes]
  /\ version \in [Replicas -> Nat]
  /\ snap \in [Replicas -> Authority]
  /\ worker \in [Replicas -> Job]
  /\ builder \in [Replicas -> Job]
  /\ torn \subseteq Replicas

Init ==
  /\ log = <<>>
  /\ known = [r \in Replicas |-> {}]
  /\ applied = [r \in Replicas |-> 0]
  /\ vshards = [r \in Replicas |-> RoundRobin]
  /\ draining = [r \in Replicas |-> {}]
  /\ version = [r \in Replicas |-> 0]
  /\ snap = [r \in Replicas |-> Empty]
  /\ worker = [r \in Replicas |-> Idle]
  /\ builder = [r \in Replicas |-> Idle]
  /\ torn = {}

-----------------------------------------------------------------------------
(* Operator calls, at the replica that commits them                        *)

propose(cmd) ==
  /\ Len(log) < MaxLog
  /\ log' = Append(log, cmd)
  /\ UNCHANGED <<known, applied, vshards, draining, version, snap, worker, builder, torn>>

validate_reassign(v, g) == v \in VShards /\ g \in Groups

reassign_v_shard(r, v, g) ==
  IF validate_reassign(v, g)
  THEN propose([kind |-> "ReassignVShard", vshard |-> v, group |-> g])
  ELSE UNCHANGED vars

\* The node must be known to the proposer's view, and only to that one.
drain_node(r, n) ==
  IF n \in known[r] THEN propose([kind |-> "DrainNode", node |-> n])
  ELSE UNCHANGED vars

-----------------------------------------------------------------------------
(* The state machine of replica r: the worker                              *)

\* How far the registry is in the log
Reached(r) == IF worker[r].to > 0 THEN worker[r].to ELSE applied[r]

\* StateMachineStore::apply: the command goes to the registry, ...
Apply(r) ==
  /\ worker[r] = Idle
  /\ applied[r] < Len(log)
  /\ worker' = [worker EXCEPT ![r].to = applied[r] + 1]
  /\ LET cmd == log[applied[r] + 1]
     IN \/ /\ cmd.kind = "ReassignVShard"
           /\ vshards' = [vshards EXCEPT ![r][cmd.vshard] = cmd.group]
           /\ version' = [version EXCEPT ![r] = @ + 1]
           /\ UNCHANGED draining
        \/ /\ cmd.kind = "DrainNode"
           /\ draining' = [draining EXCEPT ![r] = @ \cup {cmd.node}]
           /\ UNCHANGED <<vshards, version>>
  /\ UNCHANGED <<log, known, applied, snap, builder, torn>>

\* set_authority
SetAuthority(r, s, ver) ==
  /\ vshards' = [vshards EXCEPT ![r] = s.vshards]
  /\ draining' = [draining EXCEPT ![r] = s.draining]
  /\ version' = [version EXCEPT ![r] = ver + 1]
  /\ torn' = IF s.torn THEN torn \cup {r} ELSE torn \ {r}

\* install_snapshot, of a leader's snapshot at a replica that lags ...
InstallSnapshot(r, s) ==
  /\ worker[r] = Idle
  /\ snap[s].index > applied[r]
  /\ SetAuthority(r, snap[s], version[r])
  /\ worker' = [worker EXCEPT ![r] = [to |-> snap[s].index, snap |-> snap[s]]]
  /\ UNCHANGED <<log, known, applied, snap, builder>>

\* ... and under the second lock last_applied, with the snapshot if it was one.
Record(r) ==
  /\ worker[r] # Idle
  /\ applied' = [applied EXCEPT ![r] = worker[r].to]
  /\ snap' = IF worker[r].snap.index > 0 THEN [snap EXCEPT ![r] = worker[r].snap] ELSE snap
  /\ worker' = [worker EXCEPT ![r] = Idle]
  /\ UNCHANGED <<log, known, vshards, draining, version, builder, torn>>

-----------------------------------------------------------------------------
(* ... and the snapshot builder                                            *)

\* Mutant: the drain set is left out of the snapshot.
snapshot_bytes_NoDrains(r) ==
  [index |-> applied[r], vshards |-> vshards[r], draining |-> {}, torn |-> r \in torn]

snapshot_bytes(r) ==
  [index |-> applied[r], vshards |-> vshards[r], draining |-> draining[r], torn |-> r \in torn]

\* build_snapshot reads the registry, ...
BuildSnapshot(r) ==
  /\ builder[r] = Idle
  /\ applied[r] > snap[r].index
  /\ builder' = [builder EXCEPT ![r] = [to |-> Reached(r), snap |-> snapshot_bytes(r)]]
  /\ UNCHANGED <<log, known, applied, vshards, draining, version, snap, worker, torn>>

\* ... then last_applied, and keeps the snapshot.
BuildMeta(r) ==
  /\ builder[r] # Idle
  /\ snap' = [snap EXCEPT ![r] = [builder[r].snap EXCEPT
                 !.index = applied[r],
                 !.torn = @ \/ builder[r].to # applied[r]]]
  /\ builder' = [builder EXCEPT ![r] = Idle]
  /\ UNCHANGED <<log, known, applied, vshards, draining, version, worker, torn>>

-----------------------------------------------------------------------------
(* Restarts, and the view of the nodes                                     *)

\* A new registry, then the snapshot if there is one; the view is rebuilt.
Restart(r) ==
  /\ Reached(r) > 0
  /\ IF snap[r].index > 0 THEN SetAuthority(r, snap[r], 0)
     ELSE /\ vshards' = [vshards EXCEPT ![r] = RoundRobin]
          /\ draining' = [draining EXCEPT ![r] = {}]
          /\ version' = [version EXCEPT ![r] = 0]
          /\ torn' = torn \ {r}
  /\ applied' = [applied EXCEPT ![r] = snap[r].index]
  /\ worker' = [worker EXCEPT ![r] = Idle]
  /\ builder' = [builder EXCEPT ![r] = Idle]
  /\ known' = [known EXCEPT ![r] = {}]
  /\ UNCHANGED <<log, snap>>

Learn(r, n) ==
  /\ n \notin known[r]
  /\ known' = [known EXCEPT ![r] = @ \cup {n}]
  /\ UNCHANGED <<log, applied, vshards, draining, version, snap, worker, builder, torn>>

\* Mutant: the reaper clears the marker of a node it drops.
Reap_ClearsMarker(r, n) ==
  /\ n \in known[r]
  /\ known' = [known EXCEPT ![r] = @ \ {n}]
  /\ draining' = [draining EXCEPT ![r] = @ \ {n}]
  /\ UNCHANGED <<log, applied, vshards, version, snap, worker, builder, torn>>

\* reap_dead: authority_replicated, so the drain set is left alone.
Reap(r, n) ==
  /\ n \in known[r]
  /\ known' = [known EXCEPT ![r] = @ \ {n}]
  /\ UNCHANGED <<log, applied, vshards, draining, version, snap, worker, builder, torn>>

-----------------------------------------------------------------------------
\* What the replicas in R do
Steps(R) ==
  \E r \in R :
    \/ \E v \in 0 .. V, g \in 0 .. N : reassign_v_shard(r, v, g)
    \/ \E n \in Nodes : drain_node(r, n) \/ Learn(r, n) \/ Reap(r, n)
    \/ Apply(r) \/ Record(r)
    \/ BuildSnapshot(r) \/ BuildMeta(r)
    \/ \E s \in Replicas : InstallSnapshot(r, s)
    \/ Restart(r)

Next == Steps(Replicas)

Spec == Init /\ [][Next]_vars

-----------------------------------------------------------------------------
(* What the log says, independently of the order replicas work in          *)

Moves(k, v) ==
  {i \in 1 .. Len(log) : i <= k /\ log[i].kind = "ReassignVShard" /\ log[i].vshard = v}

\* g is where the first k commands put v.
PutsAt(k, v, g) ==
  \/ Moves(k, v) = {} /\ g = v % N
  \/ \E i \in Moves(k, v) : log[i].group = g /\ \A j \in Moves(k, v) : j <= i

DrainedBy(k) ==
  {n \in Nodes : \E i \in 1 .. Len(log) :
     i <= k /\ log[i].kind = "DrainNode" /\ log[i].node = n}

\* Every replica holds what the log up to its position says, through any mix
\* of applying, restoring and installing snapshots that are built while it
\* goes on, and whatever its view of the nodes is ("apply must depend only on
\* replicated state, never on this replica's local view").  The exception is
\* a replica whose state goes back to a torn snapshot, its own or another's.
AuthorityIsLog ==
  \A r \in Replicas \ torn :
    /\ \A v \in VShards : PutsAt(Reached(r), v, vshards[r][v])
    /\ draining[r] = DrainedBy(Reached(r))

\* A replica does not lose a drain marker while it runs, neither to its
\* reaper, nor to a snapshot it is sent, unless that one is torn or replaces
\* what a torn one left ("a local reap-triggered edit would silently diverge the
\* replicas").
IntentKept ==
  [][\A r \in Replicas :
       draining[r] \subseteq draining'[r] \/ Restart(r) \/ r \in torn \cup torn']_vars
=============================================================================

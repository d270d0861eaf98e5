----------------------------- MODULE Supervisor -----------------------------
(***************************************************************************)
(* The dashboard's process supervisor (crates/dashboard/src/supervisor.rs) *)
(* and the handlers and shutdown of main.rs that use it: child processes   *)
(* are started, killed on demand, and torn down on ctrl-c.                 *)
(*                                                                         *)
(* Handlers run concurrently.  Starting a process and entering it in the   *)
(* table are two steps: the lock of the table is taken for the second.     *)
(* On ctrl-c no new request is taken; those that were taken go on, also if *)
(* their handler has not begun, and when they are done main returns and    *)
(* drops the supervisor.  A signal before main serves goes to the whole    *)
(* process group and is not modelled.                                      *)
(***************************************************************************)
EXTENDS Integers, FiniteSets

CONSTANTS
  ShardCount,    \* shards of the local cluster
  MaxAdds        \* bound: followers that are added

ASSUME SupervisorAssumption == ShardCount \in Nat /\ MaxAdds \in Nat

Coordinator == [shard |-> -1, name |-> "coordinator", seq |-> 0]

\* Process names: shard<i>-leader, shard<i>-f<seq>, shard<i>-m<seq>
Name(shard, name, seq) == [shard |-> shard, name |-> name, seq |-> seq]

VARIABLES
  mode_raft,     \* consensus mode: groups of three members
  remote,        \* an existing cluster is observed, none is started
  serving,       \* "booting", "serving", "stopping" or "exited"
  children,      \* names in the table, with the process each stands for
  running,       \* processes that run
  started,       \* processes started so far, which number them
  follower_seq,  \* next sequence number of a follower
  adding         \* add_follower requests under way: [id, process]

sup_vars == <<mode_raft, remote, serving, children, running, started, follower_seq, adding>>

\* spawn_initial_topology
InitialTopology ==
  UNION {IF mode_raft THEN {Name(s, "m", i) : i \in 0 .. 2}
         ELSE {Name(s, "leader", 0), Name(s, "f", 0)} : s \in 0 .. ShardCount - 1}

Spawned == IF remote THEN {} ELSE {Coordinator} \cup InitialTopology

SupervisorInit ==
  /\ mode_raft \in BOOLEAN /\ remote \in BOOLEAN
  /\ serving = "booting"
  /\ children = {} /\ running = {} /\ adding = {}
  /\ started = 0 /\ follower_seq = 1

\* HashMap::insert: an entry of the same name is replaced, and its process, of
\* which the handle is gone, runs on.
Enter(id, p) == {c \in children : c.id # id} \cup {[id |-> id, process |-> p]}

\* main, before it serves: one process after the other
Boot(id) ==
  /\ serving = "booting"
  /\ id \in Spawned
  /\ \A c \in children : c.id # id
  /\ id # Coordinator => \E c \in children : c.id = Coordinator
  /\ started' = started + 1
  /\ running' = running \cup {started'}
  /\ children' = Enter(id, started')
  /\ UNCHANGED <<mode_raft, remote, serving, follower_seq, adding>>

Serve ==
  /\ serving = "booting"
  /\ {c.id : c \in children} = Spawned
  /\ serving' = "serving"
  /\ UNCHANGED <<mode_raft, remote, children, running, started, follower_seq, adding>>

\* Mutant: the number is read, and written back when the process is entered.
add_follower_ReadsSeq(shard) ==
  /\ serving \in {"serving", "stopping"} /\ started < Cardinality(Spawned) + MaxAdds
  /\ started' = started + 1
  /\ running' = running \cup {started'}
  /\ adding' = adding \cup {[id |-> Name(shard, "f", follower_seq), process |-> started']}
  /\ UNCHANGED <<mode_raft, remote, serving, children, follower_seq>>

\* api_add_follower: fetch_add, spawn ...
add_follower(shard) ==
  /\ serving \in {"serving", "stopping"} /\ started < Cardinality(Spawned) + MaxAdds
  /\ follower_seq' = follower_seq + 1
  /\ started' = started + 1
  /\ running' = running \cup {started'}
  /\ adding' = adding \cup {[id |-> Name(shard, "f", follower_seq), process |-> started']}
  /\ UNCHANGED <<mode_raft, remote, serving, children>>

\* ... and insert, which a shutdown may come before.
Insert(a) ==
  /\ a \in adding
  /\ adding' = adding \ {a}
  /\ children' = Enter(a.id, a.process)
  /\ UNCHANGED <<mode_raft, remote, serving, running, started, follower_seq>>

\* The process cannot be started: nothing but the sequence number has changed,
\* or main fails, for this or for its listener, and drops the supervisor.
SpawnFails ==
  /\ \/ /\ serving \in {"serving", "stopping"} /\ follower_seq <= MaxAdds
        /\ follower_seq' = follower_seq + 1
        /\ UNCHANGED <<serving, children, running>>
     \/ /\ serving = "booting" /\ serving' = "exited"
        /\ running' = running \ {c.process : c \in children} /\ children' = {}
        /\ UNCHANGED follower_seq
  /\ UNCHANGED <<mode_raft, remote, started, adding>>

\* Kill and wait, under the lock
kill(id) ==
  /\ serving \in {"serving", "stopping"}
  /\ \E c \in children :
       /\ c.id = id
       /\ children' = children \ {c}
       /\ running' = running \ {c.process}
  /\ UNCHANGED <<mode_raft, remote, serving, started, follower_seq, adding>>

\* A process ends on its own; its entry stays.
Die(p) ==
  /\ p \in running
  /\ running' = running \ {p}
  /\ UNCHANGED <<mode_raft, remote, serving, children, started, follower_seq, adding>>

Killed == running \ {c.process : c \in children}

\* Ctrl-c: kill_all
CtrlC ==
  /\ serving = "serving"
  /\ serving' = "stopping"
  /\ running' = Killed /\ children' = {}
  /\ UNCHANGED <<mode_raft, remote, started, follower_seq, adding>>

\* The requests taken are done: main returns, and Drop kills what was entered late.
Exit ==
  /\ serving = "stopping" /\ adding = {}
  /\ serving' = "exited"
  /\ running' = Killed /\ children' = {}
  /\ UNCHANGED <<mode_raft, remote, started, follower_seq, adding>>

SupervisorNext ==
  \/ \E id \in Spawned : Boot(id)
  \/ Serve
  \/ \E s \in 0 .. ShardCount - 1 : add_follower(s)
  \/ \E a \in adding : Insert(a)
  \/ SpawnFails
  \/ \E id \in {c.id : c \in children} : kill(id)
  \/ \E p \in running : Die(p)
  \/ CtrlC
  \/ Exit

-----------------------------------------------------------------------------
\* A process never runs without a handle that the kill button, ctrl-c or the
\* drop of the supervisor can use, however requests that add and kill processes
\* overlap with each other and with the shutdown; and when the dashboard has
\* ended nothing runs ("make ctrl-c tear down every child process - never
\* orphan the cluster").
NoOrphans ==
  /\ running \subseteq {c.process : c \in children} \cup {a.process : a \in adding}
  /\ serving = "exited" => running = {}
=============================================================================

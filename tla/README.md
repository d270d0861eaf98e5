# Formal models of aether-engine

TLA+ models of the distributed core of aether-engine: a sharded search engine
for live observations, with a coordinator (registry, placement, query fan-out),
shard nodes (indexes, ingestion, raft groups) and a consensus crate that puts
`openraft` on a write-ahead log and snapshots. Every module is written from the
Rust source; `PROJECT.json` ("map") names the lines each definition stands for.

Run anything from this directory: `tlc -workers 2 -config LogStore.cfg LogStore`,
`tlapm LogStoreProofs.tla`.

## 1. The system

### Parts, state, operations

| Part (source under `crates/`) | State | Operations that change it | What makes it hard |
|---|---|---|---|
| Registry and reaper (`coordinator/src/registry.rs`, `main.rs`, `service.rs`) | leader per shard, follower lists, last-seen times, drain markers, vshard table | register, heartbeat, raft-leader report, reap + promote, drain, restart | two sources of truth about leadership (coordinator and raft), entries that outlive the process they describe |
| Replicated control plane (`coordinator/src/control.rs`, `service.rs`) | log of operator commands, table and drain set of each replica, snapshots | propose, apply, snapshot, install, restart | replicas apply at different times, restore from snapshots, and have different views of the nodes |
| Operator calls (`coordinator/src/service.rs`, `auth.rs`, `control.rs`) | one call: token, validation, proposal, forwarding | drain_node, reassign_v_shard at any replica | replicas believe in different leaders; the answer of a forwarded call is lost; each hop checks the token again |
| Query fan-out (`coordinator/src/fanout.rs`, `service.rs`) | progressive merge of one query | shard answers, fails or times out; final update | answers in any order; two shards hold one aircraft while a vshard moves |
| Aggregation, hybrid search, federation (`coordinator/src/agg.rs`, `hybrid.rs`, `federation/src/lib.rs`, `common/src/tdigest.rs`, `shard-node/src/agg.rs`) | none beyond the query | merge of partial counts and digests, rank fusion, merge of merged answers | the result must not depend on the order of answers or on how shards are spread over clusters |
| Write-ahead log (`consensus/src/wal.rs`) | segment files, state in RAM | append, truncate, purge, save committed, rotate, GC, recover | a crash at every write; GC must not take away what replay needs |
| Vote file (`consensus/src/wal.rs`) | vote file, cached vote | save_vote, recover | rename and directory sync around a power loss |
| Snapshot store, S3 tier (`consensus/src/storage.rs`, `s3.rs`) | application state, last_applied, membership, snapshot files and objects | apply, build, persist, upload, install, restart on the same or a new disk | the builder runs next to the worker; writes fail silently |
| Shard store (`shard-node/src/store.rs`, `index.rs`, `vector.rs`) | inverted index, vector index with tombstones | insert, evict a vshard, replace all | slot reuse, tombstones, rebuilds, in two indexes that must agree |
| Searches of a shard (`shard-node/src/server.rs`, `index.rs`, `vector.rs`, `common/src/filter.rs`) | none | keyword, flat, quantized and graph search, filters, limits | retired slots, tombstones and replaced vectors compete with live documents for the places of a limited search |
| Placement (`shard-node/src/ingest.rs`, `raft/eviction.rs`, `raft/bootstrap.rs`, `main.rs`) | each node's view of the vshard table, what each group holds | refresh the view, fetch, filter, write through raft, evict | a view, a batch and a leadership that are all stale by the time they are used |
| Group formation (`shard-node/src/raft/bootstrap.rs`, `cluster.rs`, `main.rs`) | what each coordinator lists, who initialized | register, poll, initialize | founders see different lists |
| Membership reconciler (`shard-node/src/raft/reconcile.rs`) | raft membership, one pass per member | list, compare, remove, add learner, promote | a pass acts on snapshots of intent and authority; leadership moves in between |
| Legacy ingestion and replication (`shard-node/src/ingest.rs`, `replication.rs`) | two bounded channels, leader and follower stores | fetch, index, forward, push | back-pressure, best-effort delivery |
| Agent memory (`memory/src/lib.rs`) | entries per namespace | remember, sweep, recall | the clock is the caller's; 64-bit sums; quota over what is still live |
| Query agent and briefing (`nlq/src/lib.rs`, `briefing/src/lib.rs`, `agent-tools`) | observations and provenance of a question, mails of a round | model step, tool call, mail | failures in the middle; a budget; an allowlist |
| Process supervisor (`dashboard/src/supervisor.rs`, `main.rs`) | table of child processes | boot, add a follower, kill, shutdown | a process is started before it is entered in the table |

How they interact: shard nodes register with and send heartbeats to every
coordinator, which routes queries by its registry; raft members report who
leads, and the reaper promotes followers of legacy shards. Operators drain
nodes and move virtual shards through the control plane; nodes poll the table
and the drain list and act on them (placement, reconciler). Both raft users,
the control plane and the shard groups, sit on the same log, vote file and
snapshot store. The agents, federation and the dashboard are clients of the
coordinators.

Not modelled, and why, is in section 7 and per component in `PROJECT.json`.

### What could go wrong

`PROJECT.json` ("hazards") lists it line by line. In short: crashes between
the steps of a multi-step write; state read at one moment and used at another
(tables, voter sets, lists of members, `last_applied`); answers and batches out
of order; a node listed twice; channels that fill up; everyone waiting for
somebody else to bootstrap.

## 2. Modules

| Module | Models | Composition |
|---|---|---|
| `Registry` | shard map of one coordinator | |
| `Control` | replicated operator intent | takes the authority half of registry.rs |
| `ControlCalls` (+ `ControlProofs`, of both) | one operator call among the replicas, token checks | extends `Control`, whose log it commits to |
| `Wal` | write-ahead log | |
| `Vote` | vote file | |
| `SnapshotStore` (+ `SnapshotProofs`) | snapshots, local and S3 | |
| `LogStore` (+ `LogStoreProofs`) | the storage of one raft member | `Wal`, `Vote` and `SnapshotStore` side by side: they share no file and no lock |
| `ShardStore` | both indexes | implements `DocumentMap` twice |
| `ShardSearch` (+ `MCShardStore`) | searches of one shard | operators over the state of `ShardStore` |
| `DocumentMap` | abstract map from aircraft to latest document | |
| `Placement` (+ `MCPlacement`, `PlacementProofs`) | moving virtual shards | composes table views, ingestion, eviction and the groups' logs |
| `GroupFormation` | bootstrap of a raft group | |
| `Reconciler` | membership changes | |
| `Membership` (+ `MembershipProofs`) | the two stages of a group's life | composes `GroupFormation` and `Reconciler` |
| `Replication` (+ `ReplicationProofs`) | legacy pipeline | |
| `Fanout` | one query, one-shot and progressive | both merges over the same arrivals |
| `TDigest` | the digest behind percentiles | |
| `Queries` (+ `MCFanout`) | aggregates, hybrid search, federation | operators over the answers of `Fanout` and over `TDigest` |
| `Agents`, `Memory`, `Supervisor` | the clients in front of the engine | |
| `Frontends` | the three side by side | explores each from the others' initial states: they share nothing |
| `Services` | what keeps its state in one process behind a lock | `Registry` and `Frontends`, side by side |
| `SearchProofs` | theorems about `Fanout`, `Queries`, `ShardStore` and `ShardSearch` | |
| `ServiceProofs` | theorems about `Registry` and `Frontends` | |

An action is a whole handler when the code holds a lock from beginning to end
(Registry, ShardStore, Memory), and one awaited, separately locked or fallible
step when it does not (Control, Wal, Vote, SnapshotStore, Reconciler, Placement,
Replication). In Control and SnapshotStore the worker of a replica writes the
application and then `last_applied`, and the builder of a snapshot reads them in
the same two steps, so that each can come between the two of the other. What
belongs to `openraft`, the file system or a remote process is an environment
action, marked external in the map: elections, commits, purges, power losses,
coordinators and followers that hang, requests that arrive after their caller
has given up. Operators named `X_Something` with a comment
that begins with "Mutant" are faulty variants of `X`: replacing `X` by the
variant breaks the property it is listed with, which shows that the property
depends on that piece of code.

Abstractions: an `Instant` is its age, saturated above the timeout; log ids are
indexes; a frame's CRC becomes "a crash leaves a prefix of the unsynced
frames"; a document is a key, a text and a revision, or the number of the
poll that observed it; embeddings and scores are opaque or small numbers; a digest's means are
rationals with the weight as denominator; a filter is the set of revisions it
passes; of the points of the graph a search lists any, up to the number it asked
for, nearest first (vector.rs:405: "HNSW guarantees *near*-nearest, not exact recall");
an output of a tool holds a manifest of the engine or none, and any few lines
that merely begin like one. In `Memory`, `Width` and `Milli` stand for 2^64 and 1000 so that
the sum of `expired_at` wraps within the bounds, as it does in a release build.

## 3. Runs

| Run | Bounds | Distinct states | What it shows |
|---|---|---|---|
| `services` | 2 nodes, 2 shards, timeout 1, at most 3 follower entries; 2 questions, 2 tool calls, 1 lookalike line per output, 3 recipients; 2 namespaces, 2 writers, quota 2, 3 writes, times 0 to 4 of 8; 1 shard, 2 added followers; nodes, namespaces and writers symmetric | 965 000 | `NeverForgotten`, `LiveLeaderKept`, `FailoverComplete`, `DrainSticky`, `BriefingHonest`, `MemoryGoverned`, `NoOrphans` |
| `log_store` | 3 indexes, 2 terms, batches of 2, segments of 2 or 3 records, 6 records; 3 candidates, 3 vote terms; 3 entries, one of them a membership change, 1 restart | 6 336 000 | `NoLoss`, `ReplayExact`, `OneVotePerTerm`, `CacheIsFile` at every crash point; `QuietStateMatchesLog`, `SnapshotsExact`, `PurgeCovered`, `NewestKept` |
| `snapshot_apply_race` | 2 entries, the first of which is the initial membership, 1 restart | violation | finding 1: `NothingLost` |
| `membership` | 3 founders, 1 joiner, 2 coordinators, 1 restart; then 4 nodes, 3 voters, 2 drains, 1 fault | 757 000 | `OneGroup`, `GroupForms`, `Floor`, `OnlyDrainedLeave`, `Converges` |
| `hard_floor` | 4 voters, 2 drains, no fault | violation | finding 2: `HardFloor` |
| `control` | 3 replicas, 2 of which take calls and check tokens, 1 node, 2 groups, 2 vshards, 2 commands, 1 lost leadership | 519 000 | `AuthorityIsLog`, `IntentKept`, `CallHonest`, `CallEnds` |
| `placement` | 3 members in 2 groups, 1 document, 1 move, 2 rounds, 1 extra election, 2 restarts | 381 000 | `RightSlice`, `Settles` |
| `fanout` | 3 shards, 2 aircraft with 2 observations each, limit 0 or 1; buffers of 2 samples, a third aircraft on the vector side | 201 000 | `StreamAgrees`, `UpdatesImprove`, `Ends`, `AggregateExact`, `HybridFair`, `HybridCovered`, `FederationAgrees` |
| `replication` | 2 documents, one of which the node owns, 2 followers, 4 polls, channels of 1 | 382 000 | `CatchesUp`, `NeverBack`, `DataPlaneMoves` |
| `data_plane_stall` | 1 document, 1 follower, 5 polls, channels of 1 | violation | finding 3: `NeverStalls` |
| `shard_store` | 3 keys, 2 texts, 2 revisions, rebuild at 2 tombstones, 3 vectors, limits 1 and none (by default 2) | 70 000 | `IndexesExact`, `GarbageBounded`, `SearchSound`, `Implements` |
| `vector_rerender` | the same | violation | finding 4: `SameTextNoVector` |

Why the bounds are enough to be interesting:

* `log_store`: six records in segments of two or three give up to three segments, so
  a middle segment can be collected, a checkpoint can lie between a marker and
  the entry it voids, and a second crash can follow a recovery. Three entries
  let a build, an install and a restart each stop between two others; that more
  restarts add nothing is proved (`MaxRestarts` is a constant of the theorems).
* `services`: two nodes and two shards allow a node to be leader of one shard
  and follower of another and to be listed twice; ages 0, 1 and "dead" are all
  that the code tells apart. Two tool calls let a lookalike come before, between
  and after manifests. Three writes meet a quota of two; a time to live of 5 does
  not fit the width of 8 at two units to the second, the others do.
* `membership`: two coordinators with different lists, a joiner and a restart
  are what each way of miscounting a group needs; four nodes around a floor of
  three voters. A node that is reaped and registers again loses its mark, so the
  second drain may be of the same node or of another.
* `control`: with three replicas a majority survives one crash, two replicas
  can each take the other for the leader while the third leads, and a call can
  come from a replica that checks tokens to one that does not and back. Two
  commands let a builder read one side of a command before it and the other
  after it, and the torn snapshot be restored or installed at a replica that had
  more.
* `placement`: the document's hash goes to one group by the table and to the
  other by modulo, so that using the wrong one shows. Two rounds let an old
  batch meet a newer observation; two restarts let a member lose the table and
  get it back. One virtual shard keeps the liveness check small; several at
  once differ only in the order of one tick's evictions.
* `fanout`: the two observations of an aircraft differ in time and score, or
  in score only, so both rules of `supersedes` decide; a limit of one cuts
  every list. Three answers in every order, with a buffer of two samples, make
  the digests be clustered in the middle of a merge.
* `replication`: with channels of one, four polls fill the inbox, the indexer's
  hands, the outbox and the task; a call can fail at the leader and be applied
  two batches later. `data_plane_stall` needs one poll more to leave one waiting.
* `shard_store`: a rebuild needs two tombstones, which three keys in two
  virtual shards reach in one eviction and in two. Three vectors exceed the
  flat limit of one, so that graph search runs, and its headroom of two.
Deadlock is checked where the system never stops (`control`, `shard_store`) and
not where the instance does: a launch is over, a query has ended, the bounded
feed is exhausted, a briefing has been sent, the bounded numbers of entries and
records are used up.

### Fairness

Only the liveness properties use it. `Reconciler`: every member's loop goes on
(a ticker, and calls that return or fail), nodes register until they are listed
(run_heartbeat registers again whenever a coordinator does not know the node),
a group without a leader elects one; faults are finite. `GroupFormation`:
founders register, and wait_for_group polls for ever; a joiner or a restart
need not happen. `ControlCalls`: a handler's code runs, a leader's write is
answered when it commits or is cut off, a group with a majority and without a
leader elects one, and replicas learn who leads; crashes, lost leaderships and
broken connections need not happen, and without a majority nothing is claimed
(client_write has no deadline). `Placement`: coordinators apply what is committed, leaderless
groups elect, and the tasks loop on their timers; the operator, the feed,
elections beyond need and restarts are finite. `Fanout`: query_leader runs under
one deadline, so every task ends. `Replication`: the three tasks run, and a
coordinator or a follower that has not hung answers or fails; neither is forced
to do anything once it has hung, because the calls have no deadline.

## 4. Findings

1. `snapshot_apply_race` (`consensus/src/storage.rs:312`). `build_snapshot`
   serialises the application first and reads `last_applied` under the lock
   afterwards, while the raft core applies entries on another task. An entry
   applied in between is covered by the snapshot's index and missing from its
   data. After a restart, which the code describes as "latest snapshot + WAL
   tail replay", the member has lost the entry: `NothingLost` is violated. In the
   trace the builder reads the application after entry 1 and `last_applied`
   after entry 2; the member stops, loads the snapshot, stands at 2 and has no
   entry 2. A member that is sent such a snapshot has lost the entry too
   ("torn"). The control plane uses the same builder, so its replicas are
   exposed as well: a torn snapshot can take a drain mark back or leave a
   virtual shard where it was (`Control`'s `torn`).
2. `hard_floor` (`shard-node/src/raft/reconcile.rs:76`). The voters are read once
   per pass and that number is compared with 3 before every removal of the
   pass. With two of four voters drained, one pass removes both and leaves two:
   `HardFloor` is violated, while the comment says "with a hard floor: never
   shrink the voter set below 3, because a 2-voter group cannot survive any
   failure" (68-69).
3. `data_plane_stall` (`shard-node/src/replication.rs:101`). The replication task
   awaits the coordinator's list and the followers' answers without a deadline,
   and the indexer awaits room in the replication channel. A process that
   accepts a call and never answers therefore stops replication, then indexing,
   then the fetch loop: `NeverStalls` is violated, while `ingest.rs:471-472` says
   "replication is best-effort and must not stall the data plane".
4. `vector_rerender` (`shard-node/src/vector.rs:131`). `embeddable_text` appends
   the generic text fields of a document in the iteration order of a hash map,
   which differs between two maps of the same content. A connector's document
   with two or more text fields, observed again unchanged, may therefore be
   taken for changed, and gets another vector in a graph that cannot delete:
   `SameTextNoVector` is violated, while the type's documentation says "Same
   text → just overwrite the stored document, no new vector" and bounds the
   replaced vectors "by how rarely text actually changes". Searches stay sound
   (`SearchSound`) as long as the garbage fits the headroom of the graph search.

## 5. Known deviations

Properties that hold only under a condition say so in their definition and in
the comment above it. The condition is behaviour of the code. Where a comment of
the repository claims more than the code does, it is quoted; the rows that
refer to a finding have a run of their own that checks the claim itself.

| Where | Behaviour | Property and condition |
|---|---|---|
| registry.rs:353 | reaping a stale entry clears the drain marker of a node that has another entry; a routed leader that restarts is listed twice (250, 400-403). Claimed: "Sticky: survives re-registration; cleaned up when the node is finally reaped" (407-409) | `DrainSticky`: unless the node had two entries |
| registry.rs:353 | a node that is reaped and registers again is no longer drained, while a pass that read the mark goes on | `OnlyDrainedLeave`, `Floor`: of nodes marked at some time |
| wal.rs:305 | GC unlinks middle segments, and with them TruncateFrom markers that void entries of earlier segments. Claimed: "Safe: every later segment opens with a checkpoint restating the surviving pointers" (303-304), which is true of the pointers | `ReplayExact`: while segments are contiguous |
| wal.rs:275, 272 | the checkpoint of a rotation caused by a Purge record has the previous purge point; a crash before the checkpoint leaves none | `ReplayExact`, of the pointers: while no segment was unlinked |
| wal.rs:335 | the directory sync of the vote file is best effort | `OneVotePerTerm`: unless a sync failed |
| storage.rs:312 | see finding 1 | `QuietStateMatchesLog`, `SnapshotsExact`: unless "mixed" here or "torn" at the sender; `AuthorityIsLog`, `IntentKept`: unless the replica is in `torn` |
| storage.rs:271 | a build and an install that overlap remove each other's file | `NewestKept`, `PurgeCovered`: unless "crossed" |
| storage.rs:280 | a snapshot that could not be written is still reported to raft | `PurgeCovered`: unless "failed" |
| reconcile.rs:76 | see finding 2: the floor is judged by the voter set of the start of the pass | `Floor`: while no more than one node was ever marked |
| bootstrap.rs:48 | duplicate entries and joining nodes count towards group_size | `OneGroup`: exactly one in a clean launch, overlapping memberships as long as restarts and joiners together are fewer than the founders; `GroupForms`: in a clean launch, since with a joiner in the lists each founder may find a smaller id and none initializes |
| shard-node main.rs:221 | a node that reaches no coordinator in ten attempts uses hash % N until it restarts. Claimed: running without a table is safe, "ingesting the wrong slice is not" (ingest.rs:80-81) | `RightSlice`: groups without such a member; `Settles`: once it has the table |
| fanout.rs:234 | incremental top-k loses a hit when a duplicate is superseded by a worse one. Claimed: "Maintaining top-k incrementally is valid: a hit outside the current top-k can never re-enter as more shards arrive" (191-192) | `StreamAgrees`, `FederationAgrees`: no limit, or no duplicates |
| coordinator service.rs:326 | a shard task that panicked is in neither list, so it counts as having answered. Claimed: "Coverage = shards that answered BOTH modalities" | `HybridCovered`: of searches in which no task panicked |
| vector.rs:300 | over-fetched graph candidates can all be tombstones or replaced vectors, and the graph may list fewer points than asked for | `SearchSound`: k hits while the graph lists what it was asked for and garbage fits the headroom |
| agg.rs:63 | an aggregate cannot drop the copies of a document that two shards hold while it moves | `AggregateExact`: of aircraft only without such copies |
| memory lib.rs:29 | a time to live whose milliseconds do not fit 64 bits wraps to a short one | `MemoryGoverned`: for times that fit |
| nlq lib.rs:132 | every line of an output that begins with "provenance: " is taken for a manifest; a bucket of that name (agent-tools lib.rs:286) or a line break in a value yields others. Claimed: "the merged audit trail the answer stands on" (73-74) | `BriefingHonest`: all manifests, in order, and besides them as many lines as there were lookalikes |
| service.rs:388 | a broken connection to the leader is an error to the caller, whether or not the command was committed | `CallHonest`: at most once |
| ingest.rs:473 | see finding 3: the indexer awaits the bounded replication channel, and neither the list nor a push has a deadline | `DataPlaneMoves`: while neither a follower nor the coordinator hangs |
| replication.rs:66 | a dropped batch is not sent again, and a request whose call failed may still be applied, after newer ones | `CatchesUp`: except for documents not seen since; `NeverBack`: except at such a request |

More are not stated as properties: `placement_version` counts snapshot
restores, so two replicas can give one number to different tables
(registry.rs:189); `replace_all` drops the quantized mode (store.rs:45); hybrid
search shows the keyword side's copy of an aircraft, which need not be the
freshest (hybrid.rs:40); a federated manifest no longer names the shards that a
cluster omitted (federation lib.rs:93); a child process that died on its own
stays in the supervisor's list of managed nodes (supervisor.rs:148).

## 6. Proofs

Proved with TLAPS for every value of the constants, from the named ASSUMEs of
the modules only: sets of nodes are finite where the code counts them, bounds
are numbers, channel capacities and counts of groups are positive, a segment
takes at least two records, the initial voters are nodes; hits and documents are
records of numbers, a text has finitely many terms, distances are numbers,
oversampling and over-fetching are by a positive factor. The bounds that keep
the runs finite (log length, restarts, polls, faults, entries, vectors) are
constants like the others, so a theorem holds for all of them. Nearly no property is
inductive as it stands; each module defines the invariant that is (`IInv` and
its like, as a conjunction of named parts), proves one lemma per action, and
derives the properties at the end.

| Module | Theorem | States |
|---|---|---|
| `ServiceProofs` | `TypeCorrect`, `NodesNeverForgotten`, `LiveLeadersKept`, `ReapCompletesFailover`, `DrainsSticky` | `TypeOK`, `NeverForgotten`, `LiveLeaderKept`, `FailoverComplete`, `DrainSticky` |
| `ControlProofs` | `TypeCorrect`, `AuthorityAgrees`, `IntentNeverDropped` | `TypeOK`, `AuthorityIsLog`, `IntentKept` of `Control` |
| | `CallsInductive`, `CallsHonest`, `CallsAuthorityAgrees`, `CallsKeepIntent` | `CallHonest`, `AuthorityIsLog`, `IntentKept` of the replicas with a call among them |
| `LogStoreProofs` | `TypeCorrect`, `NoPromiseLost`, `ReplaysExactly` | `TypeOK`, `NoLoss` (on disk and in RAM), `ReplayExact` of `Wal` |
| | `VoteTypeCorrect`, `CacheAgrees`, `VotesOnce` | `VoteTypeOK`, `CacheIsFile`, `OneVotePerTerm` of `Vote` |
| | `StoreKeepsBoth` | the four of them of `LogStore` |
| `SnapshotProofs` | `TypeCorrect`, `RestartsExact`, `TiersExact`, `PurgesCovered`, `NewestNeverLost` | `SnapshotTypeOK`, `QuietStateMatchesLog`, `SnapshotsExact`, `PurgeCovered`, `NewestKept` |
| `MembershipProofs` | `TypeCorrect`, `GroupsOverlap`, `OnlyMarkedLeave`, `FloorHolds` | the types, `OneGroup`, `OnlyDrainedLeave`, `Floor` |
| `PlacementProofs` | `TypeCorrect`, `SlicesRight` | `TypeOK`, `RightSlice` |
| `ReplicationProofs` | `TypeCorrect`, `FollowersCatchUp`, `StoresNeverGoBack` | `PipelineTypeOK`, `CatchesUp`, `NeverBack` |
| `ServiceProofs` | `BriefingsHonest`, `MemoryAlwaysGoverned`, `NothingOrphaned` | `BriefingHonest`, `MemoryGoverned`, `NoOrphans` |
| `SearchProofs` | `FanoutTypeCorrect`, `StreamAgreesAlways`, `UpdatesImproveAlways` | `FanoutTypeOK`, `StreamAgrees`, `UpdatesImprove` |
| | `FederationAgreesAlways`, `HybridFairAlways`, `HybridCoverage` | `FederationAgrees`, `HybridFair`, `HybridCovered` |
| | `CountsExactAlways` | of `AggregateExact` the counts and buckets |
| | `StoreTypeCorrect`, `IndexesExactAlways`, `GarbageBoundedAlways`, `SearchSoundAlways` | `TypeOK`, `IndexesExact`, `GarbageBounded`, `SearchSound` |
| | `StoreImplements` | `Implements`: both indexes refine `DocumentMap` |

Along which arguments:

* **Registry.** TypeOK contains that a shard has one leader and that follower
  lists are finite, which the promotion of the last follower needs
  (`LastFacts`). NeverForgotten is inductive on top of it: `KeptSuffices`
  reduces every action to "each entry that mattered has a successor at least as
  fresh". The three action properties follow from TypeOK and the action.
* **Control.** A replica has up to four copies of the authority: the registry
  (`Held`), its latest snapshot, one that its worker installs and one that its
  builder reads (`Read`). `CopiesGood` says that each is either marked torn or
  exactly what the log says at the position it names (`Good`), and `Positions`
  that none is beyond the log. A restore is sound because snapshots are good, and
  a snapshot is good because the registry was when it was read and the builder
  notices, as a mark, whether the worker came in between. IntentKept follows:
  an install goes forward in the log, and markers only grow along it.
  For a call, `CallInv` adds that a call that is not done is not
  in the log (`Undecided`), that the sender's credential travels with it
  (`Carried`), and that a call past a handler's head was let through there and
  at every coordinator before (`LetThrough`). Commits extend the log, so both
  invariants are proved for the composition.
* **Write-ahead log.** NoLoss says what survives a crash and nothing about the
  call under way. The invariant adds `Positions`, `ActiveExists`, `Durable`
  (what is promised is synced), `OpSpares` and `OpOnDisk` (the record of the
  current call voids nothing that is promised, and is in the files),
  `RamOnDisk`, `PurgeFolded` (GC starts after the purge point is in RAM) and
  `BatchBelowLast`. Recovery is stated without a fold: an entry is there if no
  later record voids it (`Holds`), which keeps induction over the record stream
  out. ReplayExact needs the other direction, `RInv`: segments are in the order
  of their records; an entry that replay finds is in RAM, is being written, or
  has a missing segment behind it (`FoundInRam`; segment numbers are not used
  again, so the gap stays until the entry's own segment goes); and while every
  segment is there the last records that set the pointers agree with RAM
  (`PointersSet`).
* **Vote file.** OneVotePerTerm needs that answered votes are not above the
  stable file unless a directory sync was skipped (`AnsweredStable`,
  `StableFile`), and that the file never goes back while the process runs
  (`Progress`). `LogStore` is the two side by side; a power loss hits both.
* **Snapshots.** (A snapshot that was received is exact for its index unless its
  builder tore it, which the member records as "torn": `Received`; `Unmixed` is
  neither mixed here nor torn there.) The properties speak of the state between operations, so the
  invariant says where each operation stands: which can be under way together
  (`Modes`), how far an install has brought the application (`Worker`), that a
  snapshot under way is newer than the one reported (`Progress`). What is exact
  until a builder reads across a worker's step is `Quiet`; how far off it can be
  afterwards, one entry, is `Loose`. `Tidy` describes the directory until a
  build and an install cross, and `Covered` what the core was told.
* **Membership.** Formation: the entries of a list beyond its distinct nodes
  belong to restarted founders. `Accounted` says that there is a set R of at
  most `restarts` founders such that every accepted list has `group_size`
  entries with only members of R twice; two disjoint memberships would need more
  entries than founders, restarts and joiners allow. Reconciliation: passes work
  off old snapshots of the voters and of the marks, and a reap may take a mark
  back meanwhile. So the invariant speaks of the nodes ever marked, a history
  variable: a pass removes only such nodes (`Marked`), and voters that its
  snapshot has and the group no longer has are such nodes (`Departed`). If there
  is at most one, every removal that the floor let through was from at least
  four voters, of whom none but that one can have gone since.
* **Placement.** A batch is filtered by a view that may be stale when it is
  written. `RightBatches` says that a batch holds what some table gave, and
  `Tabled` that only exempt groups have members without a table; tables are only
  appended, so what was given once stays given.
* **Replication.** `Single`: a batch is taken only when the calls of the one before
  have returned. `Ordered`: the polls of the batches in the inbox, in the
  consumer's hands, in the outbox and under way are in order, and nothing that a
  follower has or may get from a late request (`Past`) is newer than they.
  `Latest`: the leader's value of a document is that of the last batch that has
  it. `Settled`: a follower that differs has missed the document, or was set back
  by a late request, or has a batch with it still to come.
* **Front ends.** BriefingHonest speaks of what was sent (manifests are numbered
  by the engine, lookalikes counted apart) and of what was lifted from the
  outputs, and only `Gathered` connects them: the evidence of the answers so far
  followed by that of the current question is `Faithful` after every tool call,
  failure and answer. FlattenSeq chooses the concatenation, which is unique only
  by induction (proved by least counterexample). Memory: ids below the next one
  (`Numbered`), and nothing that is not due by any clock so far has been swept
  (`Kept`). Supervisor: names of followers are used once (`FreshNames`), so no
  entry of the table replaces another.
* **Folds.** Sums, loops over sequences and merges in order of arrival are folds
  of the library, whose defining function has to be shown to exist before it can
  be used, and what it computes is shown by least counterexample
  (`SmallestSet`, `LeastNumber`): `SumsExist`, `SumsTake` and `SumParts` for sums,
  `LoopExists` and `LoopKeeps` for loops (an invariant of every iteration is one
  of the result), `TakesExist` and `MergesExist` for the first k hits and for
  partial aggregates.
* **Fan-out.** `FanoutInv` says what the progressive merge is as a function of the
  set L of leaders that answered (`MergeOf`), and never of their order: one copy
  of each aircraft; without a limit all of them; with one, if no aircraft is held
  twice, the best of all. One answer more (`AddAnswer`) rests on two laws of the
  merge: cutting before merging loses nothing that would not be cut afterwards
  (`TruncateMerge`), and deduplicating before merging keeps the same copies
  (`DedupMerge`). The one-shot search is the same function of L, so the final
  update agrees with it. Federation is the same two laws applied once more, plus
  `SumParts` for totals and dropped duplicates.
* **Hybrid search.** Fused scores are in units of 1 / `Unit`, a product that every
  denominator divides (`Divides`), so a better rank is worth strictly more
  (`RankWorth`), and an aircraft that leads in both rankings stays ahead in the
  sum and therefore in the cut (`TruncateBetter`).
  Coverage: of tasks that answered or failed, the ones that answered both and the
  ones omitted by either part the leaders.
* **Aggregates.** `Counts` ties a partial to the copies that its leaders hold. Every
  merge step adds one leader's copies (`CountsAdd`), and as an order of the
  answers has each leader once, the result counts `Copies`.
* **Shard store.** `KeywordInv`: by_key names the slot of every live document and
  nothing else, every retired slot is on the free list once, postings and
  lengths are those of the live documents. `VectorInv`: by_key names the live
  slot, a document's text is the one it was embedded with and its vector is in
  the graph, points have slots of the index, and `vectors_total` is their
  number. `StoreInv` joins them with "both hold the same documents" and
  `Bounded` (tombstones below the threshold). Upserts preserve it
  (`KeywordInsertFacts`, `VectorInsertFacts`), evicting, rebuilding and replacing
  are loops of removals and upserts (`EvictedFacts`, `RebuildFacts`,
  `RefilledFacts`), and each states what happens to the documents, which gives
  the refinement: `Documents` of either index is the abstract map.
* **Shard searches.** They are functions of the state, so `StoreInv` is enough.
  Keyword: what the postings of some terms lead to are the live documents with
  one of them (`MatchedFacts`). Flat and quantized: the first k of a strict order
  of a finite set are k or all of it and precede the rest (`FirstFacts`; keys
  break ties). Graph: whatever m points the graph lists, in order of distance, the hits are the
  first k live slots among them (`ListFacts`, `ListPrefix`), so they are live and
  no more than k. A live slot is missed only if a point of its own was not listed
  (`MissedFacts`), so with n points at most n - m slots are missed; when as many
  are listed as were asked for, k + min(k, headroom) or all of them, and garbage
  fits the headroom, k live slots are among them.

A proof attempt that failed for a good reason: `OneGroup` said that memberships
overlap unless a restart and a joiner come together. That is true of the
instance checked (three founders, one restart, one joiner) and not in general:
with two founders, two coordinators and a restart of each founder, each can take
itself for a complete group. The proof showed what is needed, and TLC shows
that it is tight: restarts and listed joiners must be fewer than the founders.

Only model-checked:

* liveness (`CallEnds`, `Ends`, `Converges`, `GroupForms`, `Settles`,
  `DataPlaneMoves`): fairness and ENABLED are out of the prover's reach;
* the percentiles of `AggregateExact`: digests sort centroids by mean, and two
  with the same mean and different weights may come in either order; the
  library's `SortSeq` is defined only for orders without such ties, so that
  nothing can be concluded from its definition (TLC sorts stably).

## 7. Not modelled

`openraft` itself, its transport, and the file system beyond sync, rename and
power loss; floating-point code (BM25, cosine, bit codes, embeddings), which the
models replace by tables of small numbers; feeds and other I/O (sources, SMTP,
the planning models of the query agent, MCP server, dashboard pages, metrics);
the comparison of single fields in a filter; get_cluster_state, which formats
the registry. The in-memory log store has neither failures nor concurrency.
Bytes that do not decode: a control-plane snapshot that is not readable becomes
an empty authority (control.rs:72), which takes bytes of another version of the
program; queries of the wrong dimension and malformed memory writes are refused
before anything changes and are no steps. The directory entry of a new segment
is never synced (wal.rs:272), and is taken as durable. What
a second power loss does to a recovered tail that was never synced
(wal.rs:197) needs a model of the page cache.

## 8. What could come next

1. Compose further: `Registry` with `GroupFormation`, so that lists and
   duplicates come from the registry's own actions; `Wal` with
   `SnapshotStore`, which one run explores side by side, so that purge and replay
   meet.
2. The heartbeat loop of a node against the registry (role adoption,
   re-registration after a reap; legacy leaders that come back).
3. A sort in `TDigest` that says what it does with ties, and the percentiles of
   `AggregateExact` as a theorem.

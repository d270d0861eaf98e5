------------------------------- MODULE Fanout -------------------------------
(***************************************************************************)
(* One query at a coordinator: the fan-out to the shard leaders, the       *)
(* one-shot merge (search) and the progressive merge (search_stream) over  *)
(* the same arrivals (crates/coordinator/src/fanout.rs and service.rs).    *)
(*                                                                         *)
(* A hit is an aircraft, a score and the time of the observation; a ranked *)
(* list is the set of its hits, because cmp_hits orders hits of different  *)
(* aircraft strictly.  Two shards hold a copy of one aircraft while its    *)
(* virtual shard moves.                                                    *)
(***************************************************************************)
EXTENDS Integers, FiniteSets, FiniteSetsExt, Functions

CONSTANTS
  Leaders,    \* leader addresses read from the registry
  Hit,        \* hits that shards may return
  Limits      \* limits a query may have, 0 for none

ASSUME HitAssumption == Hit \subseteq [icao24 : Nat, score : Nat, observed_at : Nat]
ASSUME LimitsAssumption == Limits \subseteq Nat
ASSUME LeadersAssumption == IsFiniteSet(Leaders)

VARIABLES
  limit,      \* the query's limit
  matches,    \* leader -> hits of its shard for this query
  task,       \* leader -> "asked", "answered", "omitted" or "panicked"
  hits,       \* ProgressiveMerge: best so far
  total,      \* ... total_matched
  deduped,    \* ... deduped
  update,     \* latest SearchUpdate sent
  finished    \* "open", "complete", or "gone" once the client hung up

fanout_vars == <<limit, matches, task, hits, total, deduped, update, finished>>

OnePerAircraft(S) == \A a, b \in S : a.icao24 = b.icao24 => a = b

With(status) == {l \in Leaders : task[l] = status}

FanoutTypeOK ==
  /\ limit \in Limits
  /\ matches \in [Leaders -> SUBSET Hit]
  /\ task \in [Leaders -> {"asked", "answered", "omitted", "panicked"}]
  /\ hits \subseteq Hit /\ OnePerAircraft(hits)
  /\ limit # 0 => Cardinality(hits) <= limit
  /\ total \in Nat /\ deduped \in Nat
  /\ update.hits \subseteq Hit /\ update.answered \in 0 .. Cardinality(Leaders)
  /\ finished \in {"open", "complete", "gone"}

NoUpdate == [hits |-> {}, total |-> 0, answered |-> 0, manifest |-> {}]

\* A shard's store holds one document per aircraft.
Slices == {S \in SUBSET Hit : IsFiniteSet(S) /\ OnePerAircraft(S)}

FanoutInit ==
  /\ limit \in Limits
  /\ matches \in [Leaders -> Slices]
  /\ task = [l \in Leaders |-> "asked"]
  /\ hits = {} /\ total = 0 /\ deduped = 0
  /\ update = NoUpdate /\ finished = "open"

-----------------------------------------------------------------------------
cmp_hits(a, b) == a.score > b.score \/ (a.score = b.score /\ a.icao24 < b.icao24)

\* Mutant: the order reversed.
Truncate_Worst(S) ==
  IF limit = 0 THEN S
  ELSE {h \in S : Cardinality({g \in S : cmp_hits(h, g)}) < limit}

\* The first limit hits of S in rank order
Truncate(S) ==
  IF limit = 0 THEN S
  ELSE {h \in S : Cardinality({g \in S : cmp_hits(g, h)}) < limit}

\* Mutant: the older observation wins.
supersedes_Older(a, b) ==
  \/ a.observed_at < b.observed_at
  \/ a.observed_at = b.observed_at /\ a.score > b.score

supersedes(a, b) ==
  \/ a.observed_at > b.observed_at
  \/ a.observed_at = b.observed_at /\ a.score > b.score

dedup_by_aircraft(S) ==
  {h \in S : \A g \in S : g.icao24 = h.icao24 => ~supersedes(g, h)}

\* ShardSearchService::search: a shard ranks its own hits and returns at most
\* limit of them.
Response(l) == [hits |-> Truncate(matches[l]), total |-> Cardinality(matches[l])]

-----------------------------------------------------------------------------
(* The one-shot merge over the responses that came                         *)

Gathered(responses) == UNION {responses[r].hits : r \in DOMAIN responses}

\* The freshness envelope is that of the hits returned whose time is known.
\* (The list of the omitted shards is With("omitted").)
build_manifest(shown, dropped, answered) ==
  LET observed == {h.observed_at : h \in {g \in shown : g.observed_at > 0}}
  IN [freshest |-> IF observed = {} THEN 0 ELSE Max(observed),
      stalest  |-> IF observed = {} THEN 0 ELSE Min(observed),
      deduped  |-> dropped, answered |-> answered]

\* responses: responder -> its response
merge_search_responses(responses) ==
  LET kept    == dedup_by_aircraft(Gathered(responses))
      dropped == SumFunction([r \in DOMAIN responses |-> Cardinality(responses[r].hits)])
                   - Cardinality(kept)
  IN [hits     |-> Truncate(kept),
      total    |-> SumFunction([r \in DOMAIN responses |-> responses[r].total]),
      manifest |-> build_manifest(Truncate(kept), dropped, Cardinality(DOMAIN responses))]

\* Of the leaders of L
SearchOf(L) == merge_search_responses([l \in L |-> Response(l)])

search == SearchOf(With("answered"))

-----------------------------------------------------------------------------
(* The progressive merge                                                   *)

add(l) ==
  LET merged == dedup_by_aircraft(hits \cup Response(l).hits)
  IN /\ hits' = Truncate(merged)
     /\ total' = total + Response(l).total
     /\ deduped' = deduped + Cardinality(hits) + Cardinality(Response(l).hits) - Cardinality(merged)

\* The update with the best so far; the last one carries the manifest.
snapshot(best, matched, dropped, answered, complete) ==
  [hits |-> best, total |-> matched, answered |-> answered,
   manifest |-> IF complete THEN {build_manifest(best, dropped, answered)} ELSE {}]

\* A response arrives; the update is sent, or the client has hung up.
Answered(l) ==
  /\ finished = "open" /\ task[l] = "asked"
  /\ task' = [task EXCEPT ![l] = "answered"]
  /\ add(l)
  /\ \/ /\ update' = snapshot(hits', total', deduped', Cardinality(With("answered")) + 1, FALSE)
        /\ UNCHANGED finished
     \/ finished' = "gone" /\ UNCHANGED update
  /\ UNCHANGED <<limit, matches>>

\* query_leader: unreachable, an error, or the deadline; or the task panicked.
NotAnswered(l, how) ==
  /\ finished = "open" /\ task[l] = "asked"
  /\ task' = [task EXCEPT ![l] = how]
  /\ UNCHANGED <<limit, matches, hits, total, deduped, update, finished>>

\* Mutant: the final update waits for every shard to answer.
Complete_AllAnswered ==
  /\ finished = "open" /\ With("answered") = Leaders
  /\ finished' = "complete"
  /\ update' = snapshot(hits, total, deduped, Cardinality(With("answered")), TRUE)
  /\ UNCHANGED <<limit, matches, task, hits, total, deduped>>

Complete ==
  /\ finished = "open" /\ With("asked") = {}
  /\ finished' = "complete"
  /\ update' = snapshot(hits, total, deduped, Cardinality(With("answered")), TRUE)
  /\ UNCHANGED <<limit, matches, task, hits, total, deduped>>

FanoutNext ==
  \/ \E l \in Leaders : \/ Answered(l)
                        \/ NotAnswered(l, "omitted") \/ NotAnswered(l, "panicked")
  \/ Complete

\* Every task ends: the deadline covers connect and request together.
Fairness ==
  /\ \A l \in Leaders : WF_fanout_vars(Answered(l) \/ NotAnswered(l, "omitted"))
  /\ WF_fanout_vars(Complete)

FanoutSpec == FanoutInit /\ [][FanoutNext]_fanout_vars /\ Fairness

-----------------------------------------------------------------------------
\* No aircraft is held by two of the shards: no virtual shard is moving.
Disjoint ==
  \A l, m \in Leaders : l # m =>
    {h.icao24 : h \in matches[l]} \cap {h.icao24 : h \in matches[m]} = {}

\* The hits that came
Came == Gathered([l \in With("answered") |-> Response(l)])

\* The stream ends where the one-shot search would: its final update has the
\* hits, the total and the manifest of merge_search_responses over the same
\* answers, in whatever order they came ("a hit outside the current top-k can
\* never re-enter").  With a limit and duplicates it need not: a hit pushed
\* out by a copy that a later answer supersedes is lost.  On the way there,
\* while a virtual shard moves and two shards hold copies, no aircraft is shown
\* twice, and without a limit none that an answering shard matched is missing
\* or shown with an observation older than one that was sent.
StreamAgrees ==
  /\ finished = "complete" /\ (limit = 0 \/ Disjoint) =>
       /\ update.hits = search.hits /\ update.total = search.total
       /\ update.manifest = {search.manifest}
  /\ OnePerAircraft(hits)
  /\ limit = 0 =>
       /\ {h.icao24 : h \in Came} = {h.icao24 : h \in hits}
       /\ \A h \in hits, g \in Came :
            g.icao24 = h.icao24 => g.observed_at <= h.observed_at

\* An update never loses coverage, and never loses an aircraft to a worse
\* ranked one: hits that disappear were superseded by an answer, or pushed
\* out by better ones.
UpdatesImprove ==
  [][/\ update.answered <= update'.answered
     /\ \A h \in update.hits \ update'.hits :
          \/ \E g \in Came' : g.icao24 = h.icao24 /\ supersedes(g, h)
          \/ \A g \in update'.hits : cmp_hits(g, h)]_fanout_vars

\* Every query ends, with shards up, down, hung or lost.
Ends == <>(finished # "open")
=============================================================================

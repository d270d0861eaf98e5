------------------------------ MODULE Queries ------------------------------
(***************************************************************************)
(* The other queries a coordinator answers over one fan-out: aggregates    *)
(* (coordinator/src/agg.rs, shard-node/src/agg.rs), hybrid search          *)
(* (coordinator/src/hybrid.rs and service.rs), and the same search         *)
(* federated over clusters (crates/federation).                            *)
(*                                                                         *)
(* They keep no state of their own: each is a function of which tasks      *)
(* answered and of what the shards hold, so each is an operator over the   *)
(* state of Fanout.  The field of histograms and percentiles is the time   *)
(* of the observation.                                                     *)
(***************************************************************************)
EXTENDS Fanout, TDigest

CONSTANTS
  VectorHit,     \* hits of the vector modality
  Interval,      \* width of a histogram's buckets
  RRF_K          \* damping constant (60)

ASSUME VectorHitAssumption == VectorHit \subseteq [icao24 : Nat, score : Nat, observed_at : Nat]
ASSUME IntervalAssumption == Interval \in Nat /\ RRF_K \in Nat

-----------------------------------------------------------------------------
(* Aggregates                                                              *)

\* An interval of 0 falls back to 1.
bucket_key(value) ==
  LET w == IF Interval > 0 THEN Interval ELSE 1 IN (value \div w) * w

\* Mutant: a shard summarises only the hits it would return.
partial_Limited(l) ==
  LET docs == Truncate(matches[l])
      keys == {bucket_key(h.observed_at) : h \in docs}
      d    == FoldSet(LAMBDA h, acc : add_sample(acc, h.observed_at), Empty, docs)
  IN [count   |-> Cardinality(docs),
      buckets |-> [k \in keys |-> Cardinality({h \in docs : bucket_key(h.observed_at) = k})],
      digest  |-> to_parts(d)]

\* A shard's summary of every document that matches; the limit is not used.
partial(l) ==
  LET docs == matches[l]
      keys == {bucket_key(h.observed_at) : h \in docs}
      d    == FoldSet(LAMBDA h, acc : add_sample(acc, h.observed_at), Empty, docs)
  IN [count   |-> Cardinality(docs),
      buckets |-> [k \in keys |-> Cardinality({h \in docs : bucket_key(h.observed_at) = k})],
      digest  |-> to_parts(d)]

AddBuckets(a, b) ==
  [k \in DOMAIN a \cup DOMAIN b |->
     (IF k \in DOMAIN a THEN a[k] ELSE 0) + (IF k \in DOMAIN b THEN b[k] ELSE 0)]

\* The partials in the order in which they came
merge_partials(partials) ==
  FoldLeft(LAMBDA acc, p :
             [count   |-> acc.count + p.count,
              buckets |-> AddBuckets(acc.buckets, p.buckets),
              digest  |-> merge(acc.digest, from_parts(p.digest))],
           [count |-> 0, buckets |-> <<>>, digest |-> Empty], partials)

aggregate(order) == merge_partials([i \in DOMAIN order |-> partial(order[i])])

-----------------------------------------------------------------------------
(* Hybrid search: each modality is fanned out and merged without a limit,  *)
(* then fused by rank                                                      *)

MergedKeyword == dedup_by_aircraft(Came)

Rank(S, h) == 1 + Cardinality({g \in S : cmp_hits(g, h)})

\* A common multiple of the denominators RRF_K + rank
Unit(n) == ProductSet({RRF_K + i : i \in 1 .. n})

\* Mutant: an aircraft in both rankings keeps one contribution.
Fused_First(keyword, vec, a) ==
  LET both == Cardinality(keyword) + Cardinality(vec)
      Part(S) == IF \E h \in S : h.icao24 = a
                 THEN Unit(both) \div (RRF_K + Rank(S, CHOOSE h \in S : h.icao24 = a))
                 ELSE 0
  IN IF Part(keyword) > 0 THEN Part(keyword) ELSE Part(vec)

\* The sum of 1 / (RRF_K + rank) over the rankings that hold the aircraft, in
\* units of 1 / Unit
Fused(keyword, vec, a) ==
  LET both == Cardinality(keyword) + Cardinality(vec)
      Part(S) == IF \E h \in S : h.icao24 = a
                 THEN Unit(both) \div (RRF_K + Rank(S, CHOOSE h \in S : h.icao24 = a))
                 ELSE 0
  IN Part(keyword) + Part(vec)

\* An aircraft of both rankings is shown as the keyword side has it.
rrf_fuse(keyword, vec) ==
  LET Hits(a) == IF \E h \in keyword : h.icao24 = a
                 THEN {h \in keyword : h.icao24 = a} ELSE {h \in vec : h.icao24 = a}
  IN Truncate({[h EXCEPT !.score = Fused(keyword, vec, h.icao24)] :
                 h \in UNION {Hits(a) : a \in {g.icao24 : g \in keyword \cup vec}}})

\* Mutant: the entries of the omitted list are counted, not its addresses.
hybrid_search_CountsEach(vec, vtask) ==
  LET fused   == rrf_fuse(MergedKeyword, vec)
      missing == {l \in Leaders : vtask[l] = "omitted"}
  IN [hits |-> fused, total |-> Cardinality(fused), omitted |-> With("omitted") \cup missing,
      manifest |-> build_manifest(fused, 0,
                     Cardinality(Leaders) - Cardinality(With("omitted")) - Cardinality(missing))]

\* vec: the merged vector hits; vtask: how the vector tasks ended.  A panicked
\* task leaves neither a response nor an entry in the list of the omitted.
hybrid_search(vec, vtask) ==
  LET fused   == rrf_fuse(MergedKeyword, vec)
      omitted == With("omitted") \cup {l \in Leaders : vtask[l] = "omitted"}
  IN [hits |-> fused, total |-> Cardinality(fused), omitted |-> omitted,
      manifest |-> build_manifest(fused, 0, Cardinality(Leaders) - Cardinality(omitted))]

-----------------------------------------------------------------------------
(* Federation: every cluster merges its own shards, and the merged         *)
(* responses are merged again.  clusters: sets of leaders that answered.   *)

\* Mutant: a cluster answers with its shards' hits, not deduplicated.
federate_search_Raw(clusters) ==
  merge_search_responses(
    [c \in clusters |-> [SearchOf(c) EXCEPT !.hits = Gathered([l \in c |-> Response(l)])]])

federate_search(clusters) == merge_search_responses([c \in clusters |-> SearchOf(c)])

-----------------------------------------------------------------------------
AnsweredOrders == SetToSeqs(With("answered"))

\* Documents of the shards that answered, each shard's copy apart
Copies == {c \in With("answered") \X Hit : c[2] \in matches[c[1]]}

\* The count and each bucket are those of a scan of the copies, and with no
\* virtual shard moving, of the aircraft themselves.
CountsExact(agg) ==
  LET In(k) == {c \in Copies : bucket_key(c[2].observed_at) = k}
  IN /\ agg.count = Cardinality(Copies)
     /\ DOMAIN agg.buckets = {bucket_key(c[2].observed_at) : c \in Copies}
     /\ \A k \in DOMAIN agg.buckets : agg.buckets[k] = Cardinality(In(k))
     /\ Disjoint => agg.count = Cardinality({c[2].icao24 : c \in Copies})

Below(a, b) == a.num * b.den <= b.num * a.den

\* Percentiles never fall as the percentile rises, never leave the range of the
\* samples, and the digest weighs as much as the samples.
PercentilesSound(d) ==
  LET times == {c[2].observed_at : c \in Copies}
      At(n) == quantile(d, n, 4)
  IN /\ d.count = Cardinality(Copies) /\ Weight(d.centroids) = d.count
     /\ Below([num |-> Min(times), den |-> 1], At(0))
     /\ \A n \in 0 .. 3 : Below(At(n), At(n + 1))
     /\ Below(At(4), [num |-> Max(times), den |-> 1])

\* An aggregate covers every matching document of every shard that answered,
\* whatever the limit of the query and in whatever order the shards' partial
\* counts and digests were merged and clustered.
AggregateExact ==
  finished = "complete" => \A order \in AnsweredOrders :
    LET agg == aggregate(order)
    IN CountsExact(agg) /\ (Copies # {} => PercentilesSound(agg.digest))

\* Rank of an aircraft, or past the end
Place(S, a) ==
  IF \E h \in S : h.icao24 = a THEN Rank(S, CHOOSE h \in S : h.icao24 = a)
  ELSE Cardinality(S) + 1

\* Hybrid search: an aircraft that both rankings place at least as high as
\* another, and one strictly higher, is never shown below it nor cut while the
\* other stays; without a limit every aircraft of either ranking is shown,
\* once.
HybridFair ==
  finished = "complete" =>
    \A vec \in {S \in SUBSET VectorHit : IsFiniteSet(S) /\ OnePerAircraft(S)} :
      LET shown == hybrid_search(vec, task).hits
          all   == {h.icao24 : h \in MergedKeyword \cup vec}
          At(a) == <<Place(MergedKeyword, a), Place(vec, a)>>
          Beats(a, b) == At(a)[1] <= At(b)[1] /\ At(a)[2] <= At(b)[2] /\ At(a) # At(b)
      IN /\ OnePerAircraft(shown)
         /\ limit = 0 => {h.icao24 : h \in shown} = all
         /\ \A a \in all, h \in shown : Beats(a, h.icao24) =>
              \E g \in shown : g.icao24 = a /\ cmp_hits(g, h)

\* "Coverage = shards that answered BOTH modalities": a shard that answered one
\* of them and was omitted by the other, or by both, is not counted, and is
\* named among the omitted.  (A shard whose task panicked is counted: it is
\* absent from the responses and from the list.)
HybridCovered ==
  finished = "complete" => \A vtask \in [Leaders -> {"answered", "omitted", "panicked"}] :
    LET both == {l \in Leaders : task[l] = "answered" /\ vtask[l] = "answered"}
        out  == hybrid_search({}, vtask)
    IN (\A l \in Leaders : task[l] # "panicked" /\ vtask[l] # "panicked") =>
         /\ out.manifest.answered = Cardinality(both)
         /\ out.omitted = Leaders \ both

\* Splitting the shards over two clusters changes nothing a caller can see of
\* a search: the hits, the total and the freshness of the federated answer are
\* those of one cluster that holds all the answering shards, and as many
\* duplicates are dropped on both levels together.
FederationAgrees ==
  finished = "complete" /\ (limit = 0 \/ Disjoint) => \A c \in SUBSET With("answered") :
    LET clusters == {c, With("answered") \ c}
        out      == federate_search(clusters)
        inner    == SumFunction([k \in clusters |-> SearchOf(k).manifest.deduped])
    IN /\ out.hits = search.hits /\ out.total = search.total
       /\ out.manifest.freshest = search.manifest.freshest
       /\ out.manifest.stalest = search.manifest.stalest
       /\ out.manifest.deduped + inner = search.manifest.deduped
=============================================================================

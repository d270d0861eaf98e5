---------------------------- MODULE ShardSearch ----------------------------
(***************************************************************************)
(* What a shard answers from its store: keyword search, the three vector   *)
(* searches, the documents of an aggregate, and the filters applied to     *)
(* them (index.rs, vector.rs, quant.rs, store.rs and server.rs of          *)
(* crates/shard-node, common/src/filter.rs).                               *)
(*                                                                         *)
(* Answers do not change the store, so they are operators over its state.  *)
(* Where the order of hits is not decided by the model (BM25 scores, ties  *)
(* of a distance), an operator is the set of the answers that may come.    *)
(* A query is a set of terms, or a text for a vector search, which callers *)
(* embed as the shard does: vector_search refuses any other vector.  A     *)
(* filter is the set of revisions that pass it.                            *)
(***************************************************************************)
EXTENDS ShardStore

CONSTANTS
  Distance,        \* query text -> text -> cosine distance
  Hamming,         \* query text -> text -> distance of the sign patterns
  FlatMax,         \* FLAT_SEARCH_THRESHOLD (256)
  Headroom,        \* neighbours fetched beyond k (32)
  OVERSAMPLE,      \* candidates per result of a quantized search (4)
  FilterOverfetch, \* 4
  DEFAULT_KNN,     \* neighbours returned when the caller does not say (10)
  ShardLimits      \* limits a query may have, 0 for none

ASSUME DistanceAssumption ==
  Distance \in [Texts -> [Texts -> Nat]] /\ Hamming \in [Texts -> [Texts -> Nat]]
ASSUME SearchAssumption ==
  ShardLimits \subseteq Nat /\ FlatMax \in Nat /\ Headroom \in Nat
    /\ {OVERSAMPLE, FilterOverfetch, DEFAULT_KNN} \subseteq Nat \ {0}

Smaller(a, b) == IF a < b THEN a ELSE b

\* The first n of S (0: all) under some ranking
Cut(S, n) ==
  IF n = 0 \/ Cardinality(S) <= n THEN {S} ELSE {T \in SUBSET S : Cardinality(T) = n}

Passing(S, filter) == {d \in S : d.rev \in filter}

NoFilter == Revs

-----------------------------------------------------------------------------
(* Keyword                                                                 *)

\* InvertedIndex::search: any term matches.
Matched(terms) ==
  {keyword.docs[p.doc_id] : p \in UNION {keyword.postings[t] : t \in terms}}

index_search(terms, limit) ==
  {[hits |-> T, total |-> Cardinality(Matched(terms))] : T \in Cut(Matched(terms), limit)}

\* With a filter, the full match set is ranked, filtered, and then cut.
shard_search(terms, limit, filter) ==
  IF filter = NoFilter THEN index_search(terms, limit)
  ELSE UNION {{[hits |-> T, total |-> Cardinality(Passing(r.hits, filter))] :
                 T \in Cut(Passing(r.hits, filter), limit)} : r \in index_search(terms, 0)}

\* The documents of an aggregate: all of them for a blank query, which is not the
\* same as one without terms (a query of punctuation)
matching(blank, terms, filter) ==
  Passing(IF blank THEN Documents(keyword) ELSE Matched(terms), filter)

-----------------------------------------------------------------------------
(* Vector.  An answer is a set of slots.                                   *)

InOrder(p, rank) == \A i, j \in DOMAIN p : i < j => rank[p[i]] <= rank[p[j]]

\* The orders in which a sort by rank may leave its domain
Sorted(rank) == {p \in SetToSeqs(DOMAIN rank) : InOrder(p, rank)}

SlotDistance(query, s) == Distance[query][vector.docs[s].text]

\* The k best of S: nearest first, then by aircraft
Nearest(query, S, k) ==
  {s \in S : Cardinality({r \in S :
     \/ SlotDistance(query, r) < SlotDistance(query, s)
     \/ /\ SlotDistance(query, r) = SlotDistance(query, s)
        /\ vector.docs[r].key < vector.docs[s].key}) < k}

search_flat(query, k) == Nearest(query, Live(vector), k)

search_quantized(query, k) ==
  {Nearest(query, ToSet(SubSeq(p, 1, Smaller(k * OVERSAMPLE, Len(p)))), k) :
     p \in Sorted([s \in Live(vector) |-> Hamming[query][vector.docs[s].text]])}

\* Mutant: no headroom for replaced vectors and tombstones.
Fetch_K(k) == Smaller(k, vector.vectors_total)

Fetch(k) ==
  Max2(Smaller(Smaller(2 * k, k + Headroom), vector.vectors_total),
       Smaller(k, vector.vectors_total))

\* The graph is approximate: asked for Fetch(k) points near to the query it lists
\* some m of its points, best first.  Taken are the first hits of the slots that are
\* no tombstone, until there are k.
search_hnsw(query, k, m) ==
  LET rank == [i \in DOMAIN vector.graph |-> Distance[query][vector.graph[i].text]]
      Taken(p) == FoldLeft(LAMBDA acc, i :
                             IF vector.graph[i].slot \in vector.tombstoned \/ Cardinality(acc) = k
                             THEN acc ELSE acc \cup {vector.graph[i].slot}, {}, p)
  IN {Taken(SubSeq(p, 1, m)) :
        p \in {o \in SetToSeqs(DOMAIN vector.graph) : InOrder(SubSeq(o, 1, m), rank)}}

VectorIndexSearch(query, k) ==
  IF k = 0 \/ DOMAIN vector.by_key = {} THEN {{}}
  ELSE IF mode THEN search_quantized(query, k)
  ELSE IF Len(vector.docs) <= FlatMax THEN {search_flat(query, k)}
  ELSE UNION {search_hnsw(query, k, m) : m \in 0 .. Fetch(k)}

Knn(limit) == IF limit = 0 THEN DEFAULT_KNN ELSE limit

\* ShardSearchService::vector_search, the documents
vector_search(query, limit, filter) ==
  LET k == Knn(limit)
  IN UNION {Cut(Passing({vector.docs[s] : s \in S}, filter), k) :
              S \in VectorIndexSearch(query, IF filter = NoFilter THEN k ELSE k * FilterOverfetch)}

-----------------------------------------------------------------------------
Wanted(terms, filter) ==
  {d \in KeywordContent : Posted(d.text) \cap terms # {} /\ d.rev \in filter}

\* Keyword search and aggregates see exactly the live documents: no hit is a
\* retired slot (the code would panic), a limited and filtered search returns as
\* many of the passing matches as the limit allows and counts them all, and no
\* document frequency exceeds the number of documents, so that no term's weight
\* is negative.
KeywordSearchExact ==
  /\ \A terms \in SUBSET Terms, filter \in SUBSET Revs \ {{}} :
       LET wanted == Wanted(terms, filter)
       IN /\ \A limit \in ShardLimits : \A r \in shard_search(terms, limit, filter) :
               /\ r.hits \subseteq wanted /\ r.total = Cardinality(wanted)
               /\ Cardinality(r.hits) = IF limit = 0 THEN r.total ELSE Smaller(limit, r.total)
          /\ matching(FALSE, terms, filter) = wanted
  /\ matching(TRUE, {}, NoFilter) = VectorContent
  /\ \A t \in Terms : Cardinality(keyword.postings[t]) <= Cardinality(DOMAIN keyword.by_key)

\* Points of the graph beyond one for each live document
Garbage == Len(vector.graph) - Cardinality(Live(vector))

\* Hits of a vector search, by whichever of the three ways and whatever points the
\* graph finds, are live documents, of an aircraft at most one, and pass the filter.
\* The scans return k hits or all there are, and the exact ones the nearest; so many
\* come from the graph too, if it lists as many points as it is asked for and
\* replaced vectors and tombstones do not exceed the headroom.
VectorSearchSound ==
  \A query \in Texts, limit \in ShardLimits :
    LET k == Knn(limit)
    IN /\ \A filter \in SUBSET Revs \ {{}} : \A hits \in vector_search(query, limit, filter) :
            hits \subseteq Passing(VectorContent, filter) /\ Cardinality(hits) <= k
       /\ \A S \in VectorIndexSearch(query, k) :
            /\ mode \/ Len(vector.docs) <= FlatMax =>
                 Cardinality(S) = Smaller(k, Cardinality(Live(vector)))
            /\ (mode /\ k * OVERSAMPLE >= Cardinality(Live(vector)))
                 \/ (~mode /\ Len(vector.docs) <= FlatMax) =>
                 \A s \in S, r \in Live(vector) \ S :
                   SlotDistance(query, s) <= SlotDistance(query, r)
       /\ Garbage <= Smaller(k, Headroom) =>
            \A S \in search_hnsw(query, k, Fetch(k)) :
              Cardinality(S) = Smaller(k, Cardinality(Live(vector)))

\* After any mix of upserts, evictions with reuse of slots and snapshots, both
\* indexes answer from the live documents and, within their limits, miss none.
SearchSound == KeywordSearchExact /\ VectorSearchSound
=============================================================================

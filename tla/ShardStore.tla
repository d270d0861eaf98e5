----------------------------- MODULE ShardStore -----------------------------
(***************************************************************************)
(* The shard's store: an inverted index and a vector index over the same   *)
(* documents, changed together behind one lock (crates/shard-node/src/     *)
(* store.rs, index.rs, vector.rs).                                         *)
(*                                                                         *)
(* A document is its key, its indexed text and a revision (all the fields  *)
(* that are not indexed).  A text is known by the frequencies of its terms *)
(* (Freq); its embedding is the text itself.  The generic fields of a      *)
(* document are a hash map, so one text is written out in any of the       *)
(* Orders of its fields.  Scores are left out.                             *)
(* External: the HNSW graph, its (slot, text) points as they were added.   *)
(***************************************************************************)
EXTENDS Integers, Sequences, FiniteSets, SequencesExt, Functions

CONSTANTS
  Doc,            \* documents: key (icao24), text and rev
  Texts,          \* indexed texts
  Terms,
  Freq,           \* text -> term -> frequency
  Orders,         \* text -> orders in which its fields may be iterated
  Revs,           \* revisions of the fields that are not indexed
  V,              \* virtual shards
  RebuildMin,     \* REBUILD_MIN_TOMBSTONES (16)
  MaxVectors,     \* bound: vectors inserted since the graph was built
  MaxSnapshot     \* bound: documents of an installed snapshot

ASSUME DocAssumption == Doc \subseteq [key : Nat, text : Texts, rev : Revs]
ASSUME FreqAssumption ==
  /\ Freq \in [Texts -> [Terms -> Nat]]
  /\ \A x \in Texts : IsFiniteSet({t \in Terms : Freq[x][t] > 0})
ASSUME OrdersAssumption == \A t \in Texts : Orders[t] # {}
ASSUME RebuildAssumption == RebuildMin \in Nat

NoDoc == [key |-> -1, text |-> 0, rev |-> 0]     \* a retired slot
VShards == 0 .. V - 1
vshard_for(key) == key % V

VARIABLES
  keyword,     \* InvertedIndex
  vector,      \* VectorIndex
  mode,        \* quantized_mode of the vector index
  call         \* history: the latest call

vars == <<keyword, vector, mode, call>>

Max2(a, b) == IF a > b THEN a ELSE b

-----------------------------------------------------------------------------
(* InvertedIndex                                                           *)

EmptyKeyword ==
  [docs |-> <<>>, postings |-> [t \in Terms |-> {}], by_key |-> <<>>,
   free |-> <<>>, doc_len |-> <<>>, total_len |-> 0]

Posted(text) == {t \in Terms : Freq[text][t] > 0}

DocLen(text) == SumFunction([t \in Posted(text) |-> Freq[text][t]])

\* Mutant: the old postings stay.
remove_postings_None(postings, slot, doc) == postings

remove_postings(postings, slot, doc) ==
  [t \in Terms |-> IF t \in Posted(doc.text) THEN {p \in postings[t] : p.doc_id # slot}
                   ELSE postings[t]]

AddPostings(postings, slot, doc) ==
  [t \in Terms |-> IF t \in Posted(doc.text)
                   THEN postings[t] \cup {[doc_id |-> slot, term_freq |-> Freq[doc.text][t]]}
                   ELSE postings[t]]

\* A known aircraft is replaced in place; a new one takes a retired slot.
KeywordInsert(k, doc) ==
  IF doc.key \in DOMAIN k.by_key
  THEN LET slot == k.by_key[doc.key]
           out  == remove_postings(k.postings, slot, k.docs[slot])
       IN [k EXCEPT !.docs[slot] = doc,
                    !.postings = AddPostings(out, slot, doc),
                    !.total_len = @ - k.doc_len[slot] + DocLen(doc.text),
                    !.doc_len[slot] = DocLen(doc.text)]
  ELSE LET reuse == k.free # <<>>
           slot  == IF reuse THEN Last(k.free) ELSE Len(k.docs) + 1
       IN [docs      |-> IF reuse THEN [k.docs EXCEPT ![slot] = doc] ELSE Append(k.docs, doc),
           postings  |-> AddPostings(k.postings, slot, doc),
           by_key    |-> [x \in DOMAIN k.by_key \cup {doc.key} |->
                            IF x = doc.key THEN slot ELSE k.by_key[x]],
           free      |-> IF reuse THEN Front(k.free) ELSE k.free,
           doc_len   |-> IF reuse THEN [k.doc_len EXCEPT ![slot] = DocLen(doc.text)]
                         ELSE Append(k.doc_len, DocLen(doc.text)),
           total_len |-> k.total_len + DocLen(doc.text)]

KeywordRemove(k, key) ==
  IF key \notin DOMAIN k.by_key THEN k
  ELSE LET slot == k.by_key[key]
       IN [docs      |-> [k.docs EXCEPT ![slot] = NoDoc],
           postings  |-> remove_postings(k.postings, slot, k.docs[slot]),
           by_key    |-> Restrict(k.by_key, DOMAIN k.by_key \ {key}),
           free      |-> Append(k.free, slot),
           doc_len   |-> [k.doc_len EXCEPT ![slot] = 0],
           total_len |-> k.total_len - k.doc_len[slot]]

\* documents()
Documents(k) == {k.docs[s] : s \in DOMAIN k.docs} \ {NoDoc}

-----------------------------------------------------------------------------
(* VectorIndex                                                             *)

EmptyVector ==
  [docs |-> <<>>, texts |-> <<>>, by_key |-> <<>>, tombstoned |-> {},
   graph |-> <<>>, vectors_total |-> 0]

\* The fields in the order in which the document's map yields them
embeddable_text(doc, order) == [text |-> doc.text, order |-> order]

\* Same text: only the stored document changes.  New text: a second vector
\* for the slot, and the first one stays in the graph.
VectorInsert(x, doc, order) ==
  LET text  == embeddable_text(doc, order)
      known == doc.key \in DOMAIN x.by_key
      slot  == IF known THEN x.by_key[doc.key] ELSE Len(x.docs) + 1
  IN IF ~known
     THEN [x EXCEPT !.docs = Append(@, doc), !.texts = Append(@, text),
                    !.by_key = [y \in DOMAIN @ \cup {doc.key} |->
                                  IF y = doc.key THEN slot ELSE @[y]],
                    !.graph = Append(@, [slot |-> slot, text |-> doc.text]),
                    !.vectors_total = @ + 1]
     ELSE IF x.texts[slot] = text THEN [x EXCEPT !.docs[slot] = doc]
     ELSE [x EXCEPT !.docs[slot] = doc, !.texts[slot] = text,
                    !.graph = Append(@, [slot |-> slot, text |-> doc.text]),
                    !.vectors_total = @ + 1]

\* The live documents, in slot order, into a new graph
rebuild(x) ==
  LET built[s \in 0 .. Len(x.docs)] ==
        IF s = 0 THEN EmptyVector
        ELSE IF s \in x.tombstoned THEN built[s - 1]
        ELSE VectorInsert(built[s - 1], x.docs[s], x.texts[s].order)
  IN built[Len(x.docs)]

\* Mutant: the graph is never rebuilt.
VectorRemove_NoRebuild(x, key) ==
  IF key \notin DOMAIN x.by_key THEN x
  ELSE [x EXCEPT !.by_key = Restrict(@, DOMAIN @ \ {key}),
                 !.tombstoned = @ \cup {x.by_key[key]}]

VectorRemove(x, key) ==
  IF key \notin DOMAIN x.by_key THEN x
  ELSE LET y    == [x EXCEPT !.by_key = Restrict(@, DOMAIN @ \ {key}),
                             !.tombstoned = @ \cup {x.by_key[key]}]
           dead == Cardinality(y.tombstoned)
           live == Cardinality(DOMAIN y.by_key)
       IN IF dead >= RebuildMin /\ 4 * dead >= Max2(live, 1) THEN rebuild(y) ELSE y

Live(x) == DOMAIN x.docs \ x.tombstoned

-----------------------------------------------------------------------------
(* ShardStore: every operation changes both indexes under the lock         *)

TypeOK ==
  /\ keyword.docs \in Seq(Doc \cup {NoDoc})
  /\ keyword.by_key \in [DOMAIN keyword.by_key -> DOMAIN keyword.docs]
  /\ keyword.total_len \in Nat
  /\ vector.docs \in Seq(Doc) /\ DOMAIN vector.texts = DOMAIN vector.docs
  /\ vector.by_key \in [DOMAIN vector.by_key -> DOMAIN vector.docs]
  /\ vector.tombstoned \subseteq DOMAIN vector.docs
  /\ vector.vectors_total \in Nat
  /\ mode \in BOOLEAN

Init ==
  /\ keyword = EmptyKeyword /\ vector = EmptyVector /\ mode \in BOOLEAN
  /\ call = [op |-> "new"]

insert(doc, order) ==
  /\ vector' = VectorInsert(vector, doc, order)
  /\ vector'.vectors_total <= MaxVectors
  /\ keyword' = KeywordInsert(keyword, doc)
  /\ call' = [op |-> "insert", doc |-> doc]
  /\ UNCHANGED mode

Both == [keyword |-> keyword, vector |-> vector]

\* remove: one aircraft from both indexes
remove(store, key) ==
  [keyword |-> KeywordRemove(store.keyword, key), vector |-> VectorRemove(store.vector, key)]

\* The documents of virtual shard v removed, in the order of the keyword index's
\* slots, as far as slot n
Evicted(v, n) ==
  LET left[s \in 0 .. n] ==
        IF s = 0 THEN Both
        ELSE IF keyword.docs[s] # NoDoc /\ vshard_for(keyword.docs[s].key) = v
        THEN remove(left[s - 1], keyword.docs[s].key)
        ELSE left[s - 1]
  IN left[n]

\* Mutant: the last slot is missed.
evict_vshard_MissesLast(v) ==
  LET left == Evicted(v, Max2(Len(keyword.docs), 1) - 1)
  IN /\ keyword' = left.keyword /\ vector' = left.vector
     /\ call' = [op |-> "evict", vshard |-> v]
     /\ UNCHANGED mode

evict_vshard(v) ==
  LET left == Evicted(v, Len(keyword.docs))
  IN /\ keyword' = left.keyword /\ vector' = left.vector
     /\ call' = [op |-> "evict", vshard |-> v]
     /\ UNCHANGED mode

\* The documents inserted one by one into new indexes
Refilled(docs, order) ==
  LET filled[i \in 0 .. Len(docs)] ==
        IF i = 0 THEN [keyword |-> EmptyKeyword, vector |-> EmptyVector]
        ELSE [keyword |-> KeywordInsert(filled[i - 1].keyword, docs[i]),
              vector  |-> VectorInsert(filled[i - 1].vector, docs[i], order[i])]
  IN filled[Len(docs)]

\* New indexes; the vector index is built without the mode it had.
replace_all(docs, order) ==
  LET filled == Refilled(docs, order)
  IN /\ filled.vector.vectors_total <= MaxVectors
     /\ keyword' = filled.keyword /\ vector' = filled.vector
     /\ mode' = FALSE
     /\ call' = [op |-> "replace", docs |-> ToSet(docs)]

\* A snapshot is the documents of some member, in its slot order.
Snapshots ==
  {s \in UNION {[1 .. n -> Doc] : n \in 0 .. MaxSnapshot} :
     \A i, j \in DOMAIN s : s[i].key = s[j].key => i = j}

Next ==
  \/ \E doc \in Doc : \E order \in Orders[doc.text] : insert(doc, order)
  \/ \E v \in VShards : evict_vshard(v)
  \/ \E docs \in Snapshots :
       \E order \in {f \in [DOMAIN docs -> UNION Range(Orders)] :
                      \A i \in DOMAIN docs : f[i] \in Orders[docs[i].text]} :
         replace_all(docs, order)

Spec == Init /\ [][Next]_vars

-----------------------------------------------------------------------------
KeywordContent == Documents(keyword)
VectorContent == {vector.docs[s] : s \in Live(vector)}

\* The postings are exactly those of the live documents, slots are either
\* live or on the free list once, and the BM25 length statistics are theirs.
KeywordExact ==
  LET live == Range(keyword.by_key)
  IN /\ \A s \in DOMAIN keyword.docs :
          keyword.docs[s] # NoDoc <=> s \in live
     /\ \A key \in DOMAIN keyword.by_key : keyword.docs[keyword.by_key[key]].key = key
     /\ ToSet(keyword.free) = DOMAIN keyword.docs \ live
     /\ IsInjective(keyword.free)
     /\ \A t \in Terms : keyword.postings[t] =
          {[doc_id |-> s, term_freq |-> Freq[keyword.docs[s].text][t]] :
             s \in {r \in live : Freq[keyword.docs[r].text][t] > 0}}
     /\ \A s \in live : keyword.doc_len[s] = DocLen(keyword.docs[s].text)
     /\ keyword.total_len = SumFunction([s \in live |-> DocLen(keyword.docs[s].text)])

\* Every live document's current vector is in the graph under its slot, and
\* no live slot is a tombstone.
VectorExact ==
  /\ Range(vector.by_key) = Live(vector)
  /\ \A key \in DOMAIN vector.by_key :
       LET s == vector.by_key[key]
       IN /\ vector.docs[s].key = key /\ vector.texts[s].text = vector.docs[s].text
          /\ [slot |-> s, text |-> vector.docs[s].text] \in ToSet(vector.graph)

\* Both indexes are exact after any mix of upserts, removals with reuse of
\* slots, tombstones and rebuilds.
IndexesExact == KeywordExact /\ VectorExact

\* Tombstones are bounded by the rebuild threshold ("garbage can't accumulate
\* forever").
GarbageBounded ==
  LET dead == Cardinality(vector.tombstoned)
  IN dead < RebuildMin \/ 4 * dead < Max2(Cardinality(DOMAIN vector.by_key), 1)

\* Every aircraft with its text
TextOf == {<<d.key, d.text>> : d \in KeywordContent}

\* Upserts that leave the text of every aircraft as it was add no vector: "Same
\* text -> just overwrite the stored document, no new vector", so that replaced
\* vectors are "bounded by how rarely text actually changes".
SameTextNoVector ==
  [][TextOf' = TextOf => Len(vector'.graph) <= Len(vector.graph)]_vars

\* Each index is a map from aircraft to latest document: upserts, evictions
\* and snapshots do to it exactly what they do to the map.
KeywordMap == INSTANCE DocumentMap WITH content <- KeywordContent
VectorMap == INSTANCE DocumentMap WITH content <- VectorContent

\* Both indexes implement the map, and through it hold the same documents
\* ("the two views of the shard can never diverge").
Implements == KeywordMap!Spec /\ VectorMap!Spec
=============================================================================

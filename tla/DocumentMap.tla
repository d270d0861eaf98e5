---------------------------- MODULE DocumentMap ----------------------------
(***************************************************************************)
(* What a shard's store promises: a map from aircraft to its latest        *)
(* document.  An upsert changes one entry, an eviction removes exactly one *)
(* virtual shard's, installing a snapshot replaces all of them.            *)
(***************************************************************************)
CONSTANTS
  Doc,              \* documents, with a field key
  VShards,          \* virtual shards
  vshard_for(_)     \* key -> virtual shard

VARIABLES
  content,          \* set of documents, one per key
  call              \* the latest call

OnePerKey(S) == \A a, b \in S : a.key = b.key => a = b

Init == content = {} /\ call = [op |-> "new"]

Upsert(doc) ==
  /\ call' = [op |-> "insert", doc |-> doc]
  /\ content' = {d \in content : d.key # doc.key} \cup {doc}

Evict(v) ==
  /\ call' = [op |-> "evict", vshard |-> v]
  /\ content' = {d \in content : vshard_for(d.key) # v}

Replace(S) ==
  /\ OnePerKey(S)
  /\ call' = [op |-> "replace", docs |-> S]
  /\ content' = S

Next ==
  \/ \E doc \in Doc : Upsert(doc)
  \/ \E v \in VShards : Evict(v)
  \/ \E S \in SUBSET Doc : Replace(S)

Spec == Init /\ [][Next]_<<content, call>>
=============================================================================

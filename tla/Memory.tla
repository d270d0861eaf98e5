------------------------------- MODULE Memory -------------------------------
(***************************************************************************)
(* Agent memory (crates/memory/src/lib.rs): entries in namespaces, with a  *)
(* writer, a quota for each writer of a namespace, and a time to live.     *)
(*                                                                         *)
(* The caller supplies the time: it is a wall clock, which may be set      *)
(* back.  Times are 64-bit; Width stands for 2^64 and Milli for 1000, so   *)
(* that created_ms + ttl_secs * 1000 can wrap, as it does in a release     *)
(* build.                                                                  *)
(***************************************************************************)
EXTENDS Integers, FiniteSets

CONSTANTS
  Namespaces,
  Writers,
  Quota,      \* quota_per_writer
  Ttls,       \* times to live that callers ask for, 0 for ever
  Milli,
  Width,
  MaxClock,   \* bound: latest time
  MaxEntries  \* bound: accepted writes

ASSUME QuotaAssumption == Quota \in Nat
ASSUME MemoryTimesAssumption ==
  /\ Ttls \subseteq Nat /\ Milli \in Nat \ {0} /\ Width \in Nat
  /\ MaxClock \in Nat /\ MaxClock < Width /\ MaxEntries \in Nat

MemoryEntry ==
  [id : Nat, namespace : Namespaces, writer : Writers, created_ms : Nat, ttl_secs : Ttls]

VARIABLES
  memory,   \* entries, of all namespaces
  next_id,
  now_ms,   \* the time the next caller supplies
  refused,  \* the last write was refused for its quota: its [namespace, writer]
  accepted, \* history: entries that were written
  latest    \* history: the latest time a caller supplied

memory_vars == <<memory, next_id, now_ms, refused, accepted, latest>>

MemoryInit ==
  /\ memory = {} /\ next_id = 0
  /\ now_ms = 0 /\ latest = 0
  /\ refused = {} /\ accepted = {}

expired_at(e, t) ==
  e.ttl_secs # 0 /\ t >= (e.created_ms + ((e.ttl_secs * Milli) % Width)) % Width

\* Mutant: the live entries are counted, and the expired ones left where they are.
sweep_namespace_Nothing(ns) == memory

\* What is left of the store
sweep_namespace(ns) == {e \in memory : e.namespace = ns => ~expired_at(e, now_ms)}

HeldBy(S, ns, w) == {e \in S : e.namespace = ns /\ e.writer = w}

\* A write without a namespace, a text or a writer is refused before anything
\* changes, and is no step.  The sweep stays, also when the quota refuses the write.
remember(ns, w, ttl) ==
  LET swept == sweep_namespace(ns)
      entry == [id |-> next_id, namespace |-> ns, writer |-> w,
                created_ms |-> now_ms, ttl_secs |-> ttl]
  IN /\ next_id < MaxEntries
     /\ IF Cardinality(HeldBy(swept, ns, w)) >= Quota
        THEN /\ memory' = swept
             /\ refused' = {[namespace |-> ns, writer |-> w]}
             /\ UNCHANGED <<next_id, accepted>>
        ELSE /\ memory' = swept \cup {entry}
             /\ next_id' = next_id + 1
             /\ accepted' = accepted \cup {entry}
             /\ refused' = {}
     /\ UNCHANGED <<now_ms, latest>>

\* The periodic sweep of every namespace
sweep ==
  /\ memory' = {e \in memory : e \in sweep_namespace(e.namespace)}
  /\ refused' = {}
  /\ UNCHANGED <<next_id, now_ms, accepted, latest>>

\* recall with an empty query and no limit: all that is live
recall(ns) == {e \in memory : e.namespace = ns /\ ~expired_at(e, now_ms)}

Clock(t) ==
  /\ t # now_ms
  /\ now_ms' = t
  /\ latest' = IF t > latest THEN t ELSE latest
  /\ refused' = {}
  /\ UNCHANGED <<memory, next_id, accepted>>

MemoryNext ==
  \/ \E ns \in Namespaces, w \in Writers, ttl \in Ttls : remember(ns, w, ttl)
  \/ sweep
  \/ \E t \in 0 .. MaxClock : Clock(t)

-----------------------------------------------------------------------------
\* When an entry should go, as its writer asked; never for 0
Due(e) == e.created_ms + e.ttl_secs * Milli

Wraps(e) == Due(e) >= Width

\* Whatever the clock does, also when it is set back and expired entries that
\* nobody has swept come to life again: a writer never holds more than its
\* quota of a namespace, a write is refused only to one that holds as many live
\* entries, no two entries share an id, and an entry is recalled, in its own
\* namespace only, from its writing until a caller's clock passes its time to
\* live, and not after.  A time to live that does not fit 64 bits when counted
\* in milliseconds is not kept.
MemoryGoverned ==
  /\ \A ns \in Namespaces, w \in Writers : Cardinality(HeldBy(memory, ns, w)) <= Quota
  /\ \A r \in refused : Cardinality(HeldBy(recall(r.namespace), r.namespace, r.writer)) = Quota
  /\ \A e, f \in memory : e.id = f.id => e = f
  /\ \A e \in accepted : ~Wraps(e) =>
       /\ e.ttl_secs = 0 \/ latest < Due(e) => e \in recall(e.namespace)
       /\ e \in recall(e.namespace) => e.ttl_secs = 0 \/ now_ms < Due(e)
=============================================================================

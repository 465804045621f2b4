----------------------------- MODULE ApcCacheKV -----------------------------
(***************************************************************************)
(* The cache of ApcCache implements the table of KVCache: which block an   *)
(* entry is in, references, the gc list and defragmentation are invisible. *)
(***************************************************************************)
EXTENDS ApcCache

CONSTANTS Absent, Idle, Accepted, Rejected

\* The table: the entries in the slots.
Table == [k \in Key |->
  IF Matches(k) = {} THEN Absent
  ELSE LET e == heap[CHOOSE a \in Matches(k): TRUE]
       IN [val |-> e.val, ttl |-> e.ttl, ctime |-> e.ctime, atime |-> e.atime]]

Allocating == {"malloc", "nomem", "expunge", "avail", "defrag", "contig", "insert"}
\* The insertion inside an increment, until its return to the lookup.
Seeding(p) == args[p].then = "update" /\ pc[p] \in Allocating \cup {"release", "drop"}

WriteOf(r) == [op |-> IF r.excl THEN "add" ELSE "put", key |-> r.key, val |-> r.val,
               ttl |-> r.ttl, t |-> r.ct]
IncOf(r) == [op |-> "inc", key |-> r.key, ttl |-> r.ttl, t |-> r.t]
ReadOf(r) == [op |-> "read", key |-> r.key, t |-> r.t]
DeleteOf(r) == [op |-> "delete", key |-> r.key, t |-> r.t]

\* The request a process has pending: from its call to the step that takes effect.
RequestOf(p) ==
  CASE Seeding(p) \/ pc[p] = "update" -> IncOf(args[p])
    [] pc[p] \in Allocating /\ ~Seeding(p) -> WriteOf(args[p])
    [] pc[p] \in {"fetch", "exists", "entry"} -> ReadOf(args[p])
    [] pc[p] = "delete" -> DeleteOf(args[p])
    [] pc[p] = "clear" -> [op |-> "clear"]
    [] pc[p] = "release" /\ ~Seeding(p) -> Accepted
    [] pc[p] = "drop" /\ ~Seeding(p) -> Rejected
    [] OTHER -> Idle

Requests == [p \in Proc |-> RequestOf(p)]

KV == INSTANCE KVCache WITH table <- Table, req <- Requests

ASSUME AbsentAssumption == Absent \notin KV!Content
ASSUME AnswerAssumption == \A a \in {Idle, Accepted, Rejected}: a \notin KV!Request

\* The cache implements the table: every operation takes effect at once and at most once,
\* with its own arguments; an entry vanishes only by a delete, a replacement, its expiry,
\* a clear, or the wipe of an expunge (apc_cache_default_expunge and its header comment).
ImplementsTable == KV!Spec
=============================================================================

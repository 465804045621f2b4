------------------------------ MODULE KVCache ------------------------------
(***************************************************************************)
(* What the user cache promises to the programs that use it: a table of    *)
(* entries that changes only by the requests of the processes, each taking *)
(* effect at once and at most once; an entry disappears when it is         *)
(* deleted, replaced, expired, or when a write for which there is no       *)
(* memory wipes the whole table.  No blocks, no references, no locks.      *)
(***************************************************************************)
EXTENDS Integers

CONSTANTS
  Proc, Key,
  Str,       \* a value that is not an integer
  MaxLong,   \* integers are 0..MaxLong and wrap
  Ttls,      \* TTLs of the requests
  CacheTtl,  \* TTL of the entries that have none, from their last access
  Absent,    \* no entry
  Idle,      \* no request
  Accepted, Rejected  \* the answers to a write

VARIABLES table, req, now

kvars == <<table, req, now>>

Val == (0..MaxLong) \cup {Str}
Content == [val: Val, ttl: Nat, ctime: Nat, atime: Nat]
Request == [op: {"put", "add"}, key: Key, val: Val, ttl: Nat, t: Nat]
             \cup [op: {"read", "delete"}, key: Key, t: Nat]
             \cup [op: {"inc"}, key: Key, ttl: Nat, t: Nat]
             \cup [op: {"clear"}]

Overdue(e, t) == e.ttl # 0 /\ e.ctime + e.ttl < t
Unused(e, t) == e.ttl = 0 /\ CacheTtl # 0 /\ e.atime + CacheTtl < t

Missing(k, t) == table[k] = Absent \/ Overdue(table[k], t)

\* Some entries that are out of date at t are gone.
Evicted(tab, t) ==
  {[k \in Key |-> IF k \in S THEN Absent ELSE tab[k]] :
     S \in SUBSET {k \in Key: tab[k] # Absent /\ (Overdue(tab[k], t) \/ Unused(tab[k], t))}}

Fresh(v, ttl, t) == [val |-> v, ttl |-> ttl, ctime |-> t, atime |-> t]

Done(p) == req' = [req EXCEPT ![p] = Idle]

-----------------------------------------------------------------------------
Init == table = [k \in Key |-> Absent] /\ req = [p \in Proc |-> Idle] /\ now = 0

\* The requests a program can make at t.
Requested(t) == [op: {"put", "add"}, key: Key, val: Val, ttl: Ttls, t: {t}]
                  \cup [op: {"read", "delete"}, key: Key, t: {t}]
                  \cup [op: {"inc"}, key: Key, ttl: Ttls, t: {t}]
                  \cup [op: {"clear"}]

Ask(p) ==
  /\ req[p] = Idle
  /\ \E r \in Requested(now): req' = [req EXCEPT ![p] = r]
  /\ UNCHANGED <<table, now>>

Asks(p, op) == req[p] \notin {Idle, Accepted, Rejected} /\ req[p].op = op
Writes(p) == Asks(p, "put") \/ Asks(p, "add")

\* A write takes effect; an add only where there is nothing.
Write(p) ==
  /\ Writes(p)
  /\ req[p].op = "add" => Missing(req[p].key, req[p].t)
  /\ \E tab \in Evicted(table, req[p].t):
       table' = [tab EXCEPT ![req[p].key] = Fresh(req[p].val, req[p].ttl, req[p].t)]
  /\ req' = [req EXCEPT ![p] = Accepted]
  /\ UNCHANGED now

\* An add finds an entry.
Refuse(p) ==
  /\ Asks(p, "add")
  /\ ~Missing(req[p].key, req[p].t)
  /\ table' \in Evicted(table, req[p].t)
  /\ req' = [req EXCEPT ![p] = Rejected]
  /\ UNCHANGED now

\* An increment of a missing key adds it with value 0, at any later time.
Seed(p) ==
  /\ Asks(p, "inc")
  /\ \E t \in req[p].t..now:
       /\ Missing(req[p].key, t)
       /\ \E tab \in Evicted(table, t):
            table' = [tab EXCEPT ![req[p].key] = Fresh(0, req[p].ttl, t)]
  /\ UNCHANGED <<req, now>>

\* An increment is applied to the value the table has, once.
Bump(p) ==
  /\ Asks(p, "inc")
  /\ ~Missing(req[p].key, req[p].t)
  /\ table' = [table EXCEPT ![req[p].key].val =
       IF @ = Str THEN Str ELSE IF @ = MaxLong THEN 0 ELSE @ + 1]
  /\ Done(p)
  /\ UNCHANGED now

ReadHit(p) ==
  /\ Asks(p, "read")
  /\ ~Missing(req[p].key, req[p].t)
  /\ table' = [table EXCEPT ![req[p].key].atime = req[p].t]
  /\ Done(p)
  /\ UNCHANGED now

ReadMiss(p) ==
  /\ Asks(p, "read")
  /\ Missing(req[p].key, req[p].t)
  /\ Done(p)
  /\ UNCHANGED <<table, now>>

Remove(p) ==
  /\ Asks(p, "delete")
  /\ table' = [table EXCEPT ![req[p].key] = Absent]
  /\ Done(p)
  /\ UNCHANGED now

Wipe(p) ==
  /\ Asks(p, "clear")
  /\ table' = [k \in Key |-> Absent]
  /\ Done(p)
  /\ UNCHANGED now

\* Memory is short: a pending write makes room.
MakeRoom(p) ==
  /\ Writes(p) \/ Asks(p, "inc")
  /\ table' \in (UNION {Evicted(table, t): t \in 0..now}) \cup {[k \in Key |-> Absent]}
  /\ UNCHANGED <<req, now>>

\* A write finds no memory, an increment no integer, or the request of the process ends.
GiveUp(p) ==
  /\ Writes(p) \/ Asks(p, "inc")
  /\ Done(p)
  /\ UNCHANGED <<table, now>>

\* The process takes the answer to its write.
Return(p) ==
  /\ req[p] \in {Accepted, Rejected}
  /\ Done(p)
  /\ UNCHANGED <<table, now>>

Tick == now' = now + 1 /\ UNCHANGED <<table, req>>

Next ==
  \/ \E p \in Proc: \/ Ask(p) \/ Write(p) \/ Refuse(p) \/ Seed(p) \/ Bump(p)
                    \/ ReadHit(p) \/ ReadMiss(p) \/ Remove(p) \/ Wipe(p)
                    \/ MakeRoom(p) \/ GiveUp(p) \/ Return(p)
  \/ Tick

Spec == Init /\ [][Next]_kvars
=============================================================================

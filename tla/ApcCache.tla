------------------------------ MODULE ApcCache ------------------------------
(***************************************************************************)
(* The user cache of apc_cache.c: processes that share a memory segment    *)
(* store, fetch, update, delete and clear entries, expunge the cache when  *)
(* memory runs out, and run apcu_entry() generators under the write lock.  *)
(*                                                                         *)
(* The segment is Blocks equally sized blocks, one entry each.  The hash   *)
(* slots and the gc chain are sets of block addresses: `linked' holds the  *)
(* entries reachable from the slots, `gc' those on the removed list.       *)
(* A section of code that runs under the cache lock and touches only what  *)
(* that lock protects is one action; what happens outside the lock, or     *)
(* takes the allocator's own mutex, is an action of its own.               *)
(***************************************************************************)
EXTENDS Integers, Sequences, FiniteSets

CONSTANTS
  Proc,         \* the processes attached to the segment
  NoProc,       \* nobody holds the cache write lock
  Key,          \* user keys
  SlotOf,       \* the hash slot of a key
  Blocks,       \* number of blocks of the segment
  Free,         \* a block that holds no entry
  Str,          \* a value that is not an integer
  MaxLong,      \* integers are 0..MaxLong and wrap
  Values,       \* the values user code stores
  Ttls,         \* per-entry TTLs user code passes (0: none)
  CacheTtl,     \* apc.ttl
  GcTtl,        \* apc.gc_ttl
  Threshold,    \* expunge_threshold, in blocks
  Ops,          \* the workload: the operations each process calls
  Failures,     \* the failures of the workload
  MaxTime,      \* bound: the clock stops here
  MaxDepth,     \* bound: nesting of user code inside the cache's callbacks
  MaxCleanups,  \* bound: no store starts after that many expunges
  MaxFailures   \* bound: requests that end in the middle of an operation

OpNames == {"store", "add", "fetch", "exists", "inc", "delete", "clear", "entry"}
FailureNames == {"persist", "throw", "bailout", "crash"}

ASSUME ProcAssumption == IsFiniteSet(Proc) /\ NoProc \notin Proc
ASSUME KeyAssumption == Key # {}
ASSUME BlocksAssumption == Blocks \in Nat \ {0}
ASSUME TtlAssumption ==
  /\ Ttls \subseteq Nat
  /\ CacheTtl \in Nat /\ GcTtl \in Nat /\ Threshold \in Nat
ASSUME ValueAssumption == MaxLong \in Nat /\ Str \notin 0..MaxLong /\ Values \subseteq (0..MaxLong) \cup {Str}
ASSUME WorkloadAssumption ==
  /\ Ops \in [Proc -> SUBSET OpNames]
  /\ Failures \subseteq FailureNames
ASSUME BoundAssumption ==
  MaxTime \in Nat /\ MaxDepth \in Nat /\ MaxCleanups \in Nat /\ MaxFailures \in Nat

Addr == 1..Blocks
Null == 0
Val == (0..MaxLong) \cup {Str}

Entry == [key: Key, val: Val, ttl: Nat, ref: Int, ctime: Nat, atime: Nat, dtime: Nat]
ASSUME FreeAssumption == Free \notin Entry

VARIABLES
  heap,       \* the blocks of the segment
  linked,     \* the entries in the hash slots
  gc,         \* removed entries that were still referenced
  nentries,   \* header->nentries
  ncleanups,  \* header->ncleanups
  wlock,      \* the process that holds the cache lock for writing
  now,        \* the clock
  pc,         \* where each process is
  args,       \* the arguments and locals of its running operation
  ptr,        \* the entry its running store has allocated
  stack,      \* the callbacks of the cache whose user code is running
  level,      \* APCG(entry_level)
  lost,       \* history: blocks whose owner is gone before linking them
  failures    \* history: how many requests have ended in the middle of an operation

shared == <<heap, linked, gc, nentries, ncleanups>>
history == <<lost, failures>>
vars == <<shared, wlock, now, pc, args, ptr, stack, level, history>>

PCs == {"user", "malloc", "nomem", "expunge", "avail", "defrag", "contig", "insert",
        "release", "drop", "fetch", "exists", "update", "delete", "clear", "entry",
        "exit", "bail", "dead"}

\* The locals of an operation: t is the time of a lookup, ct the creation time of a
\* stored entry, xt that of an expunge; `then' is where the caller of a store resumes.
\* `missed' is a history field: an expunge completed since ncl was read.
Args == [key: Key, val: Val, ttl: Nat, t: Nat, ct: Nat, xt: Nat, excl: BOOLEAN,
         insert: BOOLEAN, then: {"user", "update", "exit"},
         ncl: Nat, nuked: BOOLEAN, missed: BOOLEAN]

\* A callback that runs user code: "fetch" and "hit" unserialize the pinned entry at
\* addr, "gen" is the generator of apcu_entry().
Frame == [kind: {"fetch", "hit"}, addr: Addr, key: Key]
           \cup [kind: {"gen"}, key: Key, ttl: Nat]

\* The key of an idle process.
AnyKey == CHOOSE k \in Key: TRUE

NoArgs == [key |-> AnyKey, val |-> 0, ttl |-> 0, t |-> 0, ct |-> 0, xt |-> 0,
           excl |-> FALSE, insert |-> FALSE, then |-> "user",
           ncl |-> 0, nuked |-> FALSE, missed |-> FALSE]

-----------------------------------------------------------------------------
(* Entries, expiry, the lists *)

\* Faulty variant: an entry expires one second early.
HardExpiredEarly(e, t) == e.ttl # 0 /\ e.ctime + e.ttl <= t

HardExpired(e, t) == e.ttl # 0 /\ e.ctime + e.ttl < t
\* Faulty variant: the cache's TTL runs from the creation.
SoftExpiredFromCreation(e, t) == e.ttl = 0 /\ CacheTtl # 0 /\ e.ctime + CacheTtl < t
SoftExpired(e, t) == e.ttl = 0 /\ CacheTtl # 0 /\ e.atime + CacheTtl < t
Expired(e, t) == HardExpired(e, t) \/ SoftExpired(e, t)

\* apc_cache_wlocked_remove_entry frees an unreferenced entry and keeps the others.
Unreferenced(e) == e.ref <= 0

\* The heap and the gc list once the entries of S are removed from their slots.
HeapRemove(h, S) ==
  [a \in Addr |-> IF a \notin S THEN h[a]
                  ELSE IF Unreferenced(h[a]) THEN Free
                  ELSE [h[a] EXCEPT !.dtime = now]]
\* Faulty variant: a removed entry in use is on no list.
GcAddNothing(h, g, S) == g
GcAdd(h, g, S) == g \cup {a \in S: ~Unreferenced(h[a])}
\* Faulty variants: the caller decrements the count too; nobody does.
CountRemoveTwice(n, S) == n - 2 * Cardinality(S)
CountRemoveNever(n, S) == n
CountRemove(n, S) == IF n > Cardinality(S) THEN n - Cardinality(S) ELSE 0

\* Faulty variant: the collector takes the last reference for its own.
GcKeepsShared(e) == e.ref > 1 /\ (IF GcTtl # 0 THEN now - e.dtime ELSE 0) <= GcTtl
\* apc_cache_wlocked_gc keeps a referenced entry for gc_ttl seconds.
GcKeeps(e) == e.ref > 0 /\ (IF GcTtl # 0 THEN now - e.dtime ELSE 0) <= GcTtl
GcList(h, g) == {a \in g: GcKeeps(h[a])}
HeapGc(h, g) == [a \in Addr |-> IF a \in g /\ ~GcKeeps(h[a]) THEN Free ELSE h[a]]

Matches(k) == {a \in linked: heap[a].key = k}
\* apc_cache_rlocked_find: the entry of k, unless a per-entry TTL has expired.
Found(k, t) == {a \in Matches(k): ~HardExpired(heap[a], t)}

FreeAddrs == {a \in Addr: heap[a] = Free}
Used == Addr \ FreeAddrs

-----------------------------------------------------------------------------
(* Locks, callbacks *)

\* Faulty variant: nobody is excluded.
CanLockAlways(p) == TRUE

\* apc_cache_wlock and apc_cache_rlock: a process inside apcu_entry() takes no lock.
CanLock(p) == level[p] > 0 \/ wlock = NoProc
WLock(p) == IF level[p] > 0 THEN wlock ELSE p
WUnlock(p) == IF level[p] > 0 THEN wlock ELSE NoProc

Top(p) == stack[p][Len(stack[p])]
Push(p, f) == stack' = [stack EXCEPT ![p] = Append(@, f)]
Pop(p) == stack' = [stack EXCEPT ![p] = SubSeq(@, 1, Len(@) - 1)]
InCallback(p, kind) == pc[p] = "user" /\ stack[p] # <<>> /\ Top(p).kind = kind

Goto(p, l) == pc' = [pc EXCEPT ![p] = l]
\* Return from a store to its caller.
Resume(p) ==
  /\ Goto(p, args[p].then)
  /\ args' = [args EXCEPT ![p] =
       IF @.then = "update" THEN [@ EXCEPT !.nuked = FALSE, !.then = "user"] ELSE NoArgs]
Return(p) == Goto(p, "user") /\ args' = [args EXCEPT ![p] = NoArgs]

\* atomic decrement of the reference count of whatever entry is now at a
Decref(h, a) == IF h[a] = Free THEN h ELSE [h EXCEPT ![a].ref = @ - 1]

-----------------------------------------------------------------------------
Init ==
  /\ heap = [a \in Addr |-> Free]
  /\ linked = {} /\ gc = {} /\ nentries = 0 /\ ncleanups = 0
  /\ wlock = NoProc
  /\ now = 0
  /\ pc = [p \in Proc |-> "user"]
  /\ args = [p \in Proc |-> NoArgs]
  /\ ptr = [p \in Proc |-> Null]
  /\ stack = [p \in Proc |-> <<>>]
  /\ level = [p \in Proc |-> 0]
  /\ lost = {} /\ failures = 0

-----------------------------------------------------------------------------
(* User code calls an operation: it reads the clock before it takes any lock. *)

Calls(p, op) == pc[p] = "user" /\ op \in Ops[p] /\ Len(stack[p]) <= MaxDepth

\* apcu_store and apcu_add
CallStore(p, k, v, ttl) ==
  \E op \in {"store", "add"}:
    /\ Calls(p, op) /\ ncleanups < MaxCleanups
    /\ Goto(p, "malloc")
    /\ args' = [args EXCEPT ![p] = [NoArgs EXCEPT !.key = k, !.val = v, !.ttl = ttl,
                                                  !.ct = now, !.excl = (op = "add")]]
    /\ UNCHANGED <<shared, wlock, now, ptr, stack, level, history>>

\* apcu_fetch, apcu_exists, apcu_delete
CallLookup(p, k) ==
  \E op \in {"fetch", "exists", "delete"}:
    /\ Calls(p, op)
    /\ op = "fetch" => Len(stack[p]) < MaxDepth
    /\ Goto(p, op)
    /\ args' = [args EXCEPT ![p] = [NoArgs EXCEPT !.key = k, !.t = now]]
    /\ UNCHANGED <<shared, wlock, now, ptr, stack, level, history>>

\* apcu_inc
CallUpdate(p, k, ttl) ==
  /\ Calls(p, "inc") /\ ncleanups < MaxCleanups
  /\ Goto(p, "update")
  /\ args' = [args EXCEPT ![p] = [NoArgs EXCEPT !.key = k, !.ttl = ttl, !.t = now,
                                                !.insert = TRUE]]
  /\ UNCHANGED <<shared, wlock, now, ptr, stack, level, history>>

\* apcu_clear_cache
CallClear(p) ==
  /\ Calls(p, "clear")
  /\ Goto(p, "clear")
  /\ UNCHANGED <<shared, wlock, now, args, ptr, stack, level, history>>

\* apcu_entry
CallEntry(p, k, ttl) ==
  /\ Calls(p, "entry") /\ ncleanups < MaxCleanups /\ Len(stack[p]) < MaxDepth
  /\ Goto(p, "entry")
  /\ args' = [args EXCEPT ![p] = [NoArgs EXCEPT !.key = k, !.ttl = ttl, !.t = now]]
  /\ UNCHANGED <<shared, wlock, now, ptr, stack, level, history>>

-----------------------------------------------------------------------------
(* Storing: allocation and expunge *)

\* Faulty variant: the count starts at zero.
InitialRefZero == 0

\* The allocator initializes the reference count before it drops its mutex.
InitialRef == 1

\* apc_sma_malloc succeeds; apc_persist and apc_cache_set_entry_values fill the block.
Malloc(p) ==
  /\ pc[p] = "malloc"
  /\ \E a \in FreeAddrs:
       /\ heap' = [heap EXCEPT ![a] =
            [key |-> args[p].key, val |-> args[p].val, ttl |-> args[p].ttl,
             ref |-> InitialRef, ctime |-> args[p].ct, atime |-> args[p].ct, dtime |-> 0]]
       /\ ptr' = [ptr EXCEPT ![p] = a]
  /\ Goto(p, "insert")
  /\ UNCHANGED <<linked, gc, nentries, ncleanups, wlock, now, args, stack, level, history>>

\* No block is free: expunge once, otherwise the store fails.
MallocFail(p) ==
  /\ pc[p] = "malloc" /\ FreeAddrs = {}
  /\ IF args[p].nuked
       THEN Resume(p)
       ELSE Goto(p, "nomem") /\ UNCHANGED args
  /\ UNCHANGED <<shared, wlock, now, ptr, stack, level, history>>

\* apc_cache_default_expunge reads the cleanup counter and the clock before it locks.
ReadCleanups(p) ==
  /\ pc[p] = "nomem"
  /\ Goto(p, "expunge")
  /\ args' = [args EXCEPT ![p].ncl = ncleanups, ![p].xt = now, ![p].missed = FALSE]
  /\ UNCHANGED <<shared, wlock, now, ptr, stack, level, history>>

\* Faulty variant: no expunge is skipped.
StackedNever(p) == FALSE

\* Faulty variant: every expunge takes itself for a stacked one.
StackedOrEqual(p) == args[p].ncl <= ncleanups

Stacked(p) == args[p].ncl < ncleanups
Need == 1 + Threshold

ExpungeSkip(p) ==
  /\ pc[p] = "expunge" /\ CanLock(p) /\ Stacked(p)
  /\ Goto(p, "malloc")
  /\ UNCHANGED <<shared, wlock, now, args, ptr, stack, level, history>>

\* The end of an expunge: count it, unlock, let the allocation try again.
ExpungeEnd(p) ==
  /\ ncleanups' = ncleanups + 1
  /\ wlock' = WUnlock(p)
  /\ Goto(p, "malloc")
  /\ args' = [q \in Proc |->
       IF q = p THEN [args[p] EXCEPT !.nuked = TRUE]
       ELSE IF pc[q] = "expunge" THEN [args[q] EXCEPT !.missed = TRUE]
       ELSE args[q]]
  /\ UNCHANGED <<now, ptr, stack, level, history>>

\* apc_cache_wlocked_real_expunge, without a gc pass
RealExpunge ==
  /\ heap' = HeapRemove(heap, linked)
  /\ gc' = GcAdd(heap, gc, linked)
  /\ linked' = {}
  /\ nentries' = 0

\* The same, followed by a gc pass.
RealExpungeGc ==
  LET h == HeapRemove(heap, linked)  g == GcAdd(heap, gc, linked)
  IN /\ heap' = HeapGc(h, g)
     /\ gc' = GcList(h, g)
     /\ linked' = {}
     /\ nentries' = 0

\* The threshold exceeds the segment: wipe at once.
ExpungeAll(p) ==
  /\ pc[p] = "expunge" /\ CanLock(p) /\ ~Stacked(p) /\ Need > Blocks
  /\ RealExpungeGc
  /\ ExpungeEnd(p)

\* Remove the expired entries and run a gc pass; keep the lock.
ExpungeExpired(p) ==
  /\ pc[p] = "expunge" /\ CanLock(p) /\ ~Stacked(p) /\ Need <= Blocks
  /\ LET S == {a \in linked: Expired(heap[a], args[p].xt)}
         h == HeapRemove(heap, S)
         g == GcAdd(heap, gc, S)
     IN /\ heap' = HeapGc(h, g)
        /\ gc' = GcList(h, g)
        /\ linked' = linked \ S
        /\ nentries' = CountRemove(nentries, S)
  /\ wlock' = WLock(p)
  /\ Goto(p, "avail")
  /\ UNCHANGED <<ncleanups, now, args, ptr, stack, level, history>>

\* apc_sma_check_avail, without the allocator's mutex
Available == Cardinality(FreeAddrs) >= Need

\* Faulty variant: too little memory, and nothing more is removed.
ExpungeShortKept(p) ==
  /\ pc[p] = "avail" /\ ~Available
  /\ UNCHANGED <<heap, linked, gc, nentries>>
  /\ ExpungeEnd(p)

ExpungeShort(p) ==
  /\ pc[p] = "avail" /\ ~Available
  /\ RealExpunge
  /\ ExpungeEnd(p)

ExpungeAvail(p) ==
  /\ pc[p] = "avail" /\ Available
  /\ Goto(p, "defrag")
  /\ UNCHANGED <<shared, wlock, now, args, ptr, stack, level, history>>

\* Faulty variant: one reference does not pin.
MovableShared(e) == e.ref <= 1

\* apc_cache_wlocked_move_entry refuses to move a pinned entry.
Movable(e) == e.ref <= 0

\* apc_sma_defrag walks the blocks upwards and moves each movable one down to the free
\* space below it: f is where the used blocks end up.
Compacts(f) ==
  /\ \A a \in Used: f[a] <= a /\ (~Movable(heap[a]) => f[a] = a)
  /\ \A a, b \in Used: a < b => f[a] < f[b]
  /\ \A a \in Used: Movable(heap[a]) => f[a] = 1 \/ \E b \in Used: f[b] = f[a] - 1

\* A link to a block that moved follows it.
Follow(f, a) == IF a \in Used THEN f[a] ELSE a

ExpungeDefrag(p) ==
  /\ pc[p] = "defrag"
  /\ \E f \in [Used -> Addr]:
       /\ Compacts(f)
       /\ heap' = [b \in Addr |-> IF \E a \in Used: f[a] = b
                                    THEN heap[CHOOSE a \in Used: f[a] = b] ELSE Free]
       /\ linked' = {Follow(f, a): a \in linked}
       /\ gc' = {Follow(f, a): a \in gc}
  /\ Goto(p, "contig")
  /\ UNCHANGED <<nentries, ncleanups, wlock, now, args, ptr, stack, level, history>>

\* apc_sma_check_avail_contiguous
Contiguous == \E a \in Addr: a + Need - 1 <= Blocks /\ a..(a + Need - 1) \subseteq FreeAddrs

ExpungeFragmented(p) ==
  /\ pc[p] = "contig" /\ ~Contiguous
  /\ RealExpunge
  /\ ExpungeEnd(p)

ExpungeDone(p) ==
  /\ pc[p] = "contig" /\ Contiguous
  /\ UNCHANGED <<heap, linked, gc, nentries>>
  /\ ExpungeEnd(p)

-----------------------------------------------------------------------------
(* Storing: insertion, apc_cache_wlocked_insert *)

\* The walk of the slot removes the stale entries it passes: all of them, or those in
\* front of the entry it looks for.
Stale(p) == {a \in linked: /\ heap[a].key # args[p].key
                           /\ SlotOf[heap[a].key] = SlotOf[args[p].key]
                           /\ Expired(heap[a], args[p].ct)}

\* An exclusive insert gives way to an entry that has not expired.
Refused(p) == args[p].excl /\ Found(args[p].key, args[p].ct) # {}

InsertRefused(p) ==
  /\ pc[p] = "insert" /\ CanLock(p) /\ Refused(p)
  /\ \E S \in SUBSET Stale(p):
       /\ heap' = HeapRemove(HeapGc(heap, gc), S)
       /\ gc' = GcAdd(heap, GcList(heap, gc), S)
       /\ linked' = linked \ S
       /\ nentries' = CountRemove(nentries, S)
  /\ Goto(p, "drop")
  /\ UNCHANGED <<ncleanups, wlock, now, args, ptr, stack, level, history>>

\* Faulty variant: the previous entry of the key stays.
ReplacedStale(p) == {Stale(p)}

\* The entries an insert removes: one that has the key, and stale ones.
Replaced(p) ==
  IF Matches(args[p].key) = {} THEN {Stale(p)}
  ELSE {S \cup {m}: S \in SUBSET Stale(p), m \in Matches(args[p].key)}

Insert(p) ==
  /\ pc[p] = "insert" /\ CanLock(p) /\ ~Refused(p)
  /\ \E S \in Replaced(p):
       /\ heap' = HeapRemove(HeapGc(heap, gc), S)
       /\ gc' = GcAdd(heap, GcList(heap, gc), S)
       /\ linked' = (linked \ S) \cup {ptr[p]}
       /\ nentries' = CountRemove(nentries, S) + 1
  /\ Goto(p, "release")
  /\ UNCHANGED <<ncleanups, wlock, now, args, ptr, stack, level, history>>

\* After the unlock: the store gives up its reference.
Release(p) ==
  /\ pc[p] = "release"
  /\ heap' = Decref(heap, ptr[p])
  /\ ptr' = [ptr EXCEPT ![p] = Null]
  /\ Resume(p)
  /\ UNCHANGED <<linked, gc, nentries, ncleanups, wlock, now, stack, level, history>>

\* After the unlock: free the entry that was refused.
Drop(p) ==
  /\ pc[p] = "drop"
  /\ heap' = [heap EXCEPT ![ptr[p]] = Free]
  /\ ptr' = [ptr EXCEPT ![p] = Null]
  /\ Resume(p)
  /\ UNCHANGED <<linked, gc, nentries, ncleanups, wlock, now, stack, level, history>>

\* A request ends in the middle of an operation.
FailureOf(f) == f \in Failures /\ failures < MaxFailures /\ failures' = failures + 1

\* The copy into the block runs out of request memory: the request ends between
\* allocation and insertion, and nobody frees the block.
PersistBailout(p) ==
  /\ FailureOf("persist")
  /\ pc[p] = "insert"
  /\ lost' = lost \cup {ptr[p]}
  /\ ptr' = [ptr EXCEPT ![p] = Null]
  /\ Goto(p, "bail")
  /\ args' = [args EXCEPT ![p] = NoArgs]
  /\ UNCHANGED <<shared, wlock, now, stack, level>>

-----------------------------------------------------------------------------
(* Looking up, updating, deleting, clearing *)

\* Faulty variant: the entry is not pinned.
TouchedOnly(h, a, t, pins) == [h EXCEPT ![a].atime = t]

\* apc_cache_rlocked_find sets the access time, ..._find_incref also pins the entry.
Touched(h, a, t, pins) == [h EXCEPT ![a].atime = t, ![a].ref = @ + pins]

Miss(p) == Found(args[p].key, args[p].t) = {}

FetchHit(p) ==
  /\ pc[p] = "fetch" /\ CanLock(p)
  /\ \E a \in Found(args[p].key, args[p].t):
       /\ heap' = Touched(heap, a, args[p].t, 1)
       /\ Push(p, [kind |-> "fetch", addr |-> a, key |-> args[p].key])
  /\ Return(p)
  /\ UNCHANGED <<linked, gc, nentries, ncleanups, wlock, now, ptr, level, history>>

ExistsHit(p) ==
  /\ pc[p] = "exists" /\ CanLock(p)
  /\ \E a \in Found(args[p].key, args[p].t): heap' = Touched(heap, a, args[p].t, 0)
  /\ Return(p)
  /\ UNCHANGED <<linked, gc, nentries, ncleanups, wlock, now, ptr, stack, level, history>>

LookupMiss(p) ==
  /\ pc[p] \in {"fetch", "exists"} /\ CanLock(p) /\ Miss(p)
  /\ Return(p)
  /\ UNCHANGED <<shared, wlock, now, ptr, stack, level, history>>

\* The value is copied, outside the lock: the pin is released.
FetchReturn(p) ==
  /\ InCallback(p, "fetch")
  /\ heap' = Decref(heap, Top(p).addr)
  /\ Pop(p)
  /\ UNCHANGED <<linked, gc, nentries, ncleanups, wlock, now, pc, args, ptr, level, history>>

\* apc_cache_atomic_update_long with the updater of apcu_inc
Incremented(v) == IF v = Str THEN Str ELSE (v + 1) % (MaxLong + 1)

UpdateHit(p) ==
  /\ pc[p] = "update" /\ CanLock(p)
  /\ \E a \in Found(args[p].key, args[p].t):
       heap' = [heap EXCEPT ![a].val = Incremented(@)]
  /\ Return(p)
  /\ UNCHANGED <<linked, gc, nentries, ncleanups, wlock, now, ptr, stack, level, history>>

\* Faulty variant: the insertion replaces an entry that another process has added.
UpdateOverwrite(p) ==
  /\ pc[p] = "update" /\ CanLock(p) /\ Miss(p) /\ args[p].insert
  /\ Goto(p, "malloc")
  /\ args' = [args EXCEPT ![p].val = 0, ![p].ct = now, ![p].excl = FALSE,
                          ![p].insert = FALSE, ![p].then = "update"]
  /\ UNCHANGED <<shared, wlock, now, ptr, stack, level, history>>

\* Not found: add the key with value 0 and look once more.
UpdateInsert(p) ==
  /\ pc[p] = "update" /\ CanLock(p) /\ Miss(p) /\ args[p].insert
  /\ Goto(p, "malloc")
  /\ args' = [args EXCEPT ![p].val = 0, ![p].ct = now, ![p].excl = TRUE,
                          ![p].insert = FALSE, ![p].then = "update"]
  /\ UNCHANGED <<shared, wlock, now, ptr, stack, level, history>>

UpdateMiss(p) ==
  /\ pc[p] = "update" /\ CanLock(p) /\ Miss(p) /\ ~args[p].insert
  /\ Return(p)
  /\ UNCHANGED <<shared, wlock, now, ptr, stack, level, history>>

\* apc_cache_delete removes the entry of the key, expired or not.
Delete(p) ==
  /\ pc[p] = "delete" /\ CanLock(p)
  /\ \/ \E a \in Matches(args[p].key):
          /\ heap' = HeapRemove(heap, {a})
          /\ gc' = GcAdd(heap, gc, {a})
          /\ linked' = linked \ {a}
          /\ nentries' = CountRemove(nentries, {a})
     \/ /\ Matches(args[p].key) = {}
        /\ UNCHANGED <<heap, linked, gc, nentries>>
  /\ Return(p)
  /\ UNCHANGED <<ncleanups, wlock, now, ptr, stack, level, history>>

Clear(p) ==
  /\ pc[p] = "clear" /\ CanLock(p)
  /\ RealExpungeGc
  /\ ncleanups' = 0
  /\ Goto(p, "user")
  /\ UNCHANGED <<wlock, now, args, ptr, stack, level, history>>

-----------------------------------------------------------------------------
(* apcu_entry: apc_cache_entry holds the write lock while user code runs *)

Enter(p) ==
  /\ wlock' = WLock(p)
  /\ level' = [level EXCEPT ![p] = @ + 1]

\* Faulty variant: a nested call gives the lock back.
LeaveNested(p) ==
  /\ level' = [level EXCEPT ![p] = @ - 1]
  /\ wlock' = NoProc

\* The finally block of apc_cache_entry: the outermost call gives the lock back.
Leave(p) ==
  /\ level' = [level EXCEPT ![p] = @ - 1]
  /\ wlock' = IF level[p] - 1 > 0 THEN wlock ELSE NoProc

EntryHit(p) ==
  /\ pc[p] = "entry" /\ CanLock(p)
  /\ \E a \in Found(args[p].key, args[p].t):
       /\ heap' = Touched(heap, a, args[p].t, 1)
       /\ Push(p, [kind |-> "hit", addr |-> a, key |-> args[p].key])
  /\ Enter(p)
  /\ Return(p)
  /\ UNCHANGED <<linked, gc, nentries, ncleanups, now, ptr, history>>

EntryHitReturn(p) ==
  /\ InCallback(p, "hit")
  /\ heap' = Decref(heap, Top(p).addr)
  /\ Pop(p)
  /\ Leave(p)
  /\ UNCHANGED <<linked, gc, nentries, ncleanups, now, pc, args, ptr, history>>

EntryMiss(p) ==
  /\ pc[p] = "entry" /\ CanLock(p) /\ Miss(p)
  /\ Push(p, [kind |-> "gen", key |-> args[p].key, ttl |-> args[p].ttl])
  /\ Enter(p)
  /\ Return(p)
  /\ UNCHANGED <<shared, now, ptr, history>>

\* The generator returns: apc_cache_wlocked_store_internal, an exclusive store.
GeneratorReturn(p, v) ==
  /\ InCallback(p, "gen")
  /\ Goto(p, "malloc")
  /\ args' = [args EXCEPT ![p] = [NoArgs EXCEPT !.key = Top(p).key, !.val = v,
                 !.ttl = Top(p).ttl, !.ct = now, !.excl = TRUE, !.then = "exit"]]
  /\ UNCHANGED <<shared, wlock, now, ptr, stack, level, history>>

GeneratorThrow(p) ==
  /\ "throw" \in Failures
  /\ InCallback(p, "gen")
  /\ Goto(p, "exit")
  /\ UNCHANGED <<shared, wlock, now, args, ptr, stack, level, history>>

EntryExit(p) ==
  /\ pc[p] = "exit"
  /\ Pop(p)
  /\ Leave(p)
  /\ Goto(p, "user")
  /\ UNCHANGED <<shared, now, args, ptr, history>>

-----------------------------------------------------------------------------
(* Failures *)

\* User code ends the request: the callbacks on the stack are unwound.
Bailout(p) ==
  /\ FailureOf("bailout")
  /\ pc[p] = "user" /\ stack[p] # <<>>
  /\ Goto(p, "bail")
  /\ UNCHANGED <<shared, wlock, now, args, ptr, stack, level, lost>>

\* The finally block of apc_cache_fetch releases its pin.
UnwindFetch(p) ==
  /\ pc[p] = "bail" /\ stack[p] # <<>> /\ Top(p).kind = "fetch"
  /\ heap' = Decref(heap, Top(p).addr)
  /\ Pop(p)
  /\ UNCHANGED <<linked, gc, nentries, ncleanups, wlock, now, pc, args, ptr, level, history>>

\* That of apc_cache_entry unlocks, and releases no pin.
UnwindEntry(p) ==
  /\ pc[p] = "bail" /\ stack[p] # <<>> /\ Top(p).kind \in {"hit", "gen"}
  /\ Pop(p)
  /\ Leave(p)
  /\ UNCHANGED <<shared, now, pc, args, ptr, history>>

Unwound(p) ==
  /\ pc[p] = "bail" /\ stack[p] = <<>>
  /\ Goto(p, "user")
  /\ UNCHANGED <<shared, wlock, now, args, ptr, stack, level, history>>

\* The process is killed: what it holds in shared memory stays as it is.
Crash(p) ==
  /\ FailureOf("crash")
  /\ pc[p] # "dead"
  /\ Goto(p, "dead")
  /\ lost' = IF pc[p] \in {"insert", "drop"} THEN lost \cup {ptr[p]} ELSE lost
  /\ ptr' = [ptr EXCEPT ![p] = Null]
  /\ stack' = [stack EXCEPT ![p] = <<>>]
  /\ args' = [args EXCEPT ![p] = NoArgs]
  /\ UNCHANGED <<shared, wlock, now, level>>

Tick ==
  /\ now < MaxTime
  /\ now' = now + 1
  /\ UNCHANGED <<shared, wlock, pc, args, ptr, stack, level, history>>

-----------------------------------------------------------------------------
Call(p) ==
  \/ \E k \in Key:
       \/ CallLookup(p, k)
       \/ \E ttl \in Ttls: \/ \E v \in Values: CallStore(p, k, v, ttl)
                           \/ CallUpdate(p, k, ttl)
                           \/ CallEntry(p, k, ttl)
  \/ CallClear(p)

\* Steps that wait for the cache lock.
Locking(p) ==
  \/ ExpungeSkip(p) \/ ExpungeAll(p) \/ ExpungeExpired(p)
  \/ InsertRefused(p) \/ Insert(p)
  \/ FetchHit(p) \/ ExistsHit(p) \/ LookupMiss(p)
  \/ UpdateHit(p) \/ UpdateInsert(p) \/ UpdateMiss(p)
  \/ Delete(p) \/ Clear(p)
  \/ EntryHit(p) \/ EntryMiss(p)

\* Steps that wait for nothing.
Running(p) ==
  \/ Malloc(p) \/ MallocFail(p) \/ ReadCleanups(p)
  \/ ExpungeShort(p) \/ ExpungeAvail(p) \/ ExpungeDefrag(p)
  \/ ExpungeFragmented(p) \/ ExpungeDone(p)
  \/ Release(p) \/ Drop(p) \/ EntryExit(p)
  \/ UnwindFetch(p) \/ UnwindEntry(p) \/ Unwound(p)

\* User code that runs inside a callback returns.
CallbackReturn(p) ==
  \/ FetchReturn(p) \/ EntryHitReturn(p)
  \/ \E v \in Values: GeneratorReturn(p, v)

Fail(p) == PersistBailout(p) \/ GeneratorThrow(p) \/ Bailout(p) \/ Crash(p)

Next ==
  \/ \E p \in Proc: Call(p) \/ Locking(p) \/ Running(p) \/ CallbackReturn(p) \/ Fail(p)
  \/ Tick

Spec == Init /\ [][Next]_vars

ReturnAt(p, d) == Len(stack[p]) = d /\ CallbackReturn(p)

\* A process that is not blocked is scheduled; one that waits for the lock gets it if it
\* is free again and again; user code inside a callback, at any depth, returns in the end.
Fairness ==
  /\ \A p \in Proc: WF_vars(Running(p)) /\ SF_vars(Locking(p))
  /\ \A p \in Proc, d \in 1..MaxDepth: SF_vars(ReturnAt(p, d))

LiveSpec == Spec /\ Fairness
-----------------------------------------------------------------------------
(* Properties *)

\* The processes' own state stays in its range, and so do the links; this much does not
\* depend on what is in the heap.
ControlTypeOK ==
  /\ linked \in SUBSET Addr
  /\ ncleanups \in Nat /\ now \in Nat /\ failures \in Nat
  /\ wlock \in Proc \cup {NoProc}
  /\ pc \in [Proc -> PCs]
  /\ args \in [Proc -> Args]
  /\ ptr \in [Proc -> Addr \cup {Null}]
  /\ stack \in [Proc -> Seq(Frame)]
  /\ level \in [Proc -> Int]

\* Every variable stays in its range; the reference counts and the levels are only known
\* to be integers here.
TypeOK ==
  /\ ControlTypeOK
  /\ heap \in [Addr -> Entry \cup {Free}]
  /\ gc \in SUBSET Addr /\ lost \in SUBSET Addr
  /\ nentries \in Nat

Pinning == {"fetch", "hit"}

\* The references that running code holds to the block a: index 0 is that of a store.
Holders(a) == {h \in Proc \X (0..MaxDepth):
  \/ h[2] = 0 /\ ptr[h[1]] = a
  \/ /\ h[2] \in 1..Len(stack[h[1]])
     /\ stack[h[1]][h[2]].kind \in Pinning
     /\ stack[h[1]][h[2]].addr = a}

\* The blocks that running stores have allocated and no list holds.
Private == {a \in Addr: \E p \in Proc: pc[p] \in {"insert", "drop"} /\ ptr[p] = a}

\* A process that was handed an entry (by a fetch, by a hit of apcu_entry, or by its own
\* allocation) still finds that entry in its block, whatever the others removed,
\* collected, expunged or moved since: header comment of apc_cache_entry_incref.
PinSafe ==
  \A p \in Proc:
    /\ ptr[p] # Null => heap[ptr[p]] # Free /\ heap[ptr[p]].key = args[p].key
    /\ \A i \in 1..Len(stack[p]):
         stack[p][i].kind \in Pinning =>
           LET a == stack[p][i].addr
           IN heap[a] # Free /\ heap[a].key = stack[p][i].key

\* The reference count of an entry is never below the number of its holders: otherwise
\* an entry in use could be freed or moved.
RefCovers == \A a \in Used: heap[a].ref >= Cardinality(Holders(a))

\* A process has a block of its own from the allocation to the end of the store, and the
\* nesting of callbacks stays within its bound.
ControlOK == \A p \in Proc:
  /\ ptr[p] # Null <=> pc[p] \in {"insert", "release", "drop"}
  /\ Len(stack[p]) <= MaxDepth
  /\ pc[p] \in {"fetch", "entry"} => Len(stack[p]) < MaxDepth

Listed == linked \cup gc

\* The lists hold entries, and no entry that a store still has to itself; what running
\* code has pinned is on a list.
ListsOK ==
  /\ Listed \subseteq Used /\ linked \cap gc = {}
  /\ \A p \in Proc:
       /\ pc[p] \in {"insert", "drop"} => ptr[p] \in Used \ Listed
       /\ pc[p] = "release" => ptr[p] \in Listed
       /\ \A i \in 1..Len(stack[p]): stack[p][i].kind \in Pinning => stack[p][i].addr \in Listed
  /\ \A p, q \in Proc: p # q /\ ptr[p] # Null => ptr[p] # ptr[q]

\* What the memory safety of the cache rests on: inductive while Timely holds.
MemoryInv == TypeOK /\ ControlOK /\ ListsOK /\ RefCovers /\ PinSafe

\* Running code gives the reference to a removed entry back within gc_ttl.
Timely == \A a \in gc: Holders(a) # {} => GcTtl = 0 \/ now - heap[a].dtime <= GcTtl

\* As long as it does, no entry is taken away from under it, nor are its blocks, lists and
\* references ever in disorder.
PinSafeWhileTimely == []Timely => []PinSafe
MemoryWhileTimely == []Timely => []MemoryInv

\* While no process dies, the count returns to its original value when the holders are
\* done (header comment of apc_cache_entry_release); a lost block keeps its reference.
RefExact == \A a \in Used \ lost: heap[a].ref = Cardinality(Holders(a))

\* No block leaks and none is on two lists: an allocated block is in a slot, on the gc
\* list, in the hands of exactly one store, or lost with the request that owned it.
Accounted ==
  /\ Used = linked \cup gc \cup Private \cup lost
  /\ linked \cap gc = {}
  /\ (linked \cup gc) \cap (Private \cup lost) = {}
  /\ Private \cap lost = {}
  /\ \A p, q \in Proc: p # q /\ ptr[p] # Null => ptr[p] # ptr[q]

\* Two entries in the slots never have the same key, though inserts race for the lock
\* after each has allocated its own entry.
KeyUnique == \A a, b \in linked: heap[a].key = heap[b].key => a = b

\* nentries, decremented under a guard and reset by a wipe, is the number of entries.
CountExact == nentries = Cardinality(linked)

EntryFrames(p) == {i \in 1..Len(stack[p]): stack[p][i].kind \in {"hit", "gen"}}

\* entry_level is the number of apcu_entry() calls in progress, through recursion,
\* exceptions and bailouts; the write lock is held exactly by a process inside
\* apcu_entry() or in the middle of an expunge.
LockMatchesLevel ==
  \A p \in Proc: pc[p] # "dead" =>
    /\ level[p] = Cardinality(EntryFrames(p))
    /\ wlock = p <=> level[p] > 0 \/ pc[p] \in {"avail", "defrag", "contig"}

\* While a process holds the write lock, in user code of apcu_entry() or in an expunge,
\* only its own steps change the lists and the counters.
WriterExclusive ==
  [][\A p \in Proc:
       wlock = p /\ <<linked, gc, nentries, ncleanups>>' # <<linked, gc, nentries, ncleanups>>
         => pc'[p] # pc[p]]_vars

\* An expunge that waited for the lock while another one completed does nothing (comment
\* in apc_cache_default_expunge).
NoStackedExpunge ==
  [][\A p \in Proc:
       pc[p] = "expunge" /\ pc'[p] \notin {"expunge", "dead"} /\ args[p].missed
         => pc'[p] = "malloc" /\ ~args'[p].nuked]_vars

\* A store whose expunge is over fails for lack of memory only if every block is pinned
\* or lost.  (Of one process, with its nested callbacks: with several, another store
\* may take the memory that the expunge freed.)
FailsOnlyWhenPinned ==
  [][\A p \in Proc:
       pc[p] = "malloc" /\ pc'[p] \notin {"malloc", "insert", "nomem", "dead"}
         => \A a \in Addr: heap[a] # Free /\ heap[a].ref > 0]_vars

\* Every operation comes to an end: nobody waits forever for the lock, and the retries
\* of apc_sma_malloc after a skipped expunge, and of an update after its insertion, end.
OperationsEnd == \A p \in Proc: pc[p] # "user" ~> pc[p] = "user"

\* The write lock is given back, also by nested calls of apcu_entry().
LockReturned == wlock # NoProc ~> wlock = NoProc

=============================================================================

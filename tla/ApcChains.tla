----------------------------- MODULE ApcChains -----------------------------
(***************************************************************************)
(* The pointers of the user cache: doubly linked chains of entries, one    *)
(* for every hash slot and one for the removed entries that are still in   *)
(* use, changed one pointer operation at a time by stores, deletes, wipes  *)
(* and the defragmentation of apc_cache.c.  ApcCache has sets where this   *)
(* module has chains.                                                      *)
(*                                                                         *)
(* A chain starts at a head, a word of the cache header, and runs through  *)
(* the `next' fields.  `prev' of an entry is the cell that points to it: a *)
(* head, or another entry, whose first field is `next'.                    *)
(*                                                                         *)
(* The settings are the defaults: apc.ttl and apc.gc_ttl are 0, no slam    *)
(* defense; what happens when memory runs out is in ApcCache.              *)
(***************************************************************************)
EXTENDS Integers, Sequences, FiniteSets, Functions

CONSTANTS
  Writer,    \* the processes that change the cache
  Reader,    \* those that read entries; each holds an entry at most once
  Nobody,    \* the holder of a free lock
  Key,       \* user keys
  NSlots,    \* the number of hash slots
  SlotOf,    \* the hash slot of a key
  SizeOf,    \* the bytes an entry of a key takes
  Addr,      \* the blocks of the segment, one entry each
  Null,      \* the null pointer
  Free,      \* a block that holds no entry
  TtlOf,     \* the TTL user code passes with a key (0: none)
  Never,     \* the expiry of an entry without a TTL
  Calls,     \* the workload: the operations each process calls, with their keys
  Step,      \* the clock advances by so much
  MaxTime,   \* bound: the clock stops here
  MaxHeld    \* bound: so many entries are read by others at a time

ASSUME SlotAssumption == NSlots \in Nat \ {0} /\ SlotOf \in [Key -> 0..(NSlots - 1)]
ASSUME SizeAssumption == SizeOf \in [Key -> Nat \ {0}]
ASSUME ProcessAssumption ==
  IsFiniteSet(Writer) /\ Nobody \notin Writer /\ IsFiniteSet(Reader)
ASSUME KeyAssumption == Key # {}
ASSUME TtlAssumption == TtlOf \in [Key -> Nat] /\ Never \notin Nat
ASSUME TimeAssumption == Step \in Nat \ {0} /\ MaxTime \in Nat /\ MaxHeld \in Nat
ASSUME CallsAssumption ==
  Calls \in [Writer -> SUBSET ({"store", "add", "delete", "clear"} \X Key)]

\* cache->slots[0..nslots-1] and header->gc.
HeadCell == 0..NSlots
Gc == NSlots
Cell == HeadCell \cup Addr
Pointer == Addr \cup {Null}
ASSUME AddrAssumption == Null \notin Cell /\ HeadCell \cap Addr = {}

\* The value and the statistics of an entry are left out.
\* `exp' is ctime + ttl, the last second of the entry's life, if it has a TTL.
Entry == [key: Key, exp: Nat \cup {Never}, ref: Int]
ASSUME FreeAssumption == Free \notin Entry

VARIABLES
  next,      \* the heads and the next fields
  prev,      \* the prev fields
  ent,       \* the rest of each block
  lock,      \* who holds the cache lock for writing
  wr,        \* the running operation of each process
  held,      \* the entries that each reader has pinned
  memSize,   \* header->mem_size
  now,       \* the clock
  linked,    \* history: the entries of the slots
  removed    \* history: the removed entries still in use

pointers == <<next, prev>>
chains == <<pointers, ent, memSize, linked, removed>>
chainVars == <<chains, lock, wr, held, now>>

Steps == {"idle", "wait", "gc", "insert", "link", "release", "drop", "delete", "wipe"}
OpRecord == [op: {"none", "store", "add", "delete", "clear"}, step: Steps, key: Key,
             t: Nat, new: Pointer, cur: Cell]

\* The key of an operation that has none.
AnyKey == CHOOSE k \in Key: TRUE

NoOp == [op |-> "none", step |-> "idle", key |-> AnyKey, t |-> 0, new |-> Null, cur |-> Gc]

Listed == linked \cup removed

\* The chain an entry of key k belongs to.
SlotHead(k) == SlotOf[k]
\* The head of the chain that cell c is on.
Home(c) == IF c \in HeadCell THEN c ELSE IF c \in removed THEN Gc ELSE SlotHead(ent[c].key)

Expiry(t, ttl) == IF ttl = 0 THEN Never ELSE t + ttl
HardExpired(e, t) == e.exp # Never /\ e.exp < t

-----------------------------------------------------------------------------
(* The three pointer operations *)

\* Faulty variant: the successor does not learn of its new predecessor.
LinkPrevOneWay(p, n, c, e) == [p EXCEPT ![e] = c]

\* apc_cache_wlocked_link_entry puts e behind c.
LinkNext(n, c, e) == [n EXCEPT ![c] = e, ![e] = n[c]]
LinkPrev(p, n, c, e) ==
  [a \in Addr |-> IF a = e THEN c ELSE IF a = n[c] THEN e ELSE p[a]]

\* apc_cache_wlocked_unlink_entry takes e out of its chain.  Nobody reads the pointers
\* of an entry outside of every chain; they are Null here, as a store sets them.
UnlinkNext(n, p, e) == [n EXCEPT ![p[e]] = n[e], ![e] = Null]
UnlinkPrev(p, n, e) ==
  [a \in Addr |-> IF a = e THEN Null ELSE IF a = n[e] THEN p[e] ELSE p[a]]

\* apc_cache_wlocked_move_entry redirects the pointers at `old' to its copy at `new'.
MoveNext(n, p, old, new) ==
  [n EXCEPT ![p[old]] = new, ![new] = n[old], ![old] = Null]
MovePrev(p, n, old, new) ==
  [a \in Addr |-> IF a = new THEN p[old] ELSE IF a = old THEN Null
                  ELSE IF a = n[old] THEN new ELSE p[a]]

-----------------------------------------------------------------------------
(* Removal and insertion, under the write lock *)

Link(c, e) ==
  /\ next' = LinkNext(next, c, e)
  /\ prev' = LinkPrev(prev, next, c, e)

Unlink(e) ==
  /\ next' = UnlinkNext(next, prev, e)
  /\ prev' = UnlinkPrev(prev, next, e)

\* free_entry: the block is the allocator's again.
FreeEntry(a) == ent' = [ent EXCEPT ![a] = Free]

\* apc_cache_wlocked_remove_entry moves an entry in use to the gc list.
RemoveUnused(e) ==
  /\ ent[e].ref <= 0
  /\ Unlink(e)
  /\ FreeEntry(e)
  /\ UNCHANGED removed
\* Faulty variant: a removed entry in use keeps its place and joins the gc list.
RemoveUsedLinked(e) ==
  /\ ent[e].ref > 0
  /\ Link(Gc, e)
  /\ removed' = removed \cup {e}
  /\ UNCHANGED ent
RemoveUsed(e) ==
  /\ ent[e].ref > 0
  /\ LET n == UnlinkNext(next, prev, e)
         p == UnlinkPrev(prev, next, e)
     IN /\ next' = LinkNext(n, Gc, e)
        /\ prev' = LinkPrev(p, n, Gc, e)
  /\ removed' = removed \cup {e}
  /\ UNCHANGED ent
\* Faulty variant: the size is taken off twice.
LessMemoryTwice(e) == memSize - 2 * SizeOf[ent[e].key]
LessMemory(e) == IF memSize # 0 THEN memSize - SizeOf[ent[e].key] ELSE 0
RemoveEntry(e) ==
  /\ RemoveUnused(e) \/ RemoveUsed(e)
  /\ memSize' = LessMemory(e)
  /\ linked' = linked \ {e}

SetStep(p, step) == wr' = [wr EXCEPT ![p].step = step]
SetCur(p, c) == wr' = [wr EXCEPT ![p].cur = c]
Finish(p) == wr' = [wr EXCEPT ![p] = NoOp]
Unlock == lock' = Nobody

-----------------------------------------------------------------------------
(* The operations *)

Idle(p) == wr[p].step = "idle"

\* apc_cache_store up to the lock: the entry is allocated with a reference, outside
\* of every chain, and takes its creation time from a clock read before.
BeginStore(p) ==
  /\ Idle(p)
  /\ \E op \in {"store", "add"}, k \in Key, a \in Addr:
       /\ <<op, k>> \in Calls[p]
       /\ ent[a] = Free
       /\ ent' = [ent EXCEPT ![a] = [key |-> k, exp |-> Expiry(now, TtlOf[k]), ref |-> 1]]
       /\ wr' = [wr EXCEPT ![p] = [op |-> op, step |-> "wait", key |-> k, t |-> now,
                                   new |-> a, cur |-> Gc]]
  /\ UNCHANGED <<pointers, memSize, linked, removed, lock, held, now>>

LockStore(p) ==
  /\ wr[p].step = "wait"
  /\ lock = Nobody
  /\ lock' = p
  /\ SetStep(p, "gc")
  /\ UNCHANGED <<chains, held, now>>

\* apc_cache_delete and apc_cache_clear do nothing of note before they have the lock.
LockDelete(p, k) ==
  /\ lock = Nobody
  /\ lock' = p
  /\ wr' = [wr EXCEPT ![p] = [NoOp EXCEPT !.op = "delete", !.step = "delete", !.key = k,
                                         !.cur = SlotHead(k)]]
  /\ UNCHANGED <<chains, held, now>>
BeginDelete(p) ==
  /\ Idle(p)
  /\ \E k \in Key: <<"delete", k>> \in Calls[p] /\ LockDelete(p, k)

BeginClear(p) ==
  /\ Idle(p)
  /\ \E k \in Key: <<"clear", k>> \in Calls[p]
  /\ lock = Nobody
  /\ lock' = p
  /\ wr' = [wr EXCEPT ![p] = [NoOp EXCEPT !.op = "clear", !.step = "wipe", !.cur = 0]]
  /\ UNCHANGED <<chains, held, now>>

\* apc_cache_wlocked_gc, an entry at a time.
GcKeep(p) ==
  LET e == next[wr[p].cur]
  IN /\ wr[p].step = "gc"
     /\ e # Null
     /\ ent[e].ref > 0
     /\ SetCur(p, e)
     /\ UNCHANGED <<chains, lock, held, now>>
GcFree(p) ==
  LET e == next[wr[p].cur]
  IN /\ wr[p].step = "gc"
     /\ e # Null
     /\ ent[e].ref <= 0
     /\ Unlink(e)
     /\ FreeEntry(e)
     /\ removed' = removed \ {e}
     /\ UNCHANGED <<memSize, linked, lock, wr, held, now>>
GcEnd(p) ==
  /\ wr[p].step = "gc"
  /\ next[wr[p].cur] = Null
  /\ IF wr[p].op = "clear"
     THEN Unlock /\ Finish(p)
     ELSE /\ wr' = [wr EXCEPT ![p].step = "insert", ![p].cur = SlotHead(wr[p].key)]
          /\ UNCHANGED lock
  /\ UNCHANGED <<chains, held, now>>

\* The walk of apc_cache_wlocked_insert along the slot of the key.  An exclusive
\* insert gives way to an entry of the key that is not out of date.
InsertRefuse(p) ==
  LET e == next[wr[p].cur]
  IN /\ wr[p].step = "insert"
     /\ e # Null
     /\ ent[e].key = wr[p].key
     /\ wr[p].op = "add"
     /\ ~HardExpired(ent[e], wr[p].t)
     /\ wr' = [wr EXCEPT ![p] = [NoOp EXCEPT !.step = "drop", !.new = wr[p].new]]
     /\ Unlock
     /\ UNCHANGED <<chains, held, now>>
InsertReplace(p) ==
  LET e == next[wr[p].cur]
  IN /\ wr[p].step = "insert"
     /\ e # Null
     /\ ent[e].key = wr[p].key
     /\ wr[p].op = "add" => HardExpired(ent[e], wr[p].t)
     /\ RemoveEntry(e)
     /\ SetStep(p, "link")
     /\ UNCHANGED <<lock, held, now>>
InsertExpire(p) ==
  LET e == next[wr[p].cur]
  IN /\ wr[p].step = "insert"
     /\ e # Null
     /\ ent[e].key # wr[p].key
     /\ HardExpired(ent[e], wr[p].t)
     /\ RemoveEntry(e)
     /\ UNCHANGED <<lock, wr, held, now>>
InsertSkip(p) ==
  LET e == next[wr[p].cur]
  IN /\ wr[p].step = "insert"
     /\ e # Null
     /\ ent[e].key # wr[p].key
     /\ ~HardExpired(ent[e], wr[p].t)
     /\ SetCur(p, e)
     /\ UNCHANGED <<chains, lock, held, now>>
InsertEnd(p) ==
  /\ wr[p].step = "insert"
  /\ next[wr[p].cur] = Null
  /\ SetStep(p, "link")
  /\ UNCHANGED <<chains, lock, held, now>>

\* The new entry goes where the walk has stopped.
InsertLink(p) ==
  LET e == wr[p].new
  IN /\ wr[p].step = "link"
     /\ Link(wr[p].cur, e)
     /\ memSize' = memSize + SizeOf[wr[p].key]
     /\ linked' = linked \cup {e}
     /\ wr' = [wr EXCEPT ![p] = [NoOp EXCEPT !.step = "release", !.new = e]]
     /\ Unlock
     /\ UNCHANGED <<ent, removed, held, now>>

\* apc_cache_store after the unlock.
ReleaseNew(p) ==
  /\ wr[p].step = "release"
  /\ ent' = [ent EXCEPT ![wr[p].new].ref = @ - 1]
  /\ Finish(p)
  /\ UNCHANGED <<pointers, memSize, linked, removed, lock, held, now>>
DropNew(p) ==
  /\ wr[p].step = "drop"
  /\ FreeEntry(wr[p].new)
  /\ Finish(p)
  /\ UNCHANGED <<pointers, memSize, linked, removed, lock, held, now>>

\* apc_cache_delete.
DeleteFound(p) ==
  LET e == next[wr[p].cur]
  IN /\ wr[p].step = "delete"
     /\ e # Null
     /\ ent[e].key = wr[p].key
     /\ RemoveEntry(e)
     /\ Finish(p)
     /\ Unlock
     /\ UNCHANGED <<held, now>>
DeleteSkip(p) ==
  LET e == next[wr[p].cur]
  IN /\ wr[p].step = "delete"
     /\ e # Null
     /\ ent[e].key # wr[p].key
     /\ SetCur(p, e)
     /\ UNCHANGED <<chains, lock, held, now>>
DeleteMissing(p) ==
  /\ wr[p].step = "delete"
  /\ next[wr[p].cur] = Null
  /\ Finish(p)
  /\ Unlock
  /\ UNCHANGED <<chains, held, now>>

\* apc_cache_clear: apc_cache_wlocked_real_expunge empties the slots in turn, then
\* the collector runs.
WipeEntry(p) ==
  /\ wr[p].step = "wipe"
  /\ next[wr[p].cur] # Null
  /\ RemoveEntry(next[wr[p].cur])
  /\ UNCHANGED <<lock, wr, held, now>>
WipeSlotEnd(p) ==
  /\ wr[p].step = "wipe"
  /\ next[wr[p].cur] = Null
  /\ wr' = [wr EXCEPT ![p].cur = @ + 1,
                      ![p].step = IF wr[p].cur + 1 < NSlots THEN "wipe" ELSE "gc"]
  /\ UNCHANGED <<chains, lock, held, now>>

-----------------------------------------------------------------------------
(* What else moves *)

\* apc_cache_default_expunge defragments under the lock: an allocated block that
\* nobody refers to moves to a free place.
\* Faulty variant: entries move whoever reads them.
MovableAlways(e) == TRUE
Movable(e) == e.ref <= 0
Defragment ==
  /\ lock = Nobody
  /\ \E old, new \in Addr:
       /\ ent[old] # Free /\ Movable(ent[old]) /\ ent[new] = Free
       /\ next' = MoveNext(next, prev, old, new)
       /\ prev' = MovePrev(prev, next, old, new)
       /\ ent' = [ent EXCEPT ![new] = ent[old], ![old] = Free]
       /\ linked' = IF old \in linked THEN (linked \ {old}) \cup {new} ELSE linked
       /\ removed' = IF old \in removed THEN (removed \ {old}) \cup {new} ELSE removed
  /\ UNCHANGED <<memSize, lock, wr, held, now>>

\* A reader that has found the entries S on the chains pins them before it gives the
\* read lock back, and reads them without.
Pin(r, S) ==
  /\ lock = Nobody
  /\ S \subseteq Listed \ held[r]
  /\ ent' = [a \in Addr |-> IF a \in S THEN [ent[a] EXCEPT !.ref = @ + 1] ELSE ent[a]]
  /\ held' = [held EXCEPT ![r] = @ \cup S]
  /\ UNCHANGED <<pointers, memSize, linked, removed, lock, wr, now>>
\* apc_cache_entry_release takes no lock.
Release(r, S) ==
  /\ S \subseteq held[r]
  /\ ent' = [a \in Addr |-> IF a \in S THEN [ent[a] EXCEPT !.ref = @ - 1] ELSE ent[a]]
  /\ held' = [held EXCEPT ![r] = @ \ S]
  /\ UNCHANGED <<pointers, memSize, linked, removed, lock, wr, now>>

\* apcu_fetch: one entry that is not out of date.
FetchPin(r) ==
  /\ Cardinality(held[r]) < MaxHeld
  /\ \E a \in linked \ held[r]: ~HardExpired(ent[a], now) /\ Pin(r, {a})
FetchRelease(r) == \E a \in held[r]: Release(r, {a})

Tick ==
  /\ now + Step <= MaxTime
  /\ now' = now + Step
  /\ UNCHANGED <<chains, lock, wr, held>>

-----------------------------------------------------------------------------
ChainsInit ==
  /\ next = [c \in Cell |-> Null]
  /\ prev = [a \in Addr |-> Null]
  /\ ent = [a \in Addr |-> Free]
  /\ lock = Nobody
  /\ wr = [p \in Writer |-> NoOp]
  /\ held = [r \in Reader |-> {}]
  /\ memSize = 0
  /\ now = 0
  /\ linked = {}
  /\ removed = {}

\* A process calls the cache.
Begin(p) == BeginStore(p) \/ BeginDelete(p) \/ BeginClear(p)

\* A call goes on.
Continue(p) ==
  \/ LockStore(p)
  \/ GcKeep(p) \/ GcFree(p) \/ GcEnd(p)
  \/ InsertRefuse(p) \/ InsertReplace(p) \/ InsertExpire(p) \/ InsertSkip(p)
  \/ InsertEnd(p) \/ InsertLink(p) \/ ReleaseNew(p) \/ DropNew(p)
  \/ DeleteFound(p) \/ DeleteSkip(p) \/ DeleteMissing(p)
  \/ WipeEntry(p) \/ WipeSlotEnd(p)

\* The chains under any workload and any readers, however their steps interleave.
ChainsNext ==
  \/ \E p \in Writer: Begin(p) \/ Continue(p)
  \/ \E r \in Reader: \E S \in SUBSET Addr: Pin(r, S) \/ Release(r, S)
  \/ Defragment
  \/ Tick

ChainsSpec == ChainsInit /\ [][ChainsNext]_chainVars

-----------------------------------------------------------------------------
(* Properties *)

\* The cells behind c.
Chain(c) ==
  LET from[d \in Cell] ==
        IF next[d] = Null THEN << >> ELSE <<next[d]>> \o from[next[d]]
  IN from[c]

\* Every pointer of a chain is answered: what a head or an entry points to points back
\* to it, and is on the same chain.  All the deletions, moves and insertions in the
\* middle of a chain rely on it (apc_cache.c:182, :191, :173).
WellLinked ==
  /\ \A c \in HeadCell \cup Listed:
       \/ next[c] = Null
       \/ /\ next[c] \in Listed
          /\ prev[next[c]] = c
          /\ Home(next[c]) = Home(c)
  /\ \A a \in Listed:
       /\ ent[a] # Free
       /\ prev[a] \in HeadCell \cup Listed
       /\ next[prev[a]] = a

\* The references of block a: the store that allocated it, and its readers.
Holders(a) ==
  Cardinality({p \in Writer: wr[p].new = a}) + Cardinality({r \in Reader: a \in held[r]})

\* Between the lock and the release, whatever is stored, deleted, wiped, collected or
\* moved meanwhile, a pinned entry stays on a chain, and the count of every entry is
\* the number of those who hold it: no reference leaks, none is given back
\* twice (apc_cache.c:212, :239, :163).
PinsExact ==
  /\ \A r \in Reader: held[r] \subseteq Listed
  /\ \A a \in Addr: ent[a] # Free => ent[a].ref = Holders(a)

\* The bytes that the entries at D take.
Bytes(D) == SumFunctionOnSet([a \in D |-> SizeOf[ent[a].key]], D)

\* The slots hold exactly the entries the cache holds, each once and in the slot of its
\* key, no key twice; the gc list exactly the removed ones in use; every other
\* block is free or a running store's; and header->mem_size is the sum of the
\* sizes of the entries in the slots, whatever was replaced, wiped or moved.
ChainsExact ==
  /\ \A c \in HeadCell:
       LET chain == Chain(c)
           members == {chain[i]: i \in DOMAIN chain}
       IN /\ Cardinality(members) = Len(chain)
          /\ members = IF c = Gc THEN removed
                       ELSE {a \in linked: SlotHead(ent[a].key) = c}
  /\ linked \cap removed = {}
  /\ \A a, b \in linked: ent[a].key = ent[b].key => a = b
  /\ \A a \in Addr \ Listed:
       ent[a] = Free \/ \E p \in Writer: wr[p].new = a
  /\ memSize = Bytes(linked)

ChainsTypeOK ==
  /\ next \in [Cell -> Pointer]
  /\ prev \in [Addr -> Cell \cup {Null}]
  /\ ent \in [Addr -> Entry \cup {Free}]
  /\ lock \in Writer \cup {Nobody}
  /\ wr \in [Writer -> OpRecord]
  /\ held \in [Reader -> SUBSET Addr]
  /\ memSize \in Nat
  /\ now \in Nat
  /\ linked \in SUBSET Addr /\ removed \in SUBSET Addr
============================================================================

---------------------------- MODULE ApcIterator ----------------------------
(***************************************************************************)
(* APCUIterator (apc_iterator.c) over the chains of ApcChains: the process *)
(* Self reads entries in chunks under the read lock, builds the items it   *)
(* shows with the lock released, pinning their entries meanwhile, and lets *)
(* user code run in between; apcu_delete() takes an iterator, too.  All    *)
(* the while the other processes, and the user code of Self, change the    *)
(* cache.                                                                  *)
(*                                                                         *)
(* User code follows the protocol of foreach: next() only on an item.  It  *)
(* may call the cache, but not the same iterator again, from the methods   *)
(* that unserialization calls.  Sections under the lock are not            *)
(* interrupted here: those that read are one action, those that write run  *)
(* alone (ChainsNext of ApcChains interleaves their steps with all else).  *)
(***************************************************************************)
EXTENDS ApcChains, SequencesExt

CONSTANTS
  Self,       \* the process of the iterator
  ChunkSize,  \* the chunk size
  Loops,      \* the iterators user code makes: a list, and the keys it searches for
  MaxItems    \* bound: a longer list of deleted items is not rewound

ASSUME SelfAssumption == Self \in Writer \cap Reader
ASSUME ChunkAssumption == ChunkSize \in Nat \ {0}
ASSUME SearchAssumption ==
  Loops \subseteq {"active", "deleted"} \X SUBSET Key /\ MaxItems \in Nat

VARIABLES
  it,    \* the iterator
  pass   \* history: what the loop over it has shown

vars == <<chainVars, it, pass>>

\* pc: "lock" waits for the read lock, "build" makes items, "delete" is apcu_delete();
\* `then' is the caller of the fetch.  slot is slot_idx, sidx is stack_idx, built is the
\* counter of the loop that makes items; the key of an entry is kept next to its
\* address as a history.
NoIterator == [pc |-> "none", then |-> "user", list |-> "active", search |-> {},
               slot |-> 0, sidx |-> 0, t |-> 0, built |-> 0,
               entries |-> << >>, stack |-> << >>]

\* A loop over the active list.  steady: the matching keys that the cache has held
\* without a break; shown: those visited, `twice' if one of them again.  A loop over the
\* removed entries.  `still': their list has not changed; seen: those fetched.
\* Both.  `over': the last fetch found nothing.
Pass == [kind: {"none", "visit", "delete"}, over: BOOLEAN,
         steady: SUBSET Key, shown: SUBSET Key, twice: BOOLEAN,
         still: BOOLEAN, seen: SUBSET Addr]

LiveKeys == {ent[a].key: a \in {b \in linked: ~HardExpired(ent[b], now)}}

NoPass == [kind |-> "none", over |-> FALSE, steady |-> {}, shown |-> {}, twice |-> FALSE,
           still |-> FALSE, seen |-> {}]
NewPass(list, search) ==
  [NoPass EXCEPT !.kind = "visit", !.still = list = "deleted",
                 !.steady = IF list = "active" THEN LiveKeys \cap search ELSE {}]

-----------------------------------------------------------------------------
(* What a fetch finds *)

\* apc_iterator_search_match.
SearchMatch(a) == ent[a].key \in it.search
\* apc_iterator_check_expiry.
CheckExpiry(a, t) == ~HardExpired(ent[a], t)

\* The entries of the sequence s that are in S, in their order.
Among(s, S) ==
  LET among[i \in 0..Len(s)] ==
        IF i = 0 THEN << >>
        ELSE IF s[i] \in S THEN Append(among[i - 1], s[i]) ELSE among[i - 1]
  IN among[Len(s)]

\* The matching entries of slot s at time t, and of the slots from it.slot to s - 1.
InSlot(s, t) ==
  LET chain == Chain(s)
  IN Among(chain, {a \in ToSet(chain): CheckExpiry(a, t) /\ SearchMatch(a)})
UpTo(s, t) == FlattenSeq([i \in 1..(s - it.slot) |-> InSlot(it.slot + i - 1, t)])

\* The matching entries of a part of the gc list.
Matching(s) == Among(s, {a \in ToSet(s): SearchMatch(a)})

FirstOf(s, n) == SubSeq(s, 1, IF Len(s) < n THEN Len(s) ELSE n)

\* Faulty variant: the scan stops when the chunk is full, in the middle of a slot.
ActiveChunkCut(t) ==
  LET slots == {s \in it.slot..NSlots: s = NSlots \/ Len(UpTo(s, t)) > ChunkSize}
      end == CHOOSE s \in slots: \A r \in slots: s <= r
  IN [slot |-> end, entries |-> FirstOf(UpTo(end, t), ChunkSize)]

\* apc_iterator_fetch_active reads whole slots until it has more than a chunk.
ActiveChunk(t) ==
  LET slots == {s \in it.slot..NSlots: s = NSlots \/ Len(UpTo(s, t)) > ChunkSize}
      end == CHOOSE s \in slots: \A r \in slots: s <= r
  IN [slot |-> end, entries |-> UpTo(end, t)]

\* Faulty variant: it skips a chunk too many.
DeletedChunkFar ==
  LET rest == SubSeq(Chain(Gc), it.slot + ChunkSize + 2, Len(Chain(Gc)))
      found == FirstOf(Matching(rest), ChunkSize)
  IN [slot |-> it.slot + Len(found), entries |-> found]

\* apc_iterator_fetch_deleted skips one entry more than it has fetched.
DeletedChunk ==
  LET rest == SubSeq(Chain(Gc), it.slot + 2, Len(Chain(Gc)))
      found == FirstOf(Matching(rest), ChunkSize)
  IN [slot |-> it.slot + Len(found), entries |-> found]

Chunk == IF it.list = "active" THEN ActiveChunk(it.t) ELSE DeletedChunk

-----------------------------------------------------------------------------
(* A fetch *)

\* User code of Self is not in the middle of a call of the cache.
SelfIdle == Idle(Self)
Running(pc) == it.pc = pc /\ SelfIdle /\ lock = Nobody

\* The caller's `then' is where the fetch returns to.  The active list forgets
\* the items of the last chunk and reads the clock before it locks.
Fetch(iterator, then) ==
  it' = IF iterator.list = "active"
        THEN [iterator EXCEPT !.pc = "lock", !.then = then, !.stack = << >>, !.t = now]
        ELSE [iterator EXCEPT !.pc = "lock", !.then = then]

\* Under the read lock: the entries of the chunk are pinned.
FetchChunk ==
  /\ Running("lock")
  /\ LET found == Chunk.entries
     IN /\ Pin(Self, ToSet(found))
        /\ it' = [it EXCEPT !.pc = "build", !.slot = Chunk.slot, !.sidx = 0, !.built = 0, !.t = 0,
                            !.entries = [i \in DOMAIN found |->
                                          [addr |-> found[i], key |-> ent[found[i]].key]]]
        /\ pass' = IF pass.still THEN [pass EXCEPT !.seen = @ \cup ToSet(found)] ELSE pass

\* The item of the next entry: its key and, with user code running, its value.
BuildItem ==
  /\ Running("build")
  /\ it.built + 1 \in DOMAIN it.entries
  /\ it' = [it EXCEPT !.built = @ + 1,
                      !.stack = Append(@, ent[it.entries[it.built + 1].addr].key)]
  /\ UNCHANGED <<chainVars, pass>>

\* All items are built: the references are given back, and the caller goes on.
\* apcu_delete ends when nothing was found.
Return ==
  /\ Running("build")
  /\ it.built = Len(it.entries)
  /\ Release(Self, held[Self])
  /\ it' = [it EXCEPT !.pc = IF it.built = 0 THEN "user" ELSE it.then,
                      !.then = "user", !.built = 0, !.entries = << >>]
  /\ pass' = [pass EXCEPT !.over = it.built = 0]

\* Faulty variant: the references are given back only if all goes well.
BailoutKeepsAll == UNCHANGED chainVars
\* A fatal error in user code: the finally block gives the references back.
BailoutReleases == Release(Self, held[Self])
BuildBailout ==
  /\ Running("build")
  /\ it.built < Len(it.entries)
  /\ BailoutReleases
  /\ it' = NoIterator
  /\ pass' = NoPass

-----------------------------------------------------------------------------
(* The methods *)

Construct ==
  /\ Running("none")
  /\ \E l \in Loops:
       it' = [NoIterator EXCEPT !.pc = "user", !.list = l[1], !.search = l[2]]
  /\ pass' = NewPass(it'.list, it'.search)
  /\ UNCHANGED chainVars

Rewind ==
  /\ Running("user")
  /\ it.list = "deleted" => Len(it.stack) <= MaxItems
  /\ Fetch([it EXCEPT !.slot = 0, !.sidx = 0], "user")
  /\ pass' = NewPass(it.list, it.search)
  /\ UNCHANGED chainVars

\* valid(), current() and key() fetch when all items have been visited, and
\* otherwise change nothing.
Valid ==
  /\ Running("user")
  /\ Len(it.stack) = it.sidx
  /\ Fetch(it, "user")
  /\ UNCHANGED <<chainVars, pass>>

\* Key k is shown, or deleted.
Show(k) ==
  IF it.list = "active"
  THEN [pass EXCEPT !.shown = @ \cup {k}, !.twice = @ \/ k \in pass.shown]
  ELSE pass

NextItem ==
  /\ Running("user")
  /\ it.sidx < Len(it.stack)
  /\ it' = [it EXCEPT !.sidx = @ + 1]
  /\ pass' = Show(it.stack[it.sidx + 1])
  /\ UNCHANGED chainVars

\* apcu_delete with an iterator starts with a fetch.
Delete ==
  /\ Running("user")
  /\ Fetch(it, "delete")
  /\ pass' = [NewPass(it.list, it.search) EXCEPT
                !.kind = "delete", !.still = pass.still, !.seen = pass.seen,
                !.steady = {k \in @: SlotOf[k] >= it.slot}]
  /\ UNCHANGED chainVars
DeleteItem ==
  /\ Running("delete")
  /\ it.sidx < Len(it.stack)
  /\ LET k == it.stack[it.sidx + 1]
     IN LockDelete(Self, k) /\ pass' = Show(k)
  /\ it' = [it EXCEPT !.sidx = @ + 1]
DeleteFetch ==
  /\ Running("delete")
  /\ it.sidx = Len(it.stack)
  /\ Fetch(it, "delete")
  /\ UNCHANGED <<chainVars, pass>>

\* apc_iterator_free.
FreeIterator ==
  /\ Running("user")
  /\ it' = NoIterator
  /\ pass' = NoPass
  /\ UNCHANGED chainVars

IteratorStep ==
  \/ Construct \/ Rewind \/ Valid \/ NextItem \/ FreeIterator
  \/ FetchChunk \/ BuildItem \/ Return \/ BuildBailout
  \/ Delete \/ DeleteItem \/ DeleteFetch

-----------------------------------------------------------------------------
(* The others *)

\* What a step of the cache does to the histories of the loop: a key is steady as long
\* as it is live whenever the lock is free.
Observe ==
  pass' = [pass EXCEPT !.steady = IF lock' = Nobody THEN @ \cap LiveKeys' ELSE @,
                       !.still = @ /\ removed' = removed,
                       !.seen = IF removed' = removed THEN @ ELSE {}]

\* User code of Self runs in the loop and while items are built.
MayCall(p) == p = Self => it.pc \in {"none", "user", "build"}

CacheStep ==
  /\ \/ lock = Nobody /\ \E p \in Writer: MayCall(p) /\ Begin(p)
     \/ \E p \in Writer: (lock \in {p, Nobody}) /\ Continue(p)
     \/ lock = Nobody /\ (Defragment \/ Tick)
     \/ lock = Nobody /\ \E r \in Reader \ {Self}: FetchPin(r) \/ FetchRelease(r)
  /\ Observe
  /\ UNCHANGED it

Init ==
  /\ ChainsInit
  /\ it = NoIterator
  /\ pass = NoPass

Next == CacheStep \/ IteratorStep

Spec == Init /\ [][Next]_vars

-----------------------------------------------------------------------------
(* Properties *)

TypeOK ==
  /\ ChainsTypeOK
  /\ it.pc \in {"none", "user", "lock", "build", "delete"}
  /\ it.then \in {"user", "delete"}
  /\ it.list \in {"active", "deleted"} /\ it.search \subseteq Key
  /\ it.slot \in Nat /\ it.sidx \in Nat /\ it.built \in Nat
  /\ it.pc \in {"user", "delete"} => it.sidx <= Len(it.stack)
  /\ it.t \in Nat
  /\ ToSet(it.entries) \subseteq [addr: Addr, key: Key] /\ ToSet(it.stack) \subseteq Key
  /\ pass \in Pass

\* The entries whose items are being built are those the iterator has pinned, and each
\* is the one it was, whatever user code and others do (apc_iterator.c:238, :247);
\* however a fetch ends, no pin is left (:250).
ItemsPinned ==
  /\ held[Self] = {it.entries[i].addr: i \in DOMAIN it.entries}
  /\ \A i \in DOMAIN it.entries:
       LET e == it.entries[i] IN ent[e.addr] # Free /\ ent[e.addr].key = e.key

\* A loop over the active list that has come to its end has visited every matching key
\* that the cache held all the time, although entries come and go and move
\* between the chunks (apc_iterator.c:226-240), and at no time has it visited a key
\* twice, not even one replaced on the way.  When apcu_delete returns, each of
\* those keys has been gone for a moment.
PassComplete ==
  it.list = "active" =>
    /\ ~pass.twice
    /\ pass.over => pass.steady \cap it.search \subseteq
                      IF pass.kind = "delete" THEN {} ELSE pass.shown

\* A loop over the removed entries, while their list does not change, fetches every
\* matching one except the newest, which it never shows (apc_iterator.c:273): chunk by
\* chunk, although slot_idx counts the matching entries and is used for all.
DeletedTail ==
  it.list = "deleted" /\ pass.over /\ pass.still =>
    pass.seen = {a \in removed \ {next[Gc]}: SearchMatch(a)}

============================================================================

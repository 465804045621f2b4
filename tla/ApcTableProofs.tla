--------------------------- MODULE ApcTableProofs ---------------------------
(***************************************************************************)
(* ApcCache implements the table of KVCache: each operation takes effect   *)
(* at once and at most once, as long as no process is killed and running   *)
(* code gives back within gc_ttl what it holds of removed entries.         *)
(***************************************************************************)
EXTENDS ApcCacheProofs, ApcCacheKV

-----------------------------------------------------------------------------
(* The table and its entries *)

\* What the table shows of an entry.
View(e) == [val |-> e.val, ttl |-> e.ttl, ctime |-> e.ctime, atime |-> e.atime]

\* The table T shows the entries of h in the slots l, and nothing else.
Shows(T, h, l) ==
  \A k \in Key: /\ \A a \in l: h[a].key = k => T[k] = View(h[a])
                /\ (\A a \in l: h[a].key # k) => T[k] = Absent

\* It does, if no key is there twice.
LEMMA TableShows ==
  /\ KeyUnique => Shows(Table, heap, linked)
  /\ KeyUnique' => Shows(Table', heap', linked')
<1>1. ASSUME KeyUnique PROVE Shows(Table, heap, linked)
  <2>1. ASSUME NEW k \in Key, NEW a \in linked, heap[a].key = k
        PROVE  Table[k] = View(heap[a])
    <3>1. Matches(k) = {a}
      BY <1>1, <2>1 DEF KeyUnique, Matches
    <3>2. (CHOOSE b \in Matches(k): TRUE) = a
      BY <3>1
    <3> QED
      BY <3>1, <3>2 DEF Table, View
  <2>2. ASSUME NEW k \in Key, \A a \in linked: heap[a].key # k
        PROVE  Table[k] = Absent
    BY <2>2 DEF Table, Matches
  <2> QED
    BY <2>1, <2>2 DEF Shows
<1>2. ASSUME KeyUnique' PROVE Shows(Table', heap', linked')
  <2>1. ASSUME NEW k \in Key, NEW a \in linked', heap'[a].key = k
        PROVE  Table'[k] = View(heap'[a])
    <3>1. Matches(k)' = {a}
      BY <1>2, <2>1 DEF KeyUnique, Matches
    <3>2. (CHOOSE b \in Matches(k)': TRUE) = a
      BY <3>1
    <3> QED
      BY <3>1, <3>2 DEF Table, View
  <2>2. ASSUME NEW k \in Key, \A a \in linked': heap'[a].key # k
        PROVE  Table'[k] = Absent
    BY <2>2 DEF Table, Matches
  <2> QED
    BY <2>1, <2>2 DEF Shows
<1> QED
  BY <1>1, <1>2

\* A table is what it says of each key.
LEMMA TableIs ==
  ASSUME NEW T, T = [k \in Key |-> T[k]]
  PROVE  (\A k \in Key: Table'[k] = T[k]) => Table' = T
BY DEF Table

\* What is in the slots are entries, and their views are no empty places.
LEMMA LinkedViews ==
  ASSUME ControlInv, HeapOK
  PROVE  \A a \in linked:
           /\ a \in Addr /\ heap[a] \in Entry /\ heap[a].key \in Key
           /\ View(heap[a]) \in KV!Content /\ View(heap[a]) # Absent
<1>1. ASSUME NEW a \in linked
      PROVE  a \in Addr /\ heap[a] \in Entry
  BY UsedEntry DEF HeapOK, ListsOK, Listed, Used
<1>2. ASSUME NEW a \in linked
      PROVE  View(heap[a]) \in KV!Content
  BY <1>1 DEF Entry, View, KV!Content, KV!Val, Val
<1> QED
  BY <1>1, <1>2, AbsentAssumption DEF Entry

\* Expiry in the table is expiry in the cache.
LEMMA ViewExpiry ==
  ASSUME NEW e, NEW t
  PROVE  /\ KV!Overdue(View(e), t) <=> HardExpired(e, t)
         /\ KV!Overdue(View(e), t) \/ KV!Unused(View(e), t) <=> Expired(e, t)
BY DEF KV!Overdue, KV!Unused, View, HardExpired, SoftExpired, Expired

\* A key is missing in the table where the cache does not find it.
LEMMA MissingNotFound ==
  ASSUME ControlInv, HeapOK, KeyUnique, NEW k \in Key, NEW t
  PROVE  KV!Missing(k, t) <=> Found(k, t) = {}
<1>1. Shows(Table, heap, linked)
  BY TableShows
<1>2. CASE \A a \in linked: heap[a].key # k
  BY <1>1, <1>2 DEF Shows, KV!Missing, Found, Matches
<1>3. ASSUME NEW a \in linked, heap[a].key = k
      PROVE  KV!Missing(k, t) <=> Found(k, t) = {}
  <2>1. Table[k] = View(heap[a]) /\ Table[k] # Absent
    BY <1>1, <1>3, LinkedViews DEF Shows
  <2>2. Matches(k) = {a}
    BY <1>3 DEF KeyUnique, Matches
  <2> QED
    BY <2>1, <2>2, ViewExpiry DEF KV!Missing, Found
<1> QED
  BY <1>2, <1>3

\* A step that leaves the slots, and what the table shows of the entries in them.
LEMMA TableKept ==
  ASSUME ControlInv, HeapOK, KeyUnique, KeyUnique', linked' = linked,
         \A a \in linked: heap'[a].key = heap[a].key /\ View(heap'[a]) = View(heap[a])
  PROVE  Table' = Table
<1>1. Shows(Table, heap, linked) /\ Shows(Table', heap', linked')
  BY TableShows
<1>2. \A k \in Key: Table'[k] = Table[k]
  BY <1>1 DEF Shows
<1>3. Table = [k \in Key |-> Table[k]]
  BY DEF Table
<1> QED
  BY <1>2, <1>3, TableIs

\* A step that removes entries that are out of date from the slots.
LEMMA TableEvicted ==
  ASSUME ControlInv, HeapOK, KeyUnique, KeyUnique', NEW S, S \subseteq linked, NEW t,
         linked' = linked \ S, \A a \in linked \ S: heap'[a] = heap[a],
         \A a \in S: Expired(heap[a], t)
  PROVE  Table' \in KV!Evicted(Table, t)
<1>1. Shows(Table, heap, linked) /\ Shows(Table', heap', linked')
  BY TableShows
<1> DEFINE K == {heap[a].key: a \in S}
           T == [k \in Key |-> IF k \in K THEN Absent ELSE Table[k]]
<1>2. K \in SUBSET {k \in Key: Table[k] # Absent
                                 /\ (KV!Overdue(Table[k], t) \/ KV!Unused(Table[k], t))}
  <2>1. ASSUME NEW a \in S
        PROVE  /\ heap[a].key \in Key /\ Table[heap[a].key] # Absent
               /\ KV!Overdue(Table[heap[a].key], t) \/ KV!Unused(Table[heap[a].key], t)
    <3>1. heap[a].key \in Key /\ Table[heap[a].key] = View(heap[a]) /\ View(heap[a]) # Absent
      BY <1>1, LinkedViews DEF Shows
    <3> QED
      BY <3>1, ViewExpiry
  <2> QED
    BY <2>1
<1>3. T \in KV!Evicted(Table, t)
  BY <1>2 DEF KV!Evicted
<1>4. ASSUME NEW k \in Key
      PROVE  Table'[k] = T[k]
  <2>1. CASE k \in K
    <3>1. \A a \in linked': heap'[a].key # k
      BY <2>1 DEF KeyUnique
    <3> QED
      BY <1>1, <2>1, <3>1 DEF Shows
  <2>2. CASE k \notin K
    <3>1. \A a \in linked: heap[a].key = k => a \in linked' /\ heap'[a] = heap[a]
      BY <2>2
    <3>2. \A a \in linked': a \in linked /\ heap'[a] = heap[a]
      OBVIOUS
    <3> QED
      BY <1>1, <2>2, <3>1, <3>2 DEF Shows
  <2> QED
    BY <2>1, <2>2
<1>5. T = [k \in Key |-> T[k]]
  OBVIOUS
<1> HIDE DEF T
<1>6. Table' = T
  BY <1>4, <1>5, TableIs
<1> QED
  BY <1>3, <1>6

-----------------------------------------------------------------------------
(* Requests *)

\* What a process has pending, by where it is.
Pends(p) ==
  /\ Seeding(p) \/ pc[p] = "update" => RequestOf(p) = IncOf(args[p])
  /\ pc[p] \in Allocating /\ ~Seeding(p) => RequestOf(p) = WriteOf(args[p])
  /\ pc[p] \in {"fetch", "exists", "entry"} => RequestOf(p) = ReadOf(args[p])
  /\ pc[p] = "delete" => RequestOf(p) = DeleteOf(args[p])
  /\ pc[p] = "clear" => RequestOf(p) = [op |-> "clear"]
  /\ pc[p] = "release" /\ ~Seeding(p) => RequestOf(p) = Accepted
  /\ pc[p] = "drop" /\ ~Seeding(p) => RequestOf(p) = Rejected
  /\ pc[p] \in {"user", "exit", "bail", "dead"} => RequestOf(p) = Idle

LEMMA PendsNow == ASSUME NEW p PROVE Pends(p)
BY DEF Pends, RequestOf, Seeding, Allocating

LEMMA PendsNext == ASSUME NEW p PROVE Pends(p)'
BY DEF Pends, RequestOf, Seeding, Allocating

\* A request as the table sees it.
LEMMA Asked ==
  ASSUME ControlInv, NEW p \in Proc
  PROVE  /\ Requests[p] = RequestOf(p)
         /\ Seeding(p) \/ pc[p] = "update" => KV!Asks(p, "inc")
         /\ pc[p] \in Allocating /\ ~Seeding(p) =>
              KV!Writes(p) /\ (KV!Asks(p, "add") <=> args[p].excl)
         /\ pc[p] \in {"fetch", "exists", "entry"} => KV!Asks(p, "read")
         /\ pc[p] = "delete" => KV!Asks(p, "delete")
         /\ pc[p] = "clear" => KV!Asks(p, "clear")
<1>1. Requests[p] = RequestOf(p)
  BY DEF Requests
<1>2. args[p] \in Args
  BY DEF ControlInv, ControlTypeOK
<1>3. /\ IncOf(args[p]) \in KV!Request /\ WriteOf(args[p]) \in KV!Request
      /\ ReadOf(args[p]) \in KV!Request /\ DeleteOf(args[p]) \in KV!Request
      /\ [op |-> "clear"] \in KV!Request
  BY <1>2 DEF Args, IncOf, WriteOf, ReadOf, DeleteOf, KV!Request, KV!Val, Val
<1>4. \A op: Requests[p] \in KV!Request /\ Requests[p].op = op => KV!Asks(p, op)
  BY AnswerAssumption DEF KV!Asks
<1>5. /\ IncOf(args[p]).op = "inc" /\ ReadOf(args[p]).op = "read"
      /\ DeleteOf(args[p]).op = "delete" /\ [op |-> "clear"].op = "clear"
      /\ WriteOf(args[p]).op = IF args[p].excl THEN "add" ELSE "put"
  BY DEF IncOf, WriteOf, ReadOf, DeleteOf
<1>6. ASSUME pc[p] \in Allocating, ~Seeding(p)
      PROVE  KV!Writes(p) /\ (KV!Asks(p, "add") <=> args[p].excl)
  <2>1. Requests[p] = WriteOf(args[p])
    BY <1>1, <1>6, PendsNow DEF Pends
  <2>2. args[p].excl => KV!Asks(p, "add")
    BY <1>3, <1>4, <1>5, <2>1
  <2>3. ~args[p].excl => KV!Asks(p, "put") /\ ~KV!Asks(p, "add")
    BY <1>3, <1>4, <1>5, <2>1 DEF KV!Asks
  <2> QED
    BY <2>2, <2>3 DEF KV!Writes
<1>7. /\ Seeding(p) \/ pc[p] = "update" => KV!Asks(p, "inc")
      /\ pc[p] \in {"fetch", "exists", "entry"} => KV!Asks(p, "read")
      /\ pc[p] = "delete" => KV!Asks(p, "delete")
      /\ pc[p] = "clear" => KV!Asks(p, "clear")
  BY <1>1, <1>3, <1>4, <1>5, PendsNow DEF Pends
<1> QED
  BY <1>1, <1>6, <1>7

\* The other processes stay where they are, and what they ask for stays what it was.
OthersStay(p) ==
  \A q \in Proc: q # p =>
    /\ pc'[q] = pc[q]
    /\ args'[q] = args[q] \/ args'[q] = [args[q] EXCEPT !.missed = TRUE]

LEMMA RequestsStep ==
  ASSUME ControlInv, NEW p \in Proc, OthersStay(p)
  PROVE  Requests' = [Requests EXCEPT ![p] = RequestOf(p)']
<1>1. ASSUME NEW q \in Proc, q # p
      PROVE  RequestOf(q)' = RequestOf(q)
  <2>1. args[q] \in Args
    BY DEF ControlInv, ControlTypeOK
  <2>2. /\ args'[q].key = args[q].key /\ args'[q].val = args[q].val /\ args'[q].ttl = args[q].ttl
        /\ args'[q].t = args[q].t /\ args'[q].ct = args[q].ct /\ args'[q].excl = args[q].excl
        /\ args'[q].then = args[q].then /\ pc'[q] = pc[q]
    BY <1>1, <2>1 DEF OthersStay, Args
  <2> QED
    BY <2>2 DEF RequestOf, Seeding, Allocating, IncOf, WriteOf, ReadOf, DeleteOf
<1> QED
  BY <1>1 DEF Requests

\* A step of p that the table does not notice.
LEMMA Unnoticed ==
  ASSUME ControlInv, NEW p \in Proc, OthersStay(p), RequestOf(p)' = RequestOf(p),
         Table' = Table, now' = now
  PROVE  UNCHANGED KV!kvars
<1>1. Requests' = Requests
  BY RequestsStep DEF Requests
<1> QED
  BY <1>1 DEF KV!kvars

-----------------------------------------------------------------------------
(* What a request carries with it *)

\* The arguments of a pending request are those of a call, and its times are past; what
\* an increment adds is added only if it is still missing.
CarriedOK(p) ==
  /\ pc[p] = "entry" => args[p].ttl \in Ttls
  /\ pc[p] = "update" => args[p].t <= now
  /\ pc[p] = "expunge" => args[p].xt <= now
  /\ Seeding(p) => /\ args[p].val = 0 /\ args[p].excl
                   /\ args[p].t <= args[p].ct /\ args[p].ct <= now

\* A generator stores with the TTL of its call.
FramesOK(p) == \A i \in 1..Len(stack[p]): stack[p][i].kind = "gen" => stack[p][i].ttl \in Ttls

\* The block that waits for its insertion holds what the store was asked to write.
WrittenOK(p) ==
  pc[p] = "insert" => View(heap[ptr[p]]) = KV!Fresh(args[p].val, args[p].ttl, args[p].ct)

CarryOK == \A p \in Proc: CarriedOK(p) /\ FramesOK(p) /\ WrittenOK(p)

Step(p) == Call(p) \/ Locking(p) \/ Running(p) \/ CallbackReturn(p) \/ Fail(p)

\* A step of p leaves the others' own state alone, and takes no time.
LEMMA StepOthers ==
  ASSUME ControlInv, NEW p \in Proc, Step(p)
  PROVE  /\ OthersStay(p) /\ now' = now
         /\ \A q \in Proc: q # p => stack'[q] = stack[q] /\ ptr'[q] = ptr[q]
<1> USE DEF Goto, shared, history
<1>1. /\ pc \in [Proc -> PCs] /\ args \in [Proc -> Args]
      /\ ptr \in [Proc -> Addr \cup {Null}] /\ stack \in [Proc -> Seq(Frame)]
  BY DEF ControlInv, ControlTypeOK
<1>2. ASSUME ExpungeEnd(p)
      PROVE  /\ OthersStay(p) /\ now' = now
             /\ \A q \in Proc: q # p => stack'[q] = stack[q] /\ ptr'[q] = ptr[q]
  BY <1>1, <1>2 DEF ExpungeEnd, OthersStay
<1>3. CASE Call(p)
  BY <1>1, <1>3 DEF Call, CallLookup, CallStore, CallUpdate, CallEntry, CallClear, OthersStay
<1>4. CASE Locking(p)
  <2>1. CASE ExpungeAll(p)
    BY <1>2, <2>1 DEF ExpungeAll
  <2>2. CASE \/ ExpungeSkip(p) \/ ExpungeExpired(p) \/ InsertRefused(p) \/ Insert(p)
             \/ UpdateInsert(p) \/ Clear(p)
    BY <1>1, <2>2 DEF ExpungeSkip, ExpungeExpired, InsertRefused, Insert, UpdateInsert, Clear, OthersStay
  <2>3. CASE \/ FetchHit(p) \/ ExistsHit(p) \/ LookupMiss(p) \/ UpdateHit(p) \/ UpdateMiss(p)
             \/ Delete(p) \/ EntryHit(p) \/ EntryMiss(p)
    BY <1>1, <2>3 DEF FetchHit, ExistsHit, LookupMiss, UpdateHit, UpdateMiss, Delete, EntryHit,
       EntryMiss, Return, Push, OthersStay
  <2> QED
    BY <1>4, <2>1, <2>2, <2>3 DEF Locking
<1>5. CASE Running(p)
  <2>1. CASE ExpungeShort(p) \/ ExpungeFragmented(p) \/ ExpungeDone(p)
    BY <1>2, <2>1 DEF ExpungeShort, ExpungeFragmented, ExpungeDone
  <2>2. CASE \/ Malloc(p) \/ ReadCleanups(p) \/ ExpungeAvail(p) \/ ExpungeDefrag(p)
             \/ EntryExit(p) \/ UnwindFetch(p) \/ UnwindEntry(p) \/ Unwound(p)
    BY <1>1, <2>2 DEF Malloc, ReadCleanups, ExpungeAvail, ExpungeDefrag, EntryExit, UnwindFetch,
       UnwindEntry, Unwound, Pop, OthersStay
  <2>3. CASE MallocFail(p) \/ Release(p) \/ Drop(p)
    BY <1>1, <2>3 DEF MallocFail, Release, Drop, Resume, OthersStay
  <2> QED
    BY <1>5, <2>1, <2>2, <2>3 DEF Running
<1>6. CASE CallbackReturn(p)
  BY <1>1, <1>6 DEF CallbackReturn, FetchReturn, EntryHitReturn, GeneratorReturn, Pop, OthersStay
<1>7. CASE Fail(p)
  BY <1>1, <1>7 DEF Fail, PersistBailout, GeneratorThrow, Bailout, Crash, OthersStay
<1> QED
  BY <1>3, <1>4, <1>5, <1>6, <1>7 DEF Step

\* A step of p leaves the blocks of other stores alone.
LEMMA StepWritten ==
  ASSUME ControlInv, HeapOK, Timely, NEW p \in Proc, NEW q \in Proc, q # p, pc[q] = "insert",
         Step(p)
  PROVE  heap'[ptr[q]] = heap[ptr[q]]
<1> DEFINE a == ptr[q]
<1>1. /\ a \in Addr \ Listed /\ heap[a] # Free /\ a # Null /\ a # ptr[p]
      /\ heap \in [Addr -> Entry \cup {Free}] /\ linked \subseteq Listed
  BY DEF HeapOK, ListsOK, Used, FreeAddrs, Listed, Addr, Null
<1> HIDE DEF a
<1>2. CASE \/ ExpungeAll(p) \/ ExpungeExpired(p) \/ ExpungeShort(p) \/ ExpungeFragmented(p)
           \/ Clear(p) \/ Delete(p)
  BY <1>1, <1>2, ExpungeCollected, DeleteCollected DEF Collected, a
<1>3. CASE InsertRefused(p)
  BY <1>1, <1>3, InsertCollected DEF Collected, a
<1>4. CASE Insert(p)
  BY <1>1, <1>4, InsertCollected DEF Collected, a
<1>5. CASE FetchHit(p) \/ ExistsHit(p) \/ EntryHit(p) \/ UpdateHit(p)
  BY <1>1, <1>5, LookupWrites DEF a
<1>6. CASE Malloc(p)
  BY <1>1, <1>6 DEF Malloc, FreeAddrs, a
<1>7. CASE Release(p) \/ Drop(p)
  BY <1>1, <1>7 DEF Release, Drop, Decref, a
<1>8. CASE FetchReturn(p) \/ EntryHitReturn(p) \/ UnwindFetch(p)
  <2>1. /\ stack[p] # <<>> /\ Top(p).kind \in Pinning /\ heap' = Decref(heap, Top(p).addr)
    BY <1>8 DEF FetchReturn, EntryHitReturn, UnwindFetch, InCallback, Pinning
  <2>2. Len(stack[p]) \in 1..Len(stack[p])
    BY <2>1, LenProperties, EmptySeq DEF ControlInv, ControlTypeOK
  <2>3. Top(p).addr \in Listed
    BY <2>1, <2>2 DEF HeapOK, ListsOK, Top
  <2> QED
    BY <1>1, <2>1, <2>3 DEF Decref, a
<1>9. CASE ExpungeDefrag(p)
  <2>1. PICK f \in [Used -> Addr]: Compacts(f) /\ \A b \in Used: heap'[f[b]] = heap[b]
    BY <1>9, DefragMap
  <2>2. <<q, 0>> \in Holders(a)
    BY BoundAssumption DEF Holders, a
  <2>3. a \in Used /\ ~Movable(heap[a])
    BY <1>1, <2>2, HeldEntry, UsedEntry DEF Movable
  <2>4. f[a] = a
    BY <2>1, <2>3 DEF Compacts
  <2> QED
    BY <2>1, <2>3, <2>4 DEF a
<1>10. CASE \/ Call(p) \/ Fail(p) \/ ExpungeSkip(p) \/ LookupMiss(p) \/ UpdateInsert(p)
            \/ UpdateMiss(p) \/ EntryMiss(p) \/ MallocFail(p) \/ ReadCleanups(p)
            \/ ExpungeAvail(p) \/ ExpungeDone(p) \/ EntryExit(p) \/ UnwindEntry(p) \/ Unwound(p)
            \/ (\E v \in Values: GeneratorReturn(p, v))
  <2>1. heap' = heap
    BY <1>10 DEF Call, CallLookup, CallStore, CallUpdate, CallEntry, CallClear, Fail,
       PersistBailout, GeneratorThrow, Bailout, Crash, ExpungeSkip, LookupMiss, UpdateInsert,
       UpdateMiss, EntryMiss, MallocFail, ReadCleanups, ExpungeAvail, ExpungeDone, EntryExit,
       UnwindEntry, Unwound, GeneratorReturn, shared
  <2> QED
    BY <2>1 DEF a
<1> QED
  BY <1>2, <1>3, <1>4, <1>5, <1>6, <1>7, <1>8, <1>9, <1>10
  DEF Step, Locking, Running, CallbackReturn, a

\* Where a store resumes, its times are past.
LEMMA ResumeCarried ==
  ASSUME ControlInv, NEW p \in Proc, CarriedOK(p), Resume(p), now' = now,
         pc[p] \in {"malloc", "release", "drop"}
  PROVE  CarriedOK(p)' /\ pc'[p] # "insert"
<1>1. /\ pc'[p] = args[p].then /\ args[p] \in Args /\ now \in Nat
      /\ args'[p] = IF args[p].then = "update"
                      THEN [args[p] EXCEPT !.nuked = FALSE, !.then = "user"] ELSE NoArgs
  BY DEF Resume, Goto, ControlInv, ControlTypeOK
<1>2. args[p].then \in {"user", "update", "exit"} /\ args[p].t \in Nat /\ args[p].ct \in Nat
  BY <1>1 DEF Args
<1>3. CASE args[p].then = "update"
  <2>1. pc'[p] = "update" /\ args'[p].t = args[p].t /\ args'[p].then = "user"
    BY <1>1, <1>3 DEF Args
  <2>2. args[p].t <= args[p].ct /\ args[p].ct <= now
    BY <1>3 DEF CarriedOK, Seeding, Allocating
  <2> QED
    BY <1>1, <1>2, <2>1, <2>2 DEF CarriedOK, Seeding, Allocating
<1>4. CASE args[p].then # "update"
  BY <1>1, <1>2, <1>4 DEF CarriedOK, Seeding, Allocating
<1> QED
  BY <1>3, <1>4

\* p itself, in a step of its own.
LEMMA StepCarried ==
  ASSUME ControlInv, NEW p \in Proc, CarriedOK(p), Step(p)
  PROVE  CarriedOK(p)'
<1> USE DEF Goto, shared, history
<1>1. /\ pc \in [Proc -> PCs] /\ args \in [Proc -> Args] /\ now \in Nat
      /\ args[p] \in Args /\ NoArgs \in Args /\ now' = now
  BY NoArgsType, StepOthers DEF ControlInv, ControlTypeOK
<1> DEFINE Same == /\ args'[p].val = args[p].val /\ args'[p].excl = args[p].excl
                   /\ args'[p].t = args[p].t /\ args'[p].ct = args[p].ct
                   /\ args'[p].then = args[p].then
<1>2. ASSUME Same, pc[p] \in Allocating, pc'[p] \in (Allocating \ {"expunge"}) \cup {"release", "drop"}
      PROVE  CarriedOK(p)'
  BY <1>1, <1>2 DEF CarriedOK, Seeding, Allocating
<1>3. ASSUME pc'[p] \notin Allocating \cup {"release", "drop", "entry", "update"}
      PROVE  CarriedOK(p)'
  BY <1>3 DEF CarriedOK, Seeding, Allocating
<1>4. CASE Call(p)
  <2>1. ASSUME NEW k \in Key, NEW ttl \in Ttls, NEW v \in Values, CallStore(p, k, v, ttl)
        PROVE  CarriedOK(p)'
    <3>1. pc'[p] = "malloc" /\ args'[p].then = "user"
      BY <1>1, <2>1 DEF CallStore, NoArgs, Args
    <3> QED
      BY <3>1 DEF CarriedOK, Seeding
  <2>2. ASSUME NEW k \in Key, NEW ttl \in Ttls, CallUpdate(p, k, ttl) \/ CallEntry(p, k, ttl)
        PROVE  CarriedOK(p)'
    <3>1. /\ pc'[p] \in {"update", "entry"} /\ args'[p].ttl = ttl
          /\ args'[p].t = now /\ args'[p].then = "user"
      <4>1. CASE CallUpdate(p, k, ttl)
        BY <1>1, <4>1 DEF CallUpdate, NoArgs
      <4>2. CASE CallEntry(p, k, ttl)
        BY <1>1, <4>2 DEF CallEntry, NoArgs
      <4> QED
        BY <2>2, <4>1, <4>2
    <3> QED
      BY <1>1, <3>1 DEF CarriedOK, Seeding
  <2>3. ASSUME NEW k \in Key, CallLookup(p, k) \/ CallClear(p)
        PROVE  CarriedOK(p)'
    <3>1. pc'[p] \in {"fetch", "exists", "delete", "clear"}
      BY <1>1, <2>3 DEF CallLookup, CallClear
    <3> QED
      BY <1>3, <3>1 DEF Allocating
  <2> QED
    BY <1>4, <2>1, <2>2, <2>3, KeyAssumption DEF Call
<1>5. CASE Locking(p)
  <2>1. CASE ExpungeSkip(p) \/ ExpungeExpired(p) \/ InsertRefused(p) \/ Insert(p)
    <3>1. Same /\ pc[p] \in Allocating /\ pc'[p] \in {"malloc", "avail", "drop", "release"}
      BY <1>1, <2>1 DEF ExpungeSkip, ExpungeExpired, InsertRefused, Insert, Allocating
    <3> QED
      BY <1>2, <3>1 DEF Allocating
  <2>2. CASE ExpungeAll(p)
    <3>1. Same /\ pc[p] \in Allocating /\ pc'[p] = "malloc"
      BY <1>1, <2>2 DEF ExpungeAll, ExpungeEnd, Allocating, Args
    <3> QED
      BY <1>2, <3>1 DEF Allocating
  <2>3. CASE UpdateInsert(p)
    <3>1. /\ pc[p] = "update" /\ pc'[p] = "malloc" /\ args'[p].val = 0 /\ args'[p].excl = TRUE
          /\ args'[p].t = args[p].t /\ args'[p].ct = now
      BY <1>1, <2>3 DEF UpdateInsert, Args
    <3>2. args[p].t <= now
      BY <3>1 DEF CarriedOK
    <3> QED
      BY <1>1, <3>1, <3>2 DEF CarriedOK, Seeding
  <2>4. CASE \/ FetchHit(p) \/ ExistsHit(p) \/ LookupMiss(p) \/ UpdateHit(p) \/ UpdateMiss(p)
             \/ Delete(p) \/ EntryHit(p) \/ EntryMiss(p) \/ Clear(p)
    <3>1. pc'[p] = "user"
      BY <1>1, <2>4 DEF FetchHit, ExistsHit, LookupMiss, UpdateHit, UpdateMiss, Delete, EntryHit,
         EntryMiss, Clear, Return
    <3> QED
      BY <1>3, <3>1 DEF Allocating
  <2> QED
    BY <1>5, <2>1, <2>2, <2>3, <2>4 DEF Locking
<1>6. CASE Running(p)
  <2>1. CASE Malloc(p) \/ ExpungeAvail(p) \/ ExpungeDefrag(p)
    <3>1. Same /\ pc[p] \in Allocating /\ pc'[p] \in {"insert", "defrag", "contig"}
      BY <1>1, <2>1 DEF Malloc, ExpungeAvail, ExpungeDefrag, Allocating
    <3> QED
      BY <1>2, <3>1 DEF Allocating
  <2>2. CASE ExpungeShort(p) \/ ExpungeFragmented(p) \/ ExpungeDone(p)
    <3>1. Same /\ pc[p] \in Allocating /\ pc'[p] = "malloc"
      BY <1>1, <2>2 DEF ExpungeShort, ExpungeFragmented, ExpungeDone, ExpungeEnd, Allocating, Args
    <3> QED
      BY <1>2, <3>1 DEF Allocating
  <2>3. CASE ReadCleanups(p)
    <3>1. Same /\ pc[p] = "nomem" /\ pc'[p] = "expunge" /\ args'[p].xt = now
      BY <1>1, <2>3 DEF ReadCleanups, Args
    <3> QED
      BY <1>1, <3>1 DEF CarriedOK, Seeding, Allocating
  <2>4. CASE MallocFail(p)
    <3>1. CASE pc' = [pc EXCEPT ![p] = "nomem"] /\ args' = args
      <4>1. Same /\ pc[p] \in Allocating /\ pc'[p] = "nomem"
        BY <1>1, <2>4, <3>1 DEF MallocFail, Allocating
      <4> QED
        BY <1>2, <4>1 DEF Allocating
    <3>2. CASE Resume(p)
      BY <1>1, <2>4, <3>2, ResumeCarried DEF MallocFail
    <3> QED
      BY <2>4, <3>1, <3>2 DEF MallocFail
  <2>5. CASE Release(p) \/ Drop(p)
    BY <1>1, <2>5, ResumeCarried DEF Release, Drop
  <2>6. CASE EntryExit(p) \/ UnwindFetch(p) \/ UnwindEntry(p) \/ Unwound(p)
    <3>1. pc'[p] \in {"user", "bail"}
      BY <1>1, <2>6 DEF EntryExit, UnwindFetch, UnwindEntry, Unwound
    <3> QED
      BY <1>3, <3>1 DEF Allocating
  <2> QED
    BY <1>6, <2>1, <2>2, <2>3, <2>4, <2>5, <2>6 DEF Running
<1>7. CASE CallbackReturn(p)
  <2>1. CASE FetchReturn(p) \/ EntryHitReturn(p)
    <3>1. pc'[p] = "user"
      BY <1>1, <2>1 DEF FetchReturn, EntryHitReturn, InCallback
    <3> QED
      BY <1>3, <3>1 DEF Allocating
  <2>2. ASSUME NEW v \in Values, GeneratorReturn(p, v)
        PROVE  CarriedOK(p)'
    <3>1. pc'[p] = "malloc" /\ args'[p].then = "exit"
      BY <1>1, <2>2 DEF GeneratorReturn, NoArgs
    <3> QED
      BY <3>1 DEF CarriedOK, Seeding
  <2> QED
    BY <1>7, <2>1, <2>2 DEF CallbackReturn
<1>8. CASE Fail(p)
  <2>1. pc'[p] \in {"bail", "exit", "dead"}
    BY <1>1, <1>8 DEF Fail, PersistBailout, GeneratorThrow, Bailout, Crash
  <2> QED
    BY <1>3, <2>1 DEF Allocating
<1> QED
  BY <1>4, <1>5, <1>6, <1>7, <1>8 DEF Step

\* The frames of p: a generator is pushed with the TTL of its call.
LEMMA StepFrames ==
  ASSUME ControlInv, NEW p \in Proc, CarriedOK(p), FramesOK(p), Step(p)
  PROVE  FramesOK(p)'
<1>1. ASSUME stack'[p] = stack[p]
      PROVE  FramesOK(p)'
  BY <1>1 DEF FramesOK
<1>2. ASSUME Pop(p)
      PROVE  FramesOK(p)'
  BY <1>2, PopStack DEF FramesOK, ControlInv
<1>3. ASSUME NEW f \in Frame, Push(p, f), f.kind = "gen" => f.ttl \in Ttls
      PROVE  FramesOK(p)'
  <2>1. /\ Len(stack[p]) \in Nat /\ Len(stack'[p]) = Len(stack[p]) + 1
        /\ stack'[p][Len(stack[p]) + 1] = f
        /\ \A i \in 1..Len(stack[p]): stack'[p][i] = stack[p][i]
    BY <1>3, PushStack DEF ControlInv
  <2> QED
    BY <1>3, <2>1 DEF FramesOK
<1>4. CASE FetchReturn(p) \/ EntryHitReturn(p) \/ EntryExit(p) \/ UnwindFetch(p) \/ UnwindEntry(p)
  BY <1>2, <1>4 DEF FetchReturn, EntryHitReturn, EntryExit, UnwindFetch, UnwindEntry
<1>5. CASE FetchHit(p) \/ EntryHit(p)
  <2>1. PICK a \in linked, kind \in {"fetch", "hit"}:
          Push(p, [kind |-> kind, addr |-> a, key |-> args[p].key])
    BY <1>5 DEF FetchHit, EntryHit, Found, Matches
  <2>2. [kind |-> kind, addr |-> a, key |-> args[p].key] \in Frame
    BY FrameTypes DEF ControlInv
  <2>3. [kind |-> kind, addr |-> a, key |-> args[p].key].kind # "gen"
    OBVIOUS
  <2> QED
    BY <1>3, <2>1, <2>2, <2>3
<1>6. CASE EntryMiss(p)
  <2>1. /\ [kind |-> "gen", key |-> args[p].key, ttl |-> args[p].ttl] \in Frame
        /\ Push(p, [kind |-> "gen", key |-> args[p].key, ttl |-> args[p].ttl])
        /\ args[p].ttl \in Ttls
    BY <1>6, FrameTypes DEF EntryMiss, ControlInv, CarriedOK
  <2> QED
    BY <1>3, <2>1
<1>7. CASE Crash(p)
  <2>1. stack'[p] = <<>>
    BY <1>7 DEF Crash, ControlInv, ControlTypeOK
  <2> QED
    BY <2>1, EmptySeq DEF FramesOK
<1>8. CASE \/ Call(p) \/ PersistBailout(p) \/ GeneratorThrow(p) \/ Bailout(p)
           \/ (\E v \in Values: GeneratorReturn(p, v))
  BY <1>1, <1>8 DEF Call, CallLookup, CallStore, CallUpdate, CallEntry, CallClear, PersistBailout,
     GeneratorThrow, Bailout, GeneratorReturn
<1>9. CASE \/ ExpungeSkip(p) \/ ExpungeAll(p) \/ ExpungeExpired(p) \/ InsertRefused(p) \/ Insert(p)
           \/ ExistsHit(p) \/ LookupMiss(p) \/ UpdateHit(p) \/ UpdateInsert(p) \/ UpdateMiss(p)
           \/ Delete(p) \/ Clear(p)
  BY <1>1, <1>9 DEF ExpungeSkip, ExpungeAll, ExpungeExpired, ExpungeEnd, InsertRefused, Insert,
     ExistsHit, LookupMiss, UpdateHit, UpdateInsert, UpdateMiss, Delete, Clear
<1>10. CASE \/ Malloc(p) \/ MallocFail(p) \/ ReadCleanups(p) \/ ExpungeShort(p) \/ ExpungeAvail(p)
            \/ ExpungeDefrag(p) \/ ExpungeFragmented(p) \/ ExpungeDone(p) \/ Release(p) \/ Drop(p)
            \/ Unwound(p)
  BY <1>1, <1>10 DEF Malloc, MallocFail, ReadCleanups, ExpungeShort, ExpungeAvail, ExpungeDefrag,
     ExpungeFragmented, ExpungeDone, ExpungeEnd, Release, Drop, Unwound
<1> QED
  BY <1>4, <1>5, <1>6, <1>7, <1>8, <1>9, <1>10 DEF Step, Locking, Running, CallbackReturn, Fail

\* A store that comes to its insertion has just filled its block.
LEMMA StepFills ==
  ASSUME ControlInv, HeapOK, NEW p \in Proc, CarriedOK(p), Step(p)
  PROVE  WrittenOK(p)'
<1> USE DEF Goto, shared, history
<1>1. /\ pc \in [Proc -> PCs] /\ args \in [Proc -> Args] /\ heap \in [Addr -> Entry \cup {Free}]
      /\ ptr \in [Proc -> Addr \cup {Null}] /\ now' = now
  BY StepOthers DEF ControlInv, ControlTypeOK, HeapOK
<1>2. CASE Malloc(p)
  <2>1. PICK a \in FreeAddrs:
          /\ heap' = [heap EXCEPT ![a] =
               [key |-> args[p].key, val |-> args[p].val, ttl |-> args[p].ttl,
                ref |-> InitialRef, ctime |-> args[p].ct, atime |-> args[p].ct, dtime |-> 0]]
          /\ ptr' = [ptr EXCEPT ![p] = a]
    BY <1>2 DEF Malloc
  <2>2. a \in Addr /\ ptr'[p] = a /\ args' = args
    BY <1>1, <1>2, <2>1 DEF FreeAddrs, Malloc
  <2> QED
    BY <1>1, <2>1, <2>2 DEF WrittenOK, View, KV!Fresh
<1>3. ASSUME ~Malloc(p)
      PROVE  pc'[p] # "insert"
  <2>1. CASE Call(p)
    BY <1>1, <2>1 DEF Call, CallLookup, CallStore, CallUpdate, CallEntry, CallClear
  <2>2. CASE Locking(p)
    <3>1. CASE \/ ExpungeSkip(p) \/ ExpungeExpired(p) \/ InsertRefused(p) \/ Insert(p)
               \/ UpdateInsert(p) \/ Clear(p) \/ ExpungeAll(p)
      BY <1>1, <3>1 DEF ExpungeSkip, ExpungeExpired, InsertRefused, Insert, UpdateInsert, Clear,
         ExpungeAll, ExpungeEnd
    <3>2. CASE \/ FetchHit(p) \/ ExistsHit(p) \/ LookupMiss(p) \/ UpdateHit(p) \/ UpdateMiss(p)
               \/ Delete(p) \/ EntryHit(p) \/ EntryMiss(p)
      BY <1>1, <3>2 DEF FetchHit, ExistsHit, LookupMiss, UpdateHit, UpdateMiss, Delete, EntryHit,
         EntryMiss, Return
    <3> QED
      BY <2>2, <3>1, <3>2 DEF Locking
  <2>3. CASE Running(p)
    <3>1. CASE MallocFail(p) \/ Release(p) \/ Drop(p)
      <4>1. Resume(p) => pc'[p] # "insert"
        BY <1>1, ResumeType DEF ControlInv
      <4> QED
        BY <1>1, <3>1, <4>1 DEF MallocFail, Release, Drop
    <3>2. CASE \/ ReadCleanups(p) \/ ExpungeAvail(p) \/ ExpungeDefrag(p) \/ EntryExit(p)
               \/ UnwindFetch(p) \/ UnwindEntry(p) \/ Unwound(p)
               \/ ExpungeShort(p) \/ ExpungeFragmented(p) \/ ExpungeDone(p)
      BY <1>1, <3>2 DEF ReadCleanups, ExpungeAvail, ExpungeDefrag, EntryExit, UnwindFetch,
         UnwindEntry, Unwound, ExpungeShort, ExpungeFragmented, ExpungeDone, ExpungeEnd
    <3> QED
      BY <1>3, <2>3, <3>1, <3>2 DEF Running
  <2>4. CASE CallbackReturn(p)
    BY <1>1, <2>4 DEF CallbackReturn, FetchReturn, EntryHitReturn, GeneratorReturn, InCallback
  <2>5. CASE Fail(p)
    BY <1>1, <2>5 DEF Fail, PersistBailout, GeneratorThrow, Bailout, Crash
  <2> QED
    BY <2>1, <2>2, <2>3, <2>4, <2>5 DEF Step
<1> QED
  BY <1>2, <1>3 DEF WrittenOK

\* What requests carry is inductive.
LEMMA NextCarry == MemoryInv /\ CarryOK /\ Timely /\ [Next]_vars => CarryOK'
<1> SUFFICES ASSUME MemoryInv, CarryOK, Timely, [Next]_vars
             PROVE  CarryOK'
  OBVIOUS
<1>1. ControlInv /\ HeapOK
  BY MemoryParts
<1>2. ASSUME NEW p \in Proc, Step(p)
      PROVE  CarryOK'
  <2>1. CarriedOK(p)' /\ FramesOK(p)' /\ WrittenOK(p)'
    BY <1>1, <1>2, StepCarried, StepFrames, StepFills DEF CarryOK
  <2>2. ASSUME NEW q \in Proc, q # p
        PROVE  CarriedOK(q)' /\ FramesOK(q)' /\ WrittenOK(q)'
    <3>1. /\ pc'[q] = pc[q] /\ stack'[q] = stack[q] /\ ptr'[q] = ptr[q] /\ now' = now
          /\ args'[q] = args[q] \/ args'[q] = [args[q] EXCEPT !.missed = TRUE]
      BY <1>1, <1>2, <2>2, StepOthers DEF OthersStay
    <3>2. /\ args'[q].val = args[q].val /\ args'[q].ttl = args[q].ttl /\ args'[q].t = args[q].t
          /\ args'[q].ct = args[q].ct /\ args'[q].xt = args[q].xt
          /\ args'[q].excl = args[q].excl /\ args'[q].then = args[q].then
      BY <1>1, <3>1 DEF ControlInv, ControlTypeOK, Args
    <3>3. CarriedOK(q) /\ FramesOK(q) /\ WrittenOK(q)
      BY DEF CarryOK
    <3>4. CarriedOK(q)' /\ FramesOK(q)'
      BY <3>1, <3>2, <3>3 DEF CarriedOK, FramesOK, Seeding, Allocating
    <3>5. pc[q] = "insert" => heap'[ptr[q]] = heap[ptr[q]]
      BY <1>1, <1>2, <2>2, StepWritten
    <3>6. WrittenOK(q)'
      BY <3>1, <3>2, <3>3, <3>5 DEF WrittenOK
    <3> QED
      BY <3>4, <3>6
  <2> QED
    BY <2>1, <2>2 DEF CarryOK
<1>3. CASE Tick \/ UNCHANGED vars
  <2>1. UNCHANGED <<pc, args, stack, ptr, heap>> /\ now \in Nat /\ (now' = now + 1 \/ now' = now)
    BY <1>1, <1>3 DEF Tick, vars, shared, ControlInv, ControlTypeOK
  <2>2. ASSUME NEW q \in Proc
        PROVE  CarriedOK(q)' /\ FramesOK(q)' /\ WrittenOK(q)'
    <3>1. CarriedOK(q) /\ FramesOK(q) /\ WrittenOK(q)
      BY DEF CarryOK
    <3>2. args[q].t \in Nat /\ args[q].xt \in Nat /\ args[q].ct \in Nat
      BY <1>1 DEF ControlInv, ControlTypeOK, Args
    <3> QED
      BY <2>1, <3>1, <3>2 DEF CarriedOK, FramesOK, WrittenOK, Seeding, Allocating
  <2> QED
    BY <2>2 DEF CarryOK
<1> QED
  BY <1>2, <1>3 DEF Next, Step

\* Nobody asks for anything at first.
LEMMA InitCarry == Init => CarryOK
BY EmptySeq DEF Init, CarryOK, CarriedOK, FramesOK, WrittenOK, Seeding, NoArgs

-----------------------------------------------------------------------------
(* What the sections under the lock do to the table *)

\* What is not removed stays in its slot as it is, whatever is collected.
LEMMA SlotsKept ==
  ASSUME ControlInv, HeapOK, NEW S, S \subseteq linked
  PROVE  \A a \in linked \ S: /\ HeapRemove(heap, S)[a] = heap[a]
                              /\ HeapGc(HeapRemove(heap, S), GcAdd(heap, gc, S))[a] = heap[a]
                              /\ HeapRemove(HeapGc(heap, gc), S)[a] = heap[a]
<1>1. linked \cap gc = {} /\ linked \subseteq Addr
  BY DEF HeapOK, ListsOK, ControlInv, ControlTypeOK
<1> QED
  BY <1>1 DEF HeapRemove, HeapGc, GcAdd

\* An expunge that looks for expired entries evicts them, any other wipes the table.
LEMMA ExpungeTable ==
  ASSUME ControlInv, HeapOK, KeyUnique, KeyUnique', NEW p \in Proc
  PROVE  /\ ExpungeExpired(p) => Table' \in KV!Evicted(Table, args[p].xt)
         /\ ExpungeAll(p) \/ ExpungeShort(p) \/ ExpungeFragmented(p) \/ Clear(p) =>
              Table' = [k \in Key |-> Absent]
<1>1. ASSUME ExpungeExpired(p)
      PROVE  Table' \in KV!Evicted(Table, args[p].xt)
  <2> DEFINE S == {a \in linked: Expired(heap[a], args[p].xt)}
  <2>1. /\ linked' = linked \ S /\ S \subseteq linked
        /\ heap' = HeapGc(HeapRemove(heap, S), GcAdd(heap, gc, S))
        /\ \A a \in S: Expired(heap[a], args[p].xt)
    BY <1>1 DEF ExpungeExpired
  <2> HIDE DEF S
  <2> QED
    BY <2>1, SlotsKept, TableEvicted
<1>2. ASSUME ExpungeAll(p) \/ ExpungeShort(p) \/ ExpungeFragmented(p) \/ Clear(p)
      PROVE  Table' = [k \in Key |-> Absent]
  <2>1. linked' = {}
    BY <1>2 DEF ExpungeAll, ExpungeShort, ExpungeFragmented, Clear, RealExpunge, RealExpungeGc
  <2> QED
    BY <2>1 DEF Table, Matches
<1> QED
  BY <1>1, <1>2

\* A refused insertion evicts what it passes.
LEMMA RefusedTable ==
  ASSUME ControlInv, HeapOK, KeyUnique, KeyUnique', NEW p \in Proc, InsertRefused(p)
  PROVE  Table' \in KV!Evicted(Table, args[p].ct)
<1>1. PICK S \in SUBSET Stale(p): /\ heap' = HeapRemove(HeapGc(heap, gc), S)
                                  /\ linked' = linked \ S
  BY DEF InsertRefused
<1>2. S \subseteq linked /\ \A a \in S: Expired(heap[a], args[p].ct)
  BY DEF Stale
<1> QED
  BY <1>1, <1>2, SlotsKept, TableEvicted

\* An insertion evicts what it passes, and writes.
LEMMA InsertTable ==
  ASSUME ControlInv, HeapOK, Timely, KeyUnique, KeyUnique', NEW p \in Proc, WrittenOK(p), Insert(p)
  PROVE  \E tab \in KV!Evicted(Table, args[p].ct):
           Table' = [tab EXCEPT ![args[p].key] = KV!Fresh(args[p].val, args[p].ttl, args[p].ct)]
<1> DEFINE key == args[p].key
           ct == args[p].ct
           e == KV!Fresh(args[p].val, args[p].ttl, ct)
<1>1. PICK S \in Replaced(p):
        /\ heap' = HeapRemove(HeapGc(heap, gc), S)
        /\ linked' = (linked \ S) \cup {ptr[p]}
  BY DEF Insert
<1>2. /\ S \subseteq linked
      /\ \A a \in S: a \in Stale(p) \/ heap[a].key = key
  BY DEF Replaced, Stale, Matches
<1>3. \A a \in linked \ S: heap'[a] = heap[a]
  BY <1>1, <1>2, SlotsKept
<1>4. /\ pc[p] = "insert" /\ ptr[p] \in Addr /\ ptr[p] \notin Listed /\ heap[ptr[p]].key = key
      /\ key \in Key
  BY DEF Insert, ControlInv, ControlTypeOK, ControlOK, HeapOK, ListsOK, PinSafe, Args
<1>5. heap'[ptr[p]] = heap[ptr[p]]
  <2>1. ptr[p] \notin S /\ ptr[p] \notin gc
    BY <1>2, <1>4 DEF Listed
  <2> QED
    BY <1>1, <1>4, <2>1 DEF HeapRemove, HeapGc
<1>6. Shows(Table, heap, linked) /\ Shows(Table', heap', linked')
  BY TableShows
<1> DEFINE K == {heap[a].key: a \in S \cap Stale(p)}
           tab == [k \in Key |-> IF k \in K THEN Absent ELSE Table[k]]
           T == [tab EXCEPT ![key] = e]
<1>7. tab \in KV!Evicted(Table, ct)
  <2>1. ASSUME NEW a \in S \cap Stale(p)
        PROVE  /\ heap[a].key \in Key /\ Table[heap[a].key] # Absent
               /\ KV!Overdue(Table[heap[a].key], ct) \/ KV!Unused(Table[heap[a].key], ct)
    <3>1. a \in linked /\ Expired(heap[a], ct)
      BY DEF Stale
    <3>2. heap[a].key \in Key /\ Table[heap[a].key] = View(heap[a]) /\ View(heap[a]) # Absent
      BY <1>6, <3>1, LinkedViews DEF Shows
    <3> QED
      BY <3>1, <3>2, ViewExpiry
  <2>2. K \in SUBSET {k \in Key: Table[k] # Absent
                                 /\ (KV!Overdue(Table[k], ct) \/ KV!Unused(Table[k], ct))}
    BY <2>1
  <2> QED
    BY <2>2 DEF KV!Evicted
<1>8. ASSUME NEW k \in Key
      PROVE  Table'[k] = T[k]
  <2>1. CASE k = key
    <3>1. Table'[key] = View(heap'[ptr[p]])
      BY <1>1, <1>4, <1>5, <1>6 DEF Shows
    <3>2. View(heap[ptr[p]]) = e
      BY <1>4 DEF WrittenOK
    <3> QED
      BY <1>5, <2>1, <3>1, <3>2
  <2>2. CASE k # key /\ k \in K
    <3>1. PICK a \in S: heap[a].key = k
      BY <2>2
    <3>2. ASSUME NEW b \in linked'
          PROVE  heap'[b].key # k
      <4>1. CASE b = ptr[p]
        BY <1>4, <1>5, <2>2, <4>1
      <4>2. CASE b \in linked \ S
        BY <1>2, <1>3, <3>1, <4>2 DEF KeyUnique
      <4> QED
        BY <1>1, <4>1, <4>2
    <3>3. Table'[k] = Absent
      BY <1>6, <3>2 DEF Shows
    <3> QED
      BY <2>2, <3>3
  <2>3. CASE k # key /\ k \notin K
    <3>1. ASSUME NEW a \in linked, heap[a].key = k
          PROVE  a \in linked' /\ heap'[a] = heap[a]
      BY <1>1, <1>2, <1>3, <2>3, <3>1
    <3>2. ASSUME NEW b \in linked', heap'[b].key = k
          PROVE  b \in linked /\ heap'[b] = heap[b]
      BY <1>1, <1>3, <1>4, <1>5, <2>3, <3>2
    <3>3. Table'[k] = Table[k]
      BY <1>6, <3>1, <3>2 DEF Shows
    <3> QED
      BY <2>3, <3>3
  <2> QED
    BY <2>1, <2>2, <2>3
<1>9. Table' = T
  <2>1. T = [k \in Key |-> T[k]]
    OBVIOUS
  <2> HIDE DEF T
  <2> QED
    BY <1>8, <2>1, TableIs
<1> QED
  BY <1>7, <1>9

\* A write to the entry of a key.
LEMMA HitTable ==
  ASSUME ControlInv, HeapOK, KeyUnique, KeyUnique', NEW k \in Key, NEW a \in Matches(k), NEW e,
         e.key = k, heap' = [heap EXCEPT ![a] = e], linked' = linked
  PROVE  Table[k] = View(heap[a]) /\ Table' = [Table EXCEPT ![k] = View(e)]
<1>1. Shows(Table, heap, linked) /\ Shows(Table', heap', linked')
  BY TableShows
<1>2. /\ a \in linked /\ heap[a].key = k /\ a \in Addr /\ heap \in [Addr -> Entry \cup {Free}]
      /\ linked \subseteq Addr
  BY LinkedViews DEF Matches, HeapOK
<1>3. heap'[a] = e /\ \A b \in linked: b # a => heap'[b] = heap[b]
  BY <1>2
<1>4. Table[k] = View(heap[a]) /\ Table'[k] = View(e)
  BY <1>1, <1>2, <1>3 DEF Shows
<1>5. ASSUME NEW j \in Key, j # k
      PROVE  Table'[j] = Table[j]
  BY <1>1, <1>2, <1>3, <1>5 DEF Shows
<1> DEFINE T == [Table EXCEPT ![k] = View(e)]
<1>6. T = [j \in Key |-> T[j]] /\ \A j \in Key: Table'[j] = T[j]
  <2>1. DOMAIN Table = Key
    BY DEF Table
  <2>2. T = [j \in Key |-> IF j = k THEN View(e) ELSE Table[j]]
    BY <2>1
  <2> HIDE DEF T
  <2>3. T[k] = View(e) /\ \A j \in Key: j # k => T[j] = Table[j]
    BY <2>2
  <2>4. T = [j \in Key |-> T[j]]
    BY <2>2
  <2> QED
    BY <1>4, <1>5, <2>3, <2>4
<1> HIDE DEF T
<1>7. Table' = T
  BY <1>6, TableIs
<1> QED
  BY <1>4, <1>7 DEF T

\* A deletion.
LEMMA DeleteTable ==
  ASSUME ControlInv, HeapOK, KeyUnique, KeyUnique', NEW p \in Proc, Delete(p)
  PROVE  Table' = [Table EXCEPT ![args[p].key] = Absent]
<1> DEFINE key == args[p].key
           T == [Table EXCEPT ![key] = Absent]
<1>1. Shows(Table, heap, linked) /\ Shows(Table', heap', linked') /\ key \in Key
  BY TableShows DEF ControlInv, ControlTypeOK, Args
<1>2. ASSUME NEW k \in Key
      PROVE  Table'[k] = T[k]
  <2>1. CASE Matches(key) = {} /\ UNCHANGED <<heap, linked>>
    BY <1>1, <2>1 DEF Shows, Matches, Table
  <2>2. ASSUME NEW a \in Matches(key), heap' = HeapRemove(heap, {a}), linked' = linked \ {a}
        PROVE  Table'[k] = T[k]
    <3>1. a \in linked /\ heap[a].key = key /\ {a} \subseteq linked
      BY DEF Matches
    <3>2. \A b \in linked': b \in linked /\ b # a /\ heap'[b] = heap[b]
      BY <2>2, <3>1, SlotsKept
    <3>3. CASE k = key
      <4>1. \A b \in linked': heap'[b].key # k
        BY <3>1, <3>2, <3>3 DEF KeyUnique
      <4> QED
        BY <1>1, <3>3, <4>1 DEF Shows, Table
    <3>4. CASE k # key
      <4>1. \A b \in linked: heap[b].key = k => b \in linked' /\ heap'[b] = heap[b]
        BY <2>2, <3>1, <3>2, <3>4
      <4>2. Table'[k] = Table[k]
        BY <1>1, <3>2, <4>1 DEF Shows
      <4> QED
        BY <3>4, <4>2 DEF Table
    <3> QED
      BY <3>3, <3>4
  <2> QED
    BY <2>1, <2>2 DEF Delete
<1>3. T = [k \in Key |-> T[k]]
  BY DEF Table
<1> HIDE DEF T
<1>4. Table' = T
  BY <1>2, <1>3, TableIs
<1> QED
  BY <1>4 DEF T

\* Defragmentation is invisible.
LEMMA DefragTable ==
  ASSUME ControlInv, HeapOK, KeyUnique, KeyUnique', NEW p \in Proc, ExpungeDefrag(p)
  PROVE  Table' = Table
<1>1. Shows(Table, heap, linked) /\ Shows(Table', heap', linked')
  BY TableShows
<1>2. PICK f \in [Used -> Addr]:
        /\ \A a \in Used: heap'[f[a]] = heap[a]
        /\ linked' = {f[a]: a \in linked}
  BY DefragMap
<1>3. linked \subseteq Used
  BY DEF HeapOK, ListsOK, Listed
<1>4. ASSUME NEW k \in Key
      PROVE  Table'[k] = Table[k]
  <2>1. ASSUME NEW a \in linked, heap[a].key = k
        PROVE  Table'[k] = View(heap[a])
    <3>1. f[a] \in linked' /\ heap'[f[a]] = heap[a]
      BY <1>2, <1>3
    <3> QED
      BY <1>1, <2>1, <3>1 DEF Shows
  <2>2. ASSUME \A a \in linked: heap[a].key # k
        PROVE  Table'[k] = Absent
    <3>1. \A b \in linked': heap'[b].key # k
      BY <1>2, <1>3, <2>2
    <3> QED
      BY <1>1, <3>1 DEF Shows
  <2> QED
    BY <1>1, <2>1, <2>2 DEF Shows
<1>5. Table = [k \in Key |-> Table[k]]
  BY DEF Table
<1> QED
  BY <1>4, <1>5, TableIs

\* So is the end of a reference, a new block, and the end of a refused one.
LEMMA BlockTable ==
  ASSUME ControlInv, HeapOK, KeyUnique, KeyUnique', NEW p \in Proc,
         \/ FetchReturn(p) \/ EntryHitReturn(p) \/ UnwindFetch(p)
         \/ Malloc(p) \/ Release(p) \/ Drop(p)
  PROVE  Table' = Table
<1>1. linked' = linked /\ \A a \in linked: a \in Addr /\ heap[a] \in Entry /\ heap[a] # Free
  BY LinkedViews, FreeAssumption DEF FetchReturn, EntryHitReturn, UnwindFetch, Malloc, Release, Drop
<1>2. heap \in [Addr -> Entry \cup {Free}]
  BY DEF HeapOK
<1>3. ASSUME NEW x, heap' = Decref(heap, x), NEW a \in linked
      PROVE  heap'[a].key = heap[a].key /\ View(heap'[a]) = View(heap[a])
  <2>1. CASE heap[x] # Free /\ x = a
    <3>1. heap'[a] = [heap[a] EXCEPT !.ref = @ - 1]
      BY <1>1, <1>2, <1>3, <2>1 DEF Decref
    <3> QED
      BY <1>1, <3>1 DEF View, Entry
  <2>2. CASE ~(heap[x] # Free /\ x = a)
    <3>1. heap'[a] = heap[a]
      BY <1>1, <1>2, <1>3, <2>2 DEF Decref
    <3> QED
      BY <3>1
  <2> QED
    BY <2>1, <2>2
<1>4. CASE FetchReturn(p) \/ EntryHitReturn(p) \/ UnwindFetch(p) \/ Release(p)
  <2>1. \E x: heap' = Decref(heap, x)
    BY <1>4 DEF FetchReturn, EntryHitReturn, UnwindFetch, Release
  <2> QED
    BY <1>1, <1>3, <2>1, TableKept
<1>5. CASE Malloc(p) \/ Drop(p)
  <2>1. \A a \in linked: heap'[a] = heap[a]
    <3>1. CASE Malloc(p)
      BY <1>1, <1>2, <3>1 DEF Malloc, FreeAddrs
    <3>2. CASE Drop(p)
      <4>1. ptr[p] \notin linked
        BY <3>2 DEF Drop, HeapOK, ListsOK, Listed
      <4> QED
        BY <1>1, <1>2, <3>2, <4>1 DEF Drop
    <3> QED
      BY <1>5, <3>1, <3>2
  <2> QED
    BY <1>1, <2>1, TableKept
<1> QED
  BY <1>4, <1>5

-----------------------------------------------------------------------------
(* Each step is a step of the table, or none *)

\* What a step leaves p to ask for, once its request is answered or given up.
LEMMA Answered ==
  ASSUME ControlInv, NEW p \in Proc, Step(p)
  PROVE  pc'[p] \in {"user", "exit", "bail"} => KV!Done(p)
<1>1. ASSUME pc'[p] \in {"user", "exit", "bail"}
      PROVE  KV!Done(p)
  <2>1. RequestOf(p)' = Idle
    BY <1>1, PendsNext DEF Pends
  <2>2. Requests' = [Requests EXCEPT ![p] = RequestOf(p)']
    BY StepOthers, RequestsStep
  <2> QED
    BY <2>1, <2>2 DEF KV!Done
<1> QED
  BY <1>1

\* A new request, at the time of the call.
LEMMA CallAsks ==
  ASSUME ControlInv, CarryOK, NEW p \in Proc, Call(p) \/ \E v \in Values: GeneratorReturn(p, v)
  PROVE  KV!Ask(p)
<1> USE DEF Goto, shared, history
<1>1. /\ pc \in [Proc -> PCs] /\ args \in [Proc -> Args] /\ args[p] \in Args
      /\ stack[p] \in Seq(Frame)
  BY DEF ControlInv, ControlTypeOK
<1>2. Step(p)
  BY DEF Step, CallbackReturn
<1>3. Requests' = [Requests EXCEPT ![p] = RequestOf(p)']
  BY <1>2, StepOthers, RequestsStep
<1>4. UNCHANGED <<heap, linked, now>> /\ pc[p] = "user"
  BY DEF Call, CallLookup, CallStore, CallUpdate, CallEntry, CallClear, Calls, GeneratorReturn, InCallback
<1>5. Table' = Table
  BY <1>4 DEF Table, Matches
<1>6. Requests[p] = Idle
  BY <1>4, PendsNow DEF Pends, Requests
<1>7. Pends(p)'
  BY PendsNext
<1>8. RequestOf(p)' \in KV!Requested(now)
  <2>1. ASSUME NEW k \in Key, NEW ttl \in Ttls, NEW v \in Values, pc'[p] = "malloc",
               args'[p].key = k, args'[p].val = v, args'[p].ttl = ttl, args'[p].ct = now,
               args'[p].then # "update"
        PROVE  RequestOf(p)' \in KV!Requested(now)
    <3>1. PICK op \in {"put", "add"}:
            RequestOf(p)' = [op |-> op, key |-> k, val |-> v, ttl |-> ttl, t |-> now]
      BY <1>7, <2>1 DEF Pends, Seeding, Allocating, WriteOf
    <3>2. v \in KV!Val
      BY ValueAssumption DEF KV!Val
    <3> QED
      BY <3>1, <3>2 DEF KV!Requested
  <2>2. ASSUME NEW k \in Key, NEW ttl \in Ttls, NEW v \in Values, CallStore(p, k, v, ttl)
        PROVE  RequestOf(p)' \in KV!Requested(now)
    <3>1. PICK op \in {"store", "add"}:
            /\ pc' = [pc EXCEPT ![p] = "malloc"]
            /\ args' = [args EXCEPT ![p] = [NoArgs EXCEPT !.key = k, !.val = v, !.ttl = ttl,
                                                          !.ct = now, !.excl = (op = "add")]]
      BY <2>2 DEF CallStore
    <3>2. args'[p] = [NoArgs EXCEPT !.key = k, !.val = v, !.ttl = ttl, !.ct = now,
                                    !.excl = (op = "add")]
      BY <1>1, <3>1
    <3>3. /\ args'[p].key = k /\ args'[p].val = v /\ args'[p].ttl = ttl /\ args'[p].ct = now
          /\ args'[p].then = "user"
      BY <3>2 DEF NoArgs
    <3> QED
      BY <1>1, <2>1, <3>1, <3>3
  <2>3. ASSUME NEW v \in Values, GeneratorReturn(p, v)
        PROVE  RequestOf(p)' \in KV!Requested(now)
    <3>1. Top(p) \in Frame /\ Top(p).kind = "gen" /\ Top(p).ttl \in Ttls
      <4>1. stack[p] # <<>> /\ Top(p).kind = "gen"
        BY <2>3 DEF GeneratorReturn, InCallback
      <4>2. Len(stack[p]) \in 1..Len(stack[p]) /\ Top(p) \in Frame
        BY <4>1, TopType DEF ControlInv
      <4> QED
        BY <4>1, <4>2 DEF CarryOK, FramesOK, Top
    <3>2. Top(p).key \in Key
      BY <3>1, GenType
    <3>3. /\ pc'[p] = "malloc"
          /\ args'[p] = [NoArgs EXCEPT !.key = Top(p).key, !.val = v, !.ttl = Top(p).ttl,
                                       !.ct = now, !.excl = TRUE, !.then = "exit"]
      BY <1>1, <2>3 DEF GeneratorReturn
    <3>4. /\ args'[p].key = Top(p).key /\ args'[p].val = v /\ args'[p].ttl = Top(p).ttl
          /\ args'[p].ct = now /\ args'[p].then = "exit"
      BY <3>3 DEF NoArgs
    <3> QED
      BY <2>1, <3>1, <3>2, <3>3, <3>4
  <2>4. ASSUME NEW k \in Key, CallLookup(p, k)
        PROVE  RequestOf(p)' \in KV!Requested(now)
    <3>1. pc'[p] \in {"fetch", "exists", "delete"} /\ args'[p].key = k /\ args'[p].t = now
      <4>1. /\ pc'[p] \in {"fetch", "exists", "delete"}
            /\ args'[p] = [NoArgs EXCEPT !.key = k, !.t = now]
        BY <1>1, <2>4 DEF CallLookup
      <4> QED
        BY <4>1 DEF NoArgs
    <3>2. RequestOf(p)' \in {[op |-> "read", key |-> k, t |-> now], [op |-> "delete", key |-> k, t |-> now]}
      BY <1>7, <3>1 DEF Pends, ReadOf, DeleteOf
    <3> QED
      BY <3>2 DEF KV!Requested
  <2>5. ASSUME NEW k \in Key, NEW ttl \in Ttls, CallUpdate(p, k, ttl)
        PROVE  RequestOf(p)' \in KV!Requested(now)
    <3>1. pc'[p] = "update" /\ args'[p].key = k /\ args'[p].t = now /\ args'[p].ttl = ttl
      <4>1. /\ pc'[p] = "update"
            /\ args'[p] = [NoArgs EXCEPT !.key = k, !.ttl = ttl, !.t = now, !.insert = TRUE]
        BY <1>1, <2>5 DEF CallUpdate
      <4> QED
        BY <4>1 DEF NoArgs
    <3>2. RequestOf(p)' = [op |-> "inc", key |-> k, ttl |-> ttl, t |-> now]
      BY <1>7, <3>1 DEF Pends, IncOf
    <3> QED
      BY <3>2 DEF KV!Requested
  <2>6. ASSUME NEW k \in Key, NEW ttl \in Ttls, CallEntry(p, k, ttl)
        PROVE  RequestOf(p)' \in KV!Requested(now)
    <3>1. pc'[p] = "entry" /\ args'[p].key = k /\ args'[p].t = now
      BY <1>1, <2>6 DEF CallEntry, NoArgs
    <3>2. RequestOf(p)' = [op |-> "read", key |-> k, t |-> now]
      BY <1>7, <3>1 DEF Pends, ReadOf
    <3> QED
      BY <3>2 DEF KV!Requested
  <2>7. ASSUME CallClear(p)
        PROVE  RequestOf(p)' \in KV!Requested(now)
    <3>1. pc'[p] = "clear"
      BY <1>1, <2>7 DEF CallClear
    <3>2. RequestOf(p)' = [op |-> "clear"]
      BY <1>7, <3>1 DEF Pends
    <3> QED
      BY <3>2 DEF KV!Requested
  <2> QED
    BY <2>2, <2>3, <2>4, <2>5, <2>6, <2>7 DEF Call
<1> QED
  BY <1>3, <1>4, <1>5, <1>6, <1>8 DEF KV!Ask

\* The same request, at another place of the same store.
SameArgs(p) == /\ args'[p].key = args[p].key /\ args'[p].val = args[p].val
               /\ args'[p].ttl = args[p].ttl /\ args'[p].t = args[p].t
               /\ args'[p].ct = args[p].ct /\ args'[p].excl = args[p].excl
               /\ args'[p].then = args[p].then

LEMMA StillAsks ==
  ASSUME ControlInv, NEW p \in Proc, Step(p), SameArgs(p), pc[p] \in Allocating,
         \/ pc'[p] \in Allocating
         \/ Seeding(p) /\ pc'[p] \in {"release", "drop"}
  PROVE  RequestOf(p)' = RequestOf(p) /\ Requests' = Requests
<1>1. RequestOf(p)' = RequestOf(p)
  BY DEF RequestOf, Seeding, Allocating, SameArgs, WriteOf, IncOf
<1>2. Requests' = [Requests EXCEPT ![p] = RequestOf(p)']
  BY StepOthers, RequestsStep
<1> QED
  BY <1>1, <1>2 DEF Requests

\* A store that takes room.
LEMMA ExpungeMakesRoom ==
  ASSUME ControlInv, HeapOK, CarryOK, KeyUnique, KeyUnique', NEW p \in Proc,
         ExpungeAll(p) \/ ExpungeExpired(p) \/ ExpungeShort(p) \/ ExpungeFragmented(p)
  PROVE  KV!MakeRoom(p)
<1> USE DEF Goto
<1>1. Step(p)
  BY DEF Step, Locking, Running
<1>2. /\ pc \in [Proc -> PCs] /\ args \in [Proc -> Args] /\ args[p] \in Args /\ now' = now
  BY <1>1, StepOthers DEF ControlInv, ControlTypeOK
<1>3. SameArgs(p) /\ pc[p] \in Allocating /\ pc'[p] \in Allocating
  <2>1. CASE ExpungeExpired(p)
    BY <1>2, <2>1 DEF ExpungeExpired, SameArgs, Allocating
  <2>2. CASE ExpungeAll(p) \/ ExpungeShort(p) \/ ExpungeFragmented(p)
    BY <1>2, <2>2 DEF ExpungeAll, ExpungeShort, ExpungeFragmented, ExpungeEnd, SameArgs, Allocating, Args
  <2> QED
    BY <2>1, <2>2
<1>4. Requests' = Requests
  BY <1>1, <1>3, StillAsks
<1>5. KV!Writes(p) \/ KV!Asks(p, "inc")
  BY <1>3, Asked
<1>6. Table' \in (UNION {KV!Evicted(Table, t): t \in 0..now}) \cup {[k \in Key |-> Absent]}
  <2>1. CASE ExpungeExpired(p)
    <3>1. args[p].xt \in 0..now
      BY <1>2, <2>1 DEF ExpungeExpired, CarryOK, CarriedOK, Args, ControlInv, ControlTypeOK
    <3>2. Table' \in KV!Evicted(Table, args[p].xt)
      BY <2>1, ExpungeTable
    <3> QED
      BY <3>1, <3>2
  <2>2. CASE ExpungeAll(p) \/ ExpungeShort(p) \/ ExpungeFragmented(p)
    BY <2>2, ExpungeTable
  <2> QED
    BY <2>1, <2>2
<1> QED
  BY <1>2, <1>4, <1>5, <1>6 DEF KV!MakeRoom

\* The steps of a store that change nothing in the table.
LEMMA StoreUnnoticed ==
  ASSUME ControlInv, HeapOK, KeyUnique, KeyUnique', NEW p \in Proc,
         \/ Malloc(p) \/ ReadCleanups(p) \/ ExpungeSkip(p) \/ ExpungeAvail(p)
         \/ ExpungeDefrag(p) \/ ExpungeDone(p)
         \/ MallocFail(p) /\ pc'[p] = "nomem"
  PROVE  UNCHANGED KV!kvars
<1> USE DEF Goto, shared
<1>1. Step(p)
  BY DEF Step, Locking, Running
<1>2. /\ pc \in [Proc -> PCs] /\ args \in [Proc -> Args] /\ args[p] \in Args /\ now' = now
  BY <1>1, StepOthers DEF ControlInv, ControlTypeOK
<1>3. SameArgs(p) /\ pc[p] \in Allocating /\ pc'[p] \in Allocating
  <2>1. CASE Malloc(p) \/ ExpungeSkip(p) \/ ExpungeAvail(p) \/ ExpungeDefrag(p)
    BY <1>2, <2>1 DEF Malloc, ExpungeSkip, ExpungeAvail, ExpungeDefrag, SameArgs, Allocating
  <2>2. CASE ReadCleanups(p) \/ ExpungeDone(p)
    BY <1>2, <2>2 DEF ReadCleanups, ExpungeDone, ExpungeEnd, SameArgs, Allocating, Args
  <2>3. CASE MallocFail(p) /\ pc'[p] = "nomem"
    <3>1. ~Resume(p)
      BY <2>3, ResumeType, <1>2 DEF ControlInv
    <3> QED
      BY <1>2, <2>3, <3>1 DEF MallocFail, SameArgs, Allocating
  <2> QED
    BY <2>1, <2>2, <2>3
<1>4. Requests' = Requests
  BY <1>1, <1>3, StillAsks
<1>5. Table' = Table
  <2>1. CASE Malloc(p)
    BY <2>1, BlockTable
  <2>2. CASE ExpungeDefrag(p)
    BY <2>2, DefragTable
  <2>3. CASE \/ ReadCleanups(p) \/ ExpungeSkip(p) \/ ExpungeAvail(p) \/ ExpungeDone(p)
             \/ MallocFail(p)
    <3>1. UNCHANGED <<heap, linked>>
      BY <2>3 DEF ReadCleanups, ExpungeSkip, ExpungeAvail, ExpungeDone, MallocFail
    <3> QED
      BY <3>1 DEF Table, Matches
  <2> QED
    BY <2>1, <2>2, <2>3
<1> QED
  BY <1>2, <1>4, <1>5 DEF KV!kvars

\* An insertion is a write, or the missing key of an increment.
LEMMA InsertSimulated ==
  ASSUME ControlInv, HeapOK, CarryOK, Timely, KeyUnique, KeyUnique', NEW p \in Proc, Insert(p)
  PROVE  KV!Write(p) \/ KV!Seed(p)
<1> DEFINE key == args[p].key
           ct == args[p].ct
<1>1. Step(p)
  BY DEF Step, Locking
<1>2. /\ pc[p] = "insert" /\ pc'[p] = "release" /\ args' = args /\ now' = now
      /\ key \in Key /\ args[p].t \in Nat /\ ct \in Nat /\ now \in Nat
  BY DEF Insert, Goto, ControlInv, ControlTypeOK, Args
<1>3. PICK tab \in KV!Evicted(Table, ct):
        Table' = [tab EXCEPT ![key] = KV!Fresh(args[p].val, args[p].ttl, ct)]
  BY InsertTable DEF CarryOK
<1>4. args[p].excl => KV!Missing(key, ct)
  BY <1>2, MissingNotFound DEF Insert, Refused
<1>5. Requests[p] = RequestOf(p) /\ Requests' = [Requests EXCEPT ![p] = RequestOf(p)']
  BY <1>1, StepOthers, RequestsStep DEF Requests
<1>6. pc[p] \in Allocating
  BY <1>2 DEF Allocating
<1>7. CASE ~Seeding(p)
  <2>1. Requests[p] = WriteOf(args[p]) /\ KV!Writes(p)
    BY <1>5, <1>6, <1>7, PendsNow, Asked DEF Pends
  <2>2. /\ Requests[p].key = key /\ Requests[p].t = ct /\ Requests[p].val = args[p].val
        /\ Requests[p].ttl = args[p].ttl /\ (Requests[p].op = "add" => args[p].excl)
    BY <2>1 DEF WriteOf
  <2>3. RequestOf(p)' = Accepted
    <3>1. ~Seeding(p)'
      BY <1>2, <1>6, <1>7 DEF Seeding
    <3> QED
      BY <1>2, <3>1, PendsNext DEF Pends
  <2> QED
    BY <1>2, <1>3, <1>4, <1>5, <2>1, <2>2, <2>3 DEF KV!Write
<1>8. CASE Seeding(p)
  <2>1. Requests[p] = IncOf(args[p]) /\ KV!Asks(p, "inc")
    BY <1>5, <1>8, PendsNow, Asked DEF Pends
  <2>2. /\ Requests[p].key = key /\ Requests[p].t = args[p].t /\ Requests[p].ttl = args[p].ttl
    BY <2>1 DEF IncOf
  <2>3. args[p].val = 0 /\ args[p].excl /\ ct \in args[p].t..now
    BY <1>2, <1>8 DEF CarryOK, CarriedOK
  <2>4. Requests' = Requests
    BY <1>1, <1>2, <1>6, <1>8, StillAsks DEF SameArgs
  <2> QED
    BY <1>2, <1>3, <1>4, <2>1, <2>2, <2>3, <2>4 DEF KV!Seed
<1> QED
  BY <1>7, <1>8

\* A refused insertion is a refused add; that of an increment removes what is stale.
LEMMA RefusalSimulated ==
  ASSUME ControlInv, HeapOK, CarryOK, KeyUnique, KeyUnique', NEW p \in Proc, InsertRefused(p)
  PROVE  KV!Refuse(p) \/ KV!MakeRoom(p)
<1> DEFINE key == args[p].key
           ct == args[p].ct
<1>1. Step(p)
  BY DEF Step, Locking
<1>2. /\ pc[p] = "insert" /\ pc'[p] = "drop" /\ args' = args /\ now' = now
      /\ key \in Key /\ ct \in Nat /\ now \in Nat
  BY DEF InsertRefused, Goto, ControlInv, ControlTypeOK, Args
<1>3. Table' \in KV!Evicted(Table, ct)
  BY RefusedTable
<1>4. args[p].excl /\ ~KV!Missing(key, ct)
  BY <1>2, MissingNotFound DEF InsertRefused, Refused
<1>5. Requests[p] = RequestOf(p) /\ Requests' = [Requests EXCEPT ![p] = RequestOf(p)']
  BY <1>1, StepOthers, RequestsStep DEF Requests
<1>6. pc[p] \in Allocating
  BY <1>2 DEF Allocating
<1>7. CASE ~Seeding(p)
  <2>1. Requests[p] = WriteOf(args[p]) /\ KV!Asks(p, "add")
    BY <1>4, <1>5, <1>6, <1>7, PendsNow, Asked DEF Pends
  <2>2. Requests[p].key = key /\ Requests[p].t = ct
    BY <2>1 DEF WriteOf
  <2>3. RequestOf(p)' = Rejected
    <3>1. ~Seeding(p)'
      BY <1>2, <1>6, <1>7 DEF Seeding
    <3> QED
      BY <1>2, <3>1, PendsNext DEF Pends
  <2> QED
    BY <1>2, <1>3, <1>4, <1>5, <2>1, <2>2, <2>3 DEF KV!Refuse
<1>8. CASE Seeding(p)
  <2>1. KV!Asks(p, "inc")
    BY <1>8, Asked
  <2>2. ct \in 0..now
    BY <1>2, <1>8 DEF CarryOK, CarriedOK
  <2>3. Requests' = Requests
    BY <1>1, <1>2, <1>6, <1>8, StillAsks DEF SameArgs
  <2> QED
    BY <1>2, <1>3, <2>1, <2>2, <2>3 DEF KV!MakeRoom
<1> QED
  BY <1>7, <1>8

\* Where a store resumes, an increment is still pending, and any other request is not.
LEMMA ResumeAsks ==
  ASSUME ControlInv, NEW p \in Proc, Step(p), Resume(p), pc[p] \in {"malloc", "release", "drop"}
  PROVE  /\ Seeding(p) => Requests' = Requests
         /\ ~Seeding(p) => KV!Done(p)
<1>1. /\ pc'[p] = args[p].then /\ args[p] \in Args
      /\ args'[p] = IF args[p].then = "update"
                      THEN [args[p] EXCEPT !.nuked = FALSE, !.then = "user"] ELSE NoArgs
  BY DEF Resume, Goto, ControlInv, ControlTypeOK
<1>2. Requests' = [Requests EXCEPT ![p] = RequestOf(p)']
  BY StepOthers, RequestsStep
<1>3. CASE Seeding(p)
  <2>1. args[p].then = "update" /\ pc'[p] = "update"
    BY <1>1, <1>3 DEF Seeding
  <2>2. /\ args'[p].key = args[p].key /\ args'[p].ttl = args[p].ttl /\ args'[p].t = args[p].t
    BY <1>1, <2>1 DEF Args
  <2>3. RequestOf(p) = IncOf(args[p]) /\ RequestOf(p)' = IncOf(args'[p])
    BY <1>3, <2>1, PendsNow, PendsNext DEF Pends
  <2>4. RequestOf(p)' = RequestOf(p)
    BY <2>2, <2>3 DEF IncOf
  <2> QED
    BY <1>2, <1>3, <2>4 DEF Requests
<1>4. CASE ~Seeding(p)
  <2>1. args[p].then \in {"user", "exit"}
    BY <1>1, <1>4 DEF Seeding, Allocating, Args
  <2> QED
    BY <1>1, <1>4, <2>1, Answered
<1> QED
  BY <1>3, <1>4

\* The end of a store is the answer to a write, or the middle of an increment.
LEMMA ReturnSimulated ==
  ASSUME ControlInv, HeapOK, KeyUnique, KeyUnique', NEW p \in Proc,
         \/ Release(p) \/ Drop(p)
         \/ MallocFail(p) /\ Resume(p)
  PROVE  KV!Return(p) \/ KV!GiveUp(p) \/ UNCHANGED KV!kvars
<1>1. Step(p) /\ Resume(p) /\ pc[p] \in {"malloc", "release", "drop"}
  BY DEF Step, Running, Release, Drop, MallocFail
<1>2. now' = now
  BY <1>1, StepOthers
<1>3. Table' = Table
  <2>1. CASE Release(p) \/ Drop(p)
    BY <2>1, BlockTable
  <2>2. CASE MallocFail(p)
    BY <2>2 DEF MallocFail, shared, Table, Matches
  <2> QED
    BY <2>1, <2>2
<1>4. CASE Seeding(p)
  BY <1>1, <1>2, <1>3, <1>4, ResumeAsks DEF KV!kvars
<1>5. CASE ~Seeding(p) /\ pc[p] \in {"release", "drop"}
  <2>1. Requests[p] \in {Accepted, Rejected}
    BY <1>5, PendsNow DEF Pends, Requests
  <2> QED
    BY <1>1, <1>2, <1>3, <1>5, <2>1, ResumeAsks DEF KV!Return
<1>6. CASE ~Seeding(p) /\ pc[p] = "malloc"
  <2>1. KV!Writes(p)
    BY <1>6, Asked DEF Allocating
  <2> QED
    BY <1>1, <1>2, <1>3, <1>6, <2>1, ResumeAsks DEF KV!GiveUp
<1> QED
  BY <1>1, <1>4, <1>5, <1>6

\* A hit of a lookup.
LEMMA HitSimulated ==
  ASSUME ControlInv, HeapOK, KeyUnique, KeyUnique', NEW p \in Proc,
         FetchHit(p) \/ ExistsHit(p) \/ EntryHit(p)
  PROVE  KV!ReadHit(p)
<1> DEFINE key == args[p].key
           t == args[p].t
<1>1. Step(p) /\ pc[p] \in {"fetch", "exists", "entry"} /\ pc'[p] = "user"
  BY DEF Step, Locking, FetchHit, ExistsHit, EntryHit, Return, Goto, ControlInv, ControlTypeOK
<1>2. PICK a \in Found(key, t), pins \in {0, 1}: heap' = Touched(heap, a, t, pins)
  BY DEF FetchHit, ExistsHit, EntryHit
<1>3. /\ a \in Matches(key) /\ a \in linked /\ heap[a].key = key /\ key \in Key
      /\ linked' = linked /\ now' = now /\ heap \in [Addr -> Entry \cup {Free}]
      /\ a \in Addr /\ heap[a] \in Entry
  BY LinkedViews DEF Found, Matches, ControlInv, ControlTypeOK, Args, FetchHit, ExistsHit,
     EntryHit, HeapOK
<1> DEFINE f == [heap[a] EXCEPT !.atime = t]
           e == [f EXCEPT !.ref = heap[a].ref + pins]
<1>4. heap' = [heap EXCEPT ![a] = e]
  BY <1>2, <1>3 DEF Touched
<1>5. /\ f.key = key /\ f.val = heap[a].val /\ f.ttl = heap[a].ttl /\ f.ctime = heap[a].ctime
      /\ f.atime = t
      /\ f \in [key: Key, val: Val, ttl: Nat, ref: Int, ctime: Nat, atime: Nat, dtime: Nat]
  BY <1>3 DEF Entry, ControlInv, ControlTypeOK, Args
<1>6. e.key = key /\ View(e) = [View(heap[a]) EXCEPT !.atime = t]
  <2> HIDE DEF f
  <2> QED
    BY <1>5 DEF View
<1>7. Table[key] = View(heap[a]) /\ Table' = [Table EXCEPT ![key] = View(e)]
  <2>1. e.key = key /\ heap' = [heap EXCEPT ![a] = e] /\ linked' = linked
    BY <1>3, <1>4, <1>6
  <2>2. key \in Key /\ a \in Matches(key)
    BY <1>3
  <2> HIDE DEF e, f, key, t
  <2> QED
    BY <2>1, <2>2, HitTable
<1>8. Requests[p] = ReadOf(args[p]) /\ KV!Asks(p, "read")
  BY <1>1, PendsNow, Asked DEF Pends
<1>9. Requests[p].key = key /\ Requests[p].t = t
  BY <1>8 DEF ReadOf
<1>10. ~KV!Missing(key, t)
  BY <1>2, <1>3, MissingNotFound
<1>11. KV!Done(p)
  BY <1>1, Answered
<1>12. Table' = [Table EXCEPT ![key].atime = t]
  <2> HIDE DEF e
  <2> QED
    BY <1>6, <1>7
<1> QED
  BY <1>3, <1>8, <1>9, <1>10, <1>11, <1>12 DEF KV!ReadHit

\* A hit of an increment.
LEMMA BumpSimulated ==
  ASSUME ControlInv, HeapOK, KeyUnique, KeyUnique', NEW p \in Proc, UpdateHit(p)
  PROVE  KV!Bump(p)
<1> DEFINE key == args[p].key
           t == args[p].t
<1>1. Step(p) /\ pc[p] = "update" /\ pc'[p] = "user"
  BY DEF Step, Locking, UpdateHit, Return, Goto, ControlInv, ControlTypeOK
<1>2. PICK a \in Found(key, t): heap' = [heap EXCEPT ![a].val = Incremented(@)]
  BY DEF UpdateHit
<1>3. /\ a \in Matches(key) /\ a \in linked /\ heap[a].key = key /\ key \in Key
      /\ linked' = linked /\ now' = now /\ heap \in [Addr -> Entry \cup {Free}]
      /\ a \in Addr /\ heap[a] \in Entry
  BY LinkedViews DEF Found, Matches, ControlInv, ControlTypeOK, Args, UpdateHit, HeapOK
<1> DEFINE v == heap[a].val
           w == Incremented(v)
           e == [heap[a] EXCEPT !.val = w]
<1>4. heap' = [heap EXCEPT ![a] = e]
  BY <1>2, <1>3
<1>5. w = IF v = Str THEN Str ELSE IF v = MaxLong THEN 0 ELSE v + 1
  <2>1. v \in (0..MaxLong) \cup {Str} /\ MaxLong \in Nat
    BY <1>3, ValueAssumption DEF Entry, Val
  <2> QED
    BY <2>1 DEF Incremented
<1>6. e.key = key /\ View(e) = [View(heap[a]) EXCEPT !.val = w]
  <2> HIDE DEF w
  <2> QED
    BY <1>3 DEF View, Entry
<1>7. Table[key] = View(heap[a]) /\ Table' = [Table EXCEPT ![key] = View(e)]
  <2> HIDE DEF e
  <2>1. a \in Matches(key) /\ key \in Key /\ e.key = key
    BY <1>3, <1>6
  <2>2. heap' = [heap EXCEPT ![a] = e] /\ linked' = linked
    BY <1>3, <1>4
  <2> QED
    BY <2>1, <2>2, HitTable
<1>8. Requests[p] = IncOf(args[p]) /\ KV!Asks(p, "inc")
  BY <1>1, PendsNow, Asked DEF Pends
<1>9. Requests[p].key = key /\ Requests[p].t = t
  BY <1>8 DEF IncOf
<1>10. ~KV!Missing(key, t)
  BY <1>2, <1>3, MissingNotFound
<1>11. KV!Done(p)
  BY <1>1, Answered
<1>12. Table[key].val = v
  BY <1>7 DEF View
<1>13. Table' = [Table EXCEPT ![key].val = w]
  <2> HIDE DEF e, w
  <2> QED
    BY <1>6, <1>7
<1>14. Table' = [Table EXCEPT ![key].val =
                   IF @ = Str THEN Str ELSE IF @ = MaxLong THEN 0 ELSE @ + 1]
  <2> HIDE DEF w, v
  <2> QED
    BY <1>5, <1>12, <1>13
<1> QED
  BY <1>3, <1>8, <1>9, <1>10, <1>11, <1>14 DEF KV!Bump

\* A lookup that finds nothing, and an increment that ends with nothing.
LEMMA MissSimulated ==
  ASSUME ControlInv, HeapOK, KeyUnique, NEW p \in Proc
  PROVE  /\ LookupMiss(p) \/ EntryMiss(p) => KV!ReadMiss(p)
         /\ UpdateMiss(p) => KV!GiveUp(p)
         /\ UpdateInsert(p) => UNCHANGED KV!kvars
<1> USE DEF Goto, shared
<1> DEFINE key == args[p].key
           t == args[p].t
<1>1. /\ pc \in [Proc -> PCs] /\ args \in [Proc -> Args] /\ args[p] \in Args /\ key \in Key
  BY DEF ControlInv, ControlTypeOK, Args
<1>2. ASSUME UNCHANGED <<heap, linked>>
      PROVE  Table' = Table
  BY <1>2 DEF Table, Matches
<1>3. ASSUME LookupMiss(p) \/ EntryMiss(p)
      PROVE  KV!ReadMiss(p)
  <2>1. /\ Step(p) /\ pc[p] \in {"fetch", "exists", "entry"} /\ pc'[p] = "user"
        /\ UNCHANGED <<heap, linked, now>> /\ Found(key, t) = {}
    BY <1>1, <1>3 DEF Step, Locking, LookupMiss, EntryMiss, Return, Miss
  <2>2. Requests[p] = ReadOf(args[p]) /\ KV!Asks(p, "read")
    BY <2>1, PendsNow, Asked DEF Pends
  <2>3. Requests[p].key = key /\ Requests[p].t = t
    BY <2>2 DEF ReadOf
  <2>4. KV!Missing(key, t)
    BY <1>1, <2>1, MissingNotFound
  <2>5. KV!Done(p) /\ Table' = Table
    BY <1>2, <2>1, Answered
  <2> QED
    BY <2>1, <2>2, <2>3, <2>4, <2>5 DEF KV!ReadMiss
<1>4. ASSUME UpdateMiss(p)
      PROVE  KV!GiveUp(p)
  <2>1. /\ Step(p) /\ pc[p] = "update" /\ pc'[p] = "user" /\ UNCHANGED <<heap, linked, now>>
    BY <1>1, <1>4 DEF Step, Locking, UpdateMiss, Return
  <2>2. KV!Asks(p, "inc") /\ KV!Done(p) /\ Table' = Table
    BY <1>2, <2>1, Asked, Answered
  <2> QED
    BY <2>1, <2>2 DEF KV!GiveUp
<1>5. ASSUME UpdateInsert(p)
      PROVE  UNCHANGED KV!kvars
  <2>1. /\ Step(p) /\ pc[p] = "update" /\ pc'[p] = "malloc" /\ UNCHANGED <<heap, linked, now>>
        /\ args'[p].then = "update" /\ args'[p].key = key /\ args'[p].t = t
        /\ args'[p].ttl = args[p].ttl
    BY <1>1, <1>5 DEF Step, Locking, UpdateInsert, Args
  <2>2. RequestOf(p) = IncOf(args[p])
    BY <2>1, PendsNow DEF Pends
  <2>3. RequestOf(p)' = IncOf(args'[p])
    BY <2>1, PendsNext DEF Pends, Seeding, Allocating
  <2>4. RequestOf(p)' = RequestOf(p)
    BY <2>1, <2>2, <2>3 DEF IncOf
  <2> QED
    BY <1>2, <2>1, <2>4, StepOthers, Unnoticed
<1> QED
  BY <1>3, <1>4, <1>5

\* A deletion, a clear.
LEMMA RemovalSimulated ==
  ASSUME ControlInv, HeapOK, KeyUnique, KeyUnique', NEW p \in Proc
  PROVE  /\ Delete(p) => KV!Remove(p)
         /\ Clear(p) => KV!Wipe(p)
<1> USE DEF Goto
<1>1. pc \in [Proc -> PCs]
  BY DEF ControlInv, ControlTypeOK
<1>2. ASSUME Delete(p)
      PROVE  KV!Remove(p)
  <2>1. Step(p) /\ pc[p] = "delete" /\ pc'[p] = "user" /\ now' = now
    BY <1>1, <1>2 DEF Step, Locking, Delete, Return
  <2>2. Requests[p] = DeleteOf(args[p]) /\ KV!Asks(p, "delete") /\ KV!Done(p)
    BY <2>1, PendsNow, Asked, Answered DEF Pends
  <2>3. Requests[p].key = args[p].key
    BY <2>2 DEF DeleteOf
  <2>4. Table' = [Table EXCEPT ![args[p].key] = Absent]
    BY <1>2, DeleteTable
  <2> QED
    BY <2>1, <2>2, <2>3, <2>4 DEF KV!Remove
<1>3. ASSUME Clear(p)
      PROVE  KV!Wipe(p)
  <2>1. Step(p) /\ pc[p] = "clear" /\ pc'[p] = "user" /\ now' = now
    BY <1>1, <1>3 DEF Step, Locking, Clear
  <2>2. KV!Asks(p, "clear") /\ KV!Done(p)
    BY <2>1, Asked, Answered
  <2>3. Table' = [k \in Key |-> Absent]
    BY <1>3, ExpungeTable
  <2> QED
    BY <2>1, <2>2, <2>3 DEF KV!Wipe
<1> QED
  BY <1>2, <1>3

\* A request that ends while it copies its value gives up.
LEMMA PersistSimulated ==
  ASSUME ControlInv, NEW p \in Proc, PersistBailout(p)
  PROVE  KV!GiveUp(p)
<1>1. /\ Step(p) /\ pc[p] = "insert" /\ pc'[p] = "bail" /\ UNCHANGED <<heap, linked, now>>
  BY DEF Step, Fail, PersistBailout, Goto, shared, ControlInv, ControlTypeOK
<1>2. KV!Writes(p) \/ KV!Asks(p, "inc")
  BY <1>1, Asked DEF Allocating
<1>3. KV!Done(p) /\ Table' = Table
  BY <1>1, Answered DEF Table, Matches
<1> QED
  BY <1>1, <1>2, <1>3 DEF KV!GiveUp

\* Callbacks end without a request.
LEMMA CallbackUnnoticed ==
  ASSUME ControlInv, HeapOK, KeyUnique, KeyUnique', NEW p \in Proc,
         \/ FetchReturn(p) \/ EntryHitReturn(p) \/ UnwindFetch(p) \/ UnwindEntry(p) \/ Unwound(p)
         \/ EntryExit(p) \/ GeneratorThrow(p) \/ Bailout(p)
  PROVE  UNCHANGED KV!kvars
<1> USE DEF Goto, shared
<1>1. Step(p) /\ pc \in [Proc -> PCs]
  BY DEF Step, Running, CallbackReturn, Fail, ControlInv, ControlTypeOK
<1>2. pc[p] \in {"user", "exit", "bail"} /\ pc'[p] \in {"user", "exit", "bail"}
  BY <1>1 DEF FetchReturn, EntryHitReturn, UnwindFetch, UnwindEntry, Unwound, EntryExit,
     GeneratorThrow, Bailout, InCallback
<1>3. RequestOf(p)' = RequestOf(p)
  BY <1>2, PendsNow, PendsNext DEF Pends
<1>4. Table' = Table
  <2>1. CASE FetchReturn(p) \/ EntryHitReturn(p) \/ UnwindFetch(p)
    BY <2>1, BlockTable
  <2>2. CASE UnwindEntry(p) \/ Unwound(p) \/ EntryExit(p) \/ GeneratorThrow(p) \/ Bailout(p)
    BY <2>2 DEF UnwindEntry, Unwound, EntryExit, GeneratorThrow, Bailout, Table, Matches
  <2> QED
    BY <2>1, <2>2
<1> QED
  BY <1>1, <1>3, <1>4, StepOthers, Unnoticed

\* Every step of p is one of the table's, or none, as long as nobody is killed.
LEMMA StepSimulated ==
  ASSUME ControlInv, HeapOK, CarryOK, Timely, KeyUnique, KeyUnique', "crash" \notin Failures,
         NEW p \in Proc, Step(p)
  PROVE  KV!Next \/ UNCHANGED KV!kvars
<1>1. CASE Call(p) \/ \E v \in Values: GeneratorReturn(p, v)
  BY <1>1, CallAsks DEF KV!Next
<1>2. CASE ExpungeAll(p) \/ ExpungeExpired(p) \/ ExpungeShort(p) \/ ExpungeFragmented(p)
  BY <1>2, ExpungeMakesRoom DEF KV!Next
<1>3. CASE Insert(p) \/ InsertRefused(p)
  BY <1>3, InsertSimulated, RefusalSimulated DEF KV!Next
<1>4. CASE FetchHit(p) \/ ExistsHit(p) \/ EntryHit(p) \/ UpdateHit(p)
  BY <1>4, HitSimulated, BumpSimulated DEF KV!Next
<1>5. CASE LookupMiss(p) \/ EntryMiss(p) \/ UpdateMiss(p) \/ UpdateInsert(p)
  BY <1>5, MissSimulated DEF KV!Next
<1>6. CASE Delete(p) \/ Clear(p)
  BY <1>6, RemovalSimulated DEF KV!Next
<1>7. CASE PersistBailout(p)
  BY <1>7, PersistSimulated DEF KV!Next
<1>8. CASE MallocFail(p)
  <2>1. CASE Resume(p)
    BY <1>8, <2>1, ReturnSimulated DEF KV!Next
  <2>2. CASE ~Resume(p)
    <3>1. pc'[p] = "nomem"
      BY <1>8, <2>2 DEF MallocFail, Goto, ControlInv, ControlTypeOK
    <3> QED
      BY <1>8, <3>1, StoreUnnoticed
  <2> QED
    BY <2>1, <2>2
<1>9. CASE Release(p) \/ Drop(p)
  BY <1>9, ReturnSimulated DEF KV!Next
<1>10. CASE \/ Malloc(p) \/ ReadCleanups(p) \/ ExpungeSkip(p) \/ ExpungeAvail(p)
            \/ ExpungeDefrag(p) \/ ExpungeDone(p)
  BY <1>10, StoreUnnoticed
<1>11. CASE \/ FetchReturn(p) \/ EntryHitReturn(p) \/ UnwindFetch(p) \/ UnwindEntry(p)
            \/ Unwound(p) \/ EntryExit(p) \/ GeneratorThrow(p) \/ Bailout(p)
  BY <1>11, CallbackUnnoticed
<1>12. ~Crash(p)
  BY DEF Crash, FailureOf
<1> QED
  BY <1>1, <1>2, <1>3, <1>4, <1>5, <1>6, <1>7, <1>8, <1>9, <1>10, <1>11, <1>12
  DEF Step, Locking, Running, CallbackReturn, Fail

\* So is every step of the cache.
LEMMA NextSimulated ==
  ASSUME "crash" \notin Failures
  PROVE  MemoryInv /\ IndexOK /\ CarryOK /\ Timely /\ [Next]_vars => [KV!Next]_(KV!kvars)
<1> SUFFICES ASSUME MemoryInv, IndexOK, CarryOK, Timely, [Next]_vars
             PROVE  KV!Next \/ UNCHANGED KV!kvars
  OBVIOUS
<1>1. ControlInv /\ HeapOK /\ KeyUnique /\ KeyUnique'
  BY MemoryParts, NextIndex DEF IndexOK
<1>2. ASSUME NEW p \in Proc, Step(p)
      PROVE  KV!Next \/ UNCHANGED KV!kvars
  BY <1>1, <1>2, StepSimulated
<1>3. CASE Tick \/ UNCHANGED vars
  <2>1. UNCHANGED <<heap, linked, pc, args>>
    BY <1>3 DEF Tick, vars, shared
  <2>2. Table' = Table /\ Requests' = Requests
    BY <2>1 DEF Table, Matches, Requests, RequestOf, Seeding, Allocating
  <2>3. KV!Tick \/ now' = now
    BY <1>3, <2>2 DEF Tick, KV!Tick, vars
  <2> QED
    BY <2>2, <2>3 DEF KV!Next, KV!kvars
<1> QED
  BY <1>2, <1>3 DEF Next, Step

\* An empty cache is an empty table.
LEMMA InitSimulated == Init => KV!Init
<1> SUFFICES ASSUME Init PROVE KV!Init
  OBVIOUS
<1>1. Table = [k \in Key |-> Absent]
  BY DEF Init, Table, Matches
<1>2. Requests = [p \in Proc |-> Idle]
  BY DEF Init, Requests, RequestOf, Seeding, Allocating
<1> QED
  BY <1>1, <1>2 DEF Init, KV!Init

-----------------------------------------------------------------------------
(* Theorem *)

\* As long as no process is killed, and running code gives back within gc_ttl what it holds
\* of removed entries, the operations of the cache are those of a table: each takes effect
\* at once and at most once, with its own arguments, and an entry vanishes only by a
\* delete, a replacement, its expiry, a clear, or the wipe of an expunge
\* (apc_cache_default_expunge).
THEOREM CacheImplementsTable == "crash" \notin Failures => (Spec => ([]Timely => ImplementsTable))
<1> SUFFICES ASSUME "crash" \notin Failures
             PROVE  Spec => ([]Timely => ImplementsTable)
  OBVIOUS
<1>1. MemoryInv /\ IndexOK /\ CarryOK /\ Timely /\ [Next]_vars => (MemoryInv /\ IndexOK /\ CarryOK)'
  BY NextMemory, NextIndex, NextCarry
<1>2. Init => MemoryInv /\ IndexOK /\ CarryOK
  BY InitMemory, InitIndex, InitCarry
<1>3. MemoryInv /\ IndexOK /\ CarryOK /\ Timely /\ [Next]_vars => [KV!Next]_(KV!kvars)
  BY NextSimulated
<1>4. Init => KV!Init
  BY InitSimulated
<1> QED
  BY <1>1, <1>2, <1>3, <1>4, PTL DEF Spec, ImplementsTable, KV!Spec

=============================================================================

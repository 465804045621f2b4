----------------------------- MODULE ApcPersist -----------------------------
(***************************************************************************)
(* How a PHP value gets into the shared segment and out of it again        *)
(* (apc_persist.c), and which serializer does it (apc.c, php_apc.c).       *)
(*                                                                         *)
(* A value is a graph of refcounted structures in request memory.  One     *)
(* pass over it adds up the size of the block, a second one copies it into *)
(* the block and turns its pointers into offsets, because every process    *)
(* maps the segment at an address of its own and the defragmentation moves *)
(* blocks.  A fetch makes a new graph in request memory from the block.    *)
(*                                                                         *)
(* The code goes over a value by recursion.  Here each pass takes one step *)
(* for each zval it meets, in the same order: what the recursion has yet   *)
(* to come back to is in todo, the next zval in front.                     *)
(*                                                                         *)
(* A zval is a record [type, p]: p is the address of what it points to.    *)
(* Sizes are in words of eight bytes, as on a 64 bit build of PHP 8.2.     *)
(***************************************************************************)
EXTENDS Integers, Sequences, FiniteSets

CONSTANTS
  Cases,       \* the inputs: a value in request memory, apc.serializer, other extensions
  Keys,        \* the string keys of arrays
  Bases,       \* where the segment's block may be mapped or moved to
  EntrySize,   \* APC_ENTRY_SIZE of the key
  MaxLong,     \* ZEND_LONG_MAX
  None,        \* no string key, no serializer, no text
  Php,         \* the name of the built-in serializer
  External     \* the name of a serializer another extension registers

\* Types below IS_STRING have no data apart from the zval.
Flat(z) == z.type \in {"undef", "long"}

HtSize == 7
RefSize == 4
StrSize(len) == 3 + (len + 1 + 7) \div 8
DataSize(packed, used) == IF packed THEN 1 + 2 * used ELSE 4 + 4 * used
KeyLen == 2
SerLen == 9          \* of a serialized value
EmptyArray == -1     \* the immutable zend_empty_array of a process

\* A structure in request memory or in the segment, with the fields of all kinds.  len is
\* the length of a string and mem_size of an entry; els has the buckets of an array (in the
\* segment, of its data) and the one zval of a reference, an entry or a variable.
Blank == [kind |-> "zval", rc |-> 1, len |-> 0, text |-> None, packed |-> FALSE, next |-> 0,
          pos |-> 0, static |-> TRUE, data |-> 0, els |-> << >>]
Bucket(z) == [h |-> 0, key |-> None, val |-> z]

\* The elements that are not IS_UNDEF; nNumOfElements is their number.
Elements(els) == {i \in DOMAIN els: els[i].val.type # "undef"}
\* The index of an element without string key.
Index(ht, i) == IF ht.packed THEN i - 1 ELSE ht.els[i].h

\* A value: the variable that has it, at 0, and the structures it leads to.
Zvals(m) ==
  [type: {"undef", "long", "indirect"}, p: {0}] \cup
  {[type |-> m[p].kind, p |-> p]: p \in DOMAIN m \ {0}}
Buckets(m) == [h: (-MaxLong - 1)..MaxLong, key: Keys \cup {None}, val: Zvals(m)]
IsValue(m) ==
  /\ IsFiniteSet(DOMAIN m) /\ DOMAIN m \subseteq Nat /\ 0 \in DOMAIN m
  /\ \A p \in DOMAIN m:
       /\ m[p].kind \in {"zval", "str", "arr", "ref", "obj", "res"} /\ (m[p].kind = "zval" <=> p = 0)
       /\ m[p].len \in Nat /\ m[p].packed \in BOOLEAN
       /\ m[p].els \in Seq(Buckets(m)) /\ Len(m[p].els) <= MaxLong
       /\ m[p].kind \in {"zval", "ref"} =>
            /\ Len(m[p].els) = 1 /\ m[p].els[1].key = None
            /\ m[p].els[1].val.type \notin {"ref", "indirect"}
       /\ m[p].kind \in {"str", "obj", "res"} => m[p].els = << >>
       /\ m[p].packed => /\ m[p].kind = "arr"
                         /\ \A i \in DOMAIN m[p].els:
                              m[p].els[i].key = None /\ m[p].els[i].val.type # "indirect"

ASSUME CaseAssumption ==
  \A c \in Cases:
    IsValue(c.mem) /\ c.name \in {None, Php, External} /\ c.extensions \subseteq {External}
ASSUME BaseAssumption == Bases \subseteq Nat \ {0} /\ Bases # {}
ASSUME SizeAssumption == EntrySize \in Nat \ {0} /\ MaxLong \in Nat \ {0}
ASSUME NameAssumption == None \notin Nat \cup Keys \cup {Php, External} /\ Php # External

VARIABLES
  input,       \* the value to store, the configured serializer, the other extensions
  booting,     \* between MINIT and the first RINIT
  registered,  \* the names in apc_serializers[]
  serializer,  \* cache->serializer
  phase,       \* where the operation on the value is
  ctx,         \* apc_persist_context_t, apc_unpersist_context_t
  todo,        \* the zvals the pass has yet to come to: <<address, index>>
  alloc,       \* the address of the entry in this process
  shm,         \* the words of the block: address to structure
  mem,         \* what a fetch makes in request memory, with its result at 0
  early        \* history: the block was written while booting

vars == <<input, booting, registered, serializer, phase, ctx, todo, alloc, shm, mem, early>>
setup == <<input, booting, registered, serializer, early>>

Nothing == [a \in {} |-> Blank]
Put(f, a, x) == [b \in DOMAIN f \cup {a} |-> IF b = a THEN x ELSE f[b]]

\* The zval to come to now, with its bucket.
Item == Head(todo)
Here(m) == m[Item[1]].els[Item[2]]
Each(a, els) == [i \in DOMAIN els |-> <<a, i>>]

\* apc_persist_init_context; memo and ser are memoization_needed and use_serialization,
\* done is already_allocated of a store, already_copied of a fetch.
Context(memo, ser) ==
  [memo |-> memo, ser |-> ser, size |-> 0, counted |-> {}, str |-> None, cur |-> 0, done |-> Nothing]

-----------------------------------------------------------------------------
(* The first pass: apc_persist_calc *)

Calculating == phase \in {"calc", "recalc"} /\ todo # << >>

AddSize(c, n) == [c EXCEPT !.size = @ + n]

\* Without a serializer the built-in one is used.
Format == IF serializer = None THEN Php ELSE serializer

\* Faulty variant: keys of a hash are taken to be shared.
CalcKeyShared(c, key) == c
\* String keys are counted each time, and copied each time.
CalcKey(c, key) == IF key = None THEN c ELSE AddSize(c, StrSize(KeyLen))

\* Without memoization the table is not looked at.
CalcMemoize(c, p) == [c EXCEPT !.counted = @ \cup {p}]
AlreadyCounted(p) == ctx.memo /\ p \in ctx.counted

\* What a structure takes in the block, without what it leads to.
Weight(s) ==
  CASE s.kind = "str" -> StrSize(s.len)
    [] s.kind = "arr" -> IF Elements(s.els) = {} THEN 0
                         ELSE HtSize + DataSize(s.packed, Len(s.els))
    [] s.kind = "ref" -> RefSize
\* What the passes go on with behind it.
Inside(s) == IF s.kind = "arr" /\ Elements(s.els) = {} THEN << >> ELSE s.els

CalcNext(c, more) ==
  /\ ctx' = c
  /\ todo' = more \o Tail(todo)
  /\ UNCHANGED <<setup, phase, alloc, shm, mem>>

\* A zval that cannot be stored ends the pass; with serialization there is a second try.
CalcFail(c) ==
  /\ ctx' = c
  /\ todo' = << >>
  /\ phase' = IF phase = "calc" /\ c.ser THEN "again" ELSE "failed"
  /\ UNCHANGED <<setup, alloc, shm, mem>>

CalcFlat ==
  /\ Calculating
  /\ LET e == Here(input.mem) IN
     /\ Flat(e.val)
     /\ CalcNext(IF e.val.type = "undef" THEN ctx ELSE CalcKey(ctx, e.key), << >>)

\* $GLOBALS: fall back to serialization.
CalcIndirect ==
  /\ Calculating /\ Here(input.mem).val.type = "indirect"
  /\ CalcFail([ctx EXCEPT !.ser = TRUE])

\* apc_persist_calc_serialize, of the value as a whole; the serializer may fail.
CalcSerialize ==
  /\ Calculating /\ ctx.ser
  /\ LET z == Here(input.mem).val IN
     /\ ~Flat(z)
     /\ \/ CalcNext(AddSize([ctx EXCEPT !.str = [by |-> Format, of |-> z]], StrSize(SerLen)), << >>)
        \/ CalcFail(ctx)

\* A structure that was counted before.
CalcAgain ==
  /\ Calculating /\ ~ctx.ser
  /\ LET e == Here(input.mem) IN
     /\ ~Flat(e.val) /\ AlreadyCounted(e.val.p)
     /\ CalcNext(CalcKey(ctx, e.key), << >>)

\* A string, an array with its header and its data, or a reference.
CalcStructure ==
  /\ Calculating /\ ~ctx.ser
  /\ LET e == Here(input.mem)
         s == input.mem[e.val.p]
     IN
     /\ e.val.type \in {"str", "arr", "ref"} /\ ~AlreadyCounted(e.val.p)
     /\ CalcNext(AddSize(CalcMemoize(CalcKey(ctx, e.key), e.val.p), Weight(s)),
                 Each(e.val.p, Inside(s)))

\* Objects are serialized, resources refused.
CalcRefused ==
  /\ Calculating /\ ~ctx.ser
  /\ LET z == Here(input.mem).val IN
     /\ z.type \in {"obj", "res"} /\ ~AlreadyCounted(z.p)
     /\ CalcFail([ctx EXCEPT !.ser = (z.type = "obj")])

-----------------------------------------------------------------------------
(* The second pass: apc_persist_create_entry *)

\* Faulty variant: a process writes down the addresses of its own mapping.
ToOffNot(ptr) == ptr
ToOff(ptr) == ptr - alloc

\* apc_persist_alloc: the next words of the block; their address is ctx.cur.
Allocated(c, n) == [c EXCEPT !.cur = @ + n]
AddAllocated(c, old, new) == [c EXCEPT !.done = Put(@, old, new)]
AlreadyAllocated(p) == ctx.memo /\ p \in DOMAIN ctx.done

\* apc_persist_copy_cstr
CopyCstr(m, len, text) == Put(m, ctx.cur, [Blank EXCEPT !.kind = "str", !.len = len, !.text = text])
SetZval(m, type, ptr) ==
  [m EXCEPT ![Item[1]].els[Item[2]].val = [type |-> type, p |-> ToOff(ptr)]]

\* Copied bytes are changed in place, a pointer when what it leads to gets its address:
\* nobody reads the block in between.
CopyNext(m, c, more) ==
  /\ shm' = m
  /\ ctx' = c
  /\ todo' = more \o Tail(todo)
  /\ phase' = "copy"
  /\ UNCHANGED <<setup, alloc, mem>>

\* A bucket of an array; in phase "value" its key is done.
InData == shm[Item[1]].kind = "data"
AtValue == phase = "value" \/ (phase = "copy" /\ todo # << >> /\ ~InData)

\* Integers are zend_long; the index behind the last one is the first one.
Wrap(n) == IF n > MaxLong THEN -MaxLong - 1 ELSE n
\* Faulty variant: an index equal to the next free one does not move it.
BehindLate(next, index) == IF index > next THEN Wrap(index + 1) ELSE next
\* nNextFreeElement behind an index.
Behind(next, index) == IF index >= next THEN Wrap(index + 1) ELSE next

\* apc_persist_copy_ht, one bucket up to its value: the internal pointer, the next free
\* element, the key.  The header is in front of the data.
CopyBucket ==
  /\ phase = "copy" /\ todo # << >> /\ InData
  /\ LET e == Here(shm)
         at == Item[1] - HtSize
         ht == shm[at]
         header == [ht EXCEPT
           !.pos = IF @ = 0 THEN Item[2] ELSE @,
           !.next = IF e.key # None THEN @
                    ELSE Behind(@, IF ht.packed THEN Item[2] - 1 ELSE e.h),
           !.static = @ /\ e.key = None]
         m == [shm EXCEPT ![at] = header]
     IN
     /\ e.val.type # "undef"
     /\ \/ /\ e.key = None
           /\ shm' = m
           /\ UNCHANGED ctx
        \/ /\ e.key # None
           /\ shm' = [CopyCstr(m, KeyLen, e.key) EXCEPT
                        ![Item[1]].els[Item[2]].key = ToOff(ctx.cur)]
           /\ ctx' = Allocated(ctx, StrSize(KeyLen))
  /\ phase' = "value"
  /\ UNCHANGED <<setup, todo, alloc, mem>>

\* Nothing to copy; a hole of an array is passed over with its key.
CopyFlat ==
  /\ AtValue \/ (phase = "copy" /\ todo # << >> /\ Here(shm).val.type = "undef")
  /\ Flat(Here(shm).val)
  /\ CopyNext(shm, ctx, << >>)

\* apc_persist_copy_serialize: PTR tells the string from a string that was stored.
CopySerialized ==
  /\ AtValue /\ ~Flat(Here(shm).val) /\ ctx.ser
  /\ CopyNext(SetZval(CopyCstr(shm, SerLen, ctx.str), "ptr", ctx.cur),
              Allocated(ctx, StrSize(SerLen)), << >>)

\* A structure that was copied before.
CopyAgain ==
  /\ AtValue /\ ~ctx.ser
  /\ LET z == Here(shm).val IN
     /\ ~Flat(z) /\ AlreadyAllocated(z.p)
     /\ CopyNext(SetZval(shm, z.type, ctx.done[z.p]), ctx, << >>)

\* The first copy of a structure.
CopyFirst(type) ==
  /\ AtValue /\ ~ctx.ser
  /\ Here(shm).val.type = type /\ ~AlreadyAllocated(Here(shm).val.p)

\* apc_persist_copy_zstr
CopyZstr ==
  /\ CopyFirst("str")
  /\ LET p == Here(shm).val.p
         s == input.mem[p]
     IN CopyNext(SetZval(CopyCstr(shm, s.len, s.text), "str", ctx.cur),
                 AddAllocated(Allocated(ctx, StrSize(s.len)), p, ctx.cur), << >>)

\* The start of the entry stands for an empty array: the fetch takes zend_empty_array.
CopyEmpty ==
  /\ CopyFirst("arr") /\ Elements(input.mem[Here(shm).val.p].els) = {}
  /\ CopyNext(SetZval(shm, "arr", alloc), ctx, << >>)

\* apc_persist_copy_ht: the header and the data, before the elements.
CopyHt ==
  /\ CopyFirst("arr")
  /\ LET p == Here(shm).val.p
         ht == input.mem[p]
         data == ctx.cur + HtSize
         header == [Blank EXCEPT !.kind = "arr", !.packed = ht.packed, !.data = ToOff(data)]
     IN
     /\ Elements(ht.els) # {}
     /\ CopyNext(SetZval(Put(Put(shm, ctx.cur, header), data,
                             [Blank EXCEPT !.kind = "data", !.els = ht.els]), "arr", ctx.cur),
                 AddAllocated(Allocated(ctx, HtSize + DataSize(ht.packed, Len(ht.els))), p, ctx.cur),
                 Each(data, ht.els))

\* apc_persist_copy_ref: registered before its value, which may lead back to it.
CopyRef ==
  /\ CopyFirst("ref")
  /\ LET p == Here(shm).val.p
         ref == [Blank EXCEPT !.kind = "ref", !.els = input.mem[p].els]
     IN CopyNext(SetZval(Put(shm, ctx.cur, ref), "ref", ctx.cur),
                 AddAllocated(Allocated(ctx, RefSize), p, ctx.cur), Each(ctx.cur, ref.els))

-----------------------------------------------------------------------------
(* A fetch: apc_unpersist *)

Fetching == phase = "fetch" /\ todo # << >>
ToPtr(off) == alloc + off
AlreadyCopied(a) == ctx.memo /\ a \in DOMAIN ctx.done

\* String keys are duplicated for each array, unless its flags say that it has none.
FetchedKey(e) ==
  IF mem[Item[1]].static THEN e.key
  ELSE IF e.key = None \/ e.val.type = "undef" THEN None ELSE shm[ToPtr(e.key)].text
Fetched(type, ptr) ==
  [mem EXCEPT ![Item[1]].els[Item[2]] =
    [h |-> @.h, key |-> FetchedKey(@), val |-> [type |-> type, p |-> ptr]]]

\* Faulty variant: another link to a structure is not counted.
AnotherLinkUncounted(m, ptr) == m
\* Z_ADDREF of a structure that has been copied already.
AnotherLink(m, ptr) == [m EXCEPT ![ptr].rc = @ + 1]

FetchNext(m, c, more) ==
  /\ mem' = m
  /\ ctx' = c
  /\ todo' = more \o Tail(todo)
  /\ UNCHANGED <<setup, phase, alloc, shm>>

FetchFlat ==
  /\ Fetching /\ Flat(Here(mem).val)
  /\ FetchNext(Fetched(Here(mem).val.type, 0), ctx, << >>)

FetchAgain ==
  /\ Fetching
  /\ LET z == Here(mem).val
         a == ToPtr(z.p)
     IN
     /\ ~Flat(z) /\ AlreadyCopied(a)
     /\ FetchNext(AnotherLink(Fetched(z.type, ctx.done[a]), ctx.done[a]), ctx, << >>)

FetchEmpty ==
  /\ Fetching /\ Here(mem).val.type = "arr" /\ ToPtr(Here(mem).val.p) = alloc
  /\ FetchNext(Fetched("arr", EmptyArray), ctx, << >>)

\* apc_unpersist_zstr, apc_unpersist_ref and apc_unpersist_ht: a copy with a reference
\* count of one, memoized before what it leads to.
FetchStructure ==
  /\ Fetching
  /\ LET z == Here(mem).val
         a == ToPtr(z.p)
         els == IF z.type = "arr" THEN shm[ToPtr(shm[a].data)].els ELSE shm[a].els
         new == Cardinality(DOMAIN mem)
     IN
     /\ ~Flat(z) /\ ~AlreadyCopied(a) /\ a # alloc
     /\ FetchNext(Put(Fetched(z.type, new), new, [shm[a] EXCEPT !.rc = 1, !.els = els]),
                  [ctx EXCEPT !.done = Put(@, a, new)], Each(new, els))

-----------------------------------------------------------------------------
(* Actions *)

Init ==
  /\ input \in Cases
  /\ booting = TRUE /\ registered = {} /\ serializer = None
  /\ phase = "minit" /\ ctx = Context(FALSE, FALSE) /\ todo = << >>
  /\ alloc = 0 /\ shm = Nothing /\ mem = Nothing /\ early = FALSE

\* Faulty variant: the configured name is taken on trust.
FindAny(name, names) == name
\* apc_find_serializer
Find(name, names) == IF name \in names THEN name ELSE None

\* MINIT registers the built-in serializer and creates the cache.
Minit ==
  /\ phase = "minit"
  /\ registered' = {Php}
  /\ serializer' = Find(input.name, registered')
  /\ phase' = "idle"
  /\ UNCHANGED <<input, booting, ctx, todo, alloc, shm, mem, early>>

\* Another extension's MINIT; before apcu's it would not find the registering function.
RegisterExternal ==
  /\ phase \in {"idle", "stored"} /\ booting /\ External \in input.extensions \ registered
  /\ registered' = registered \cup {External}
  /\ UNCHANGED <<input, booting, serializer, phase, ctx, todo, alloc, shm, mem, early>>

\* Faulty variant: a request takes the serializer of the startup.
SerializerOnceOnly == serializer
\* apc_cache_serializer: looked up again as long as there is none.
SerializerOnce == IF serializer = None THEN Find(input.name, registered) ELSE serializer

\* RINIT of the first request.
Rinit ==
  /\ phase \in {"idle", "stored"} /\ booting
  /\ booting' = FALSE
  /\ serializer' = SerializerOnce
  /\ UNCHANGED <<input, registered, phase, ctx, todo, alloc, shm, mem, early>>

\* A pass over the value begins with what its entry takes.
Calculate(memo, ser) ==
  /\ ctx' = AddSize(Context(memo, ser), EntrySize)
  /\ todo' = <<<<0, 1>>>>
  /\ UNCHANGED <<alloc, shm, mem>>

\* apc_persist: apc_cache_preload while booting, a store afterwards.  What is preloaded
\* comes from unserialize(), so it has no resource.
PersistCalc ==
  /\ phase = "idle"
  /\ booting => \A p \in DOMAIN input.mem: input.mem[p].kind # "res"
  /\ LET type == input.mem[0].els[1].val.type IN
     Calculate(serializer = None /\ type = "arr",
               type = "obj" \/ (serializer # None /\ type = "arr"))
  /\ phase' = "calc"
  /\ early' = booting
  /\ UNCHANGED <<input, booting, registered, serializer>>

\* Try again with serialization.
PersistRetry ==
  /\ phase = "again"
  /\ Calculate(FALSE, TRUE)
  /\ phase' = "recalc"
  /\ UNCHANGED setup

\* apc_sma_malloc, and apc_persist_create_entry up to the value: the entry with the key.
PersistAlloc ==
  /\ phase \in {"calc", "recalc"} /\ todo = << >>
  /\ alloc' \in Bases
  /\ shm' = Put(Nothing, alloc', [Blank EXCEPT !.kind = "entry", !.els = input.mem[0].els])
  /\ ctx' = [ctx EXCEPT !.cur = alloc' + EntrySize]
  /\ todo' = <<<<alloc', 1>>>>
  /\ phase' = "copy"
  /\ UNCHANGED <<setup, mem>>

\* There is no memory.
PersistNoMemory ==
  /\ phase \in {"calc", "recalc"} /\ todo = << >>
  /\ phase' = "failed"
  /\ UNCHANGED <<setup, ctx, todo, alloc, shm, mem>>

\* The end of apc_persist.
PersistEnd ==
  /\ phase = "copy" /\ todo = << >>
  /\ shm' = [shm EXCEPT ![alloc].len = ctx.size]
  /\ ctx' = Context(FALSE, FALSE)
  /\ phase' = "stored"
  /\ UNCHANGED <<setup, todo, alloc, mem>>

\* The block as another process sees it that maps the segment elsewhere, or after
\* apc_cache_wlocked_move_entry and the memmove of a defragmentation.
Relocate ==
  /\ phase = "stored"
  /\ \E base \in Bases \ {alloc}:
       /\ alloc' = base
       /\ shm' = [a \in {b + base - alloc: b \in DOMAIN shm} |-> shm[a - base + alloc]]
  /\ UNCHANGED <<setup, phase, ctx, todo, mem>>

Stored == shm[alloc].els[1].val

\* A request fetches a value.
FetchStart ==
  /\ phase = "stored" /\ ~booting /\ Stored.type # "ptr"
  /\ mem' = Put(Nothing, 0, [Blank EXCEPT !.els = shm[alloc].els])
  /\ ctx' = Context(Stored.type = "arr", FALSE)
  /\ todo' = <<<<0, 1>>>>
  /\ phase' = "fetch"
  /\ UNCHANGED <<setup, alloc, shm>>

\* apc_unpersist_serialized: the value of a block another serializer wrote is lost, and a
\* serializer may fail.
FetchSerialized ==
  /\ phase = "stored" /\ ~booting /\ Stored.type = "ptr"
  /\ LET str == shm[ToPtr(Stored.p)].text IN
     \E z \in {str.of, [type |-> "long", p |-> 0]}:
       /\ z = str.of => str.by = Format
       /\ mem' = Put(Nothing, 0, [Blank EXCEPT !.els = <<Bucket(z)>>])
  /\ phase' = "fetch"
  /\ UNCHANGED <<setup, ctx, todo, alloc, shm>>

\* The program goes on: the request frees its copy, a failed store is tried again.
Continue ==
  /\ \/ phase = "fetch" /\ todo = << >> /\ phase' = "stored"
     \/ phase = "failed" /\ phase' = "idle"
  /\ ctx' = Context(FALSE, FALSE)
  /\ mem' = Nothing
  /\ UNCHANGED <<setup, todo, alloc, shm>>

Calc == \/ CalcFlat \/ CalcIndirect \/ CalcSerialize \/ CalcAgain \/ CalcStructure \/ CalcRefused
Copy == \/ CopyBucket \/ CopyFlat \/ CopySerialized \/ CopyAgain
        \/ CopyZstr \/ CopyEmpty \/ CopyHt \/ CopyRef
Fetch == FetchFlat \/ FetchAgain \/ FetchEmpty \/ FetchStructure

Next ==
  \/ Minit \/ RegisterExternal \/ Rinit
  \/ PersistCalc \/ Calc \/ PersistRetry
  \/ PersistAlloc \/ PersistNoMemory \/ Copy \/ PersistEnd
  \/ Relocate
  \/ FetchStart \/ FetchSerialized \/ Fetch \/ Continue

Spec == Init /\ [][Next]_vars

-----------------------------------------------------------------------------
(* Properties *)

\* What the pass under way goes over.
Memory ==
  CASE phase \in {"calc", "recalc"} -> input.mem
    [] phase \in {"copy", "value"} -> shm
    [] phase = "fetch" -> mem
    [] OTHER -> Nothing

\* The phases, the serializers, and that the passes come to zvals only.
TypeOK ==
  /\ phase \in {"minit", "idle", "calc", "again", "recalc", "copy", "value", "stored", "fetch",
                "failed"}
  /\ booting \in BOOLEAN /\ early \in BOOLEAN
  /\ registered \subseteq {Php, External}
  /\ serializer \in registered \cup {None}
  /\ alloc \in Bases \cup {0}
  /\ DOMAIN shm \subseteq Nat /\ DOMAIN mem \subseteq Nat
  /\ \A i \in DOMAIN todo:
       todo[i][1] \in DOMAIN Memory /\ todo[i][2] \in DOMAIN Memory[todo[i][1]].els

\* apc_persist.c:282 and 534: the pass that adds up the size and the pass that copies agree
\* to the word, so the copy neither runs out of its block nor leaves a part of it unused.
CopyFits ==
  /\ phase \in {"copy", "value"} => ctx.cur <= alloc + ctx.size
  /\ phase = "copy" /\ todo = << >> => ctx.cur = alloc + ctx.size

\* An offset in the block that leads to a structure.
LeadsTo(off, kind) ==
  off \in 0..(shm[alloc].len - 1) /\ ToPtr(off) \in DOMAIN shm /\ shm[ToPtr(off)].kind = kind

\* TO_OFF and TO_PTR: wherever the block is mapped, each of its pointers leads to a
\* structure of its own type inside it; only an empty array leads to the entry.
OffsetsInside ==
  phase = "stored" =>
    \A a \in DOMAIN shm:
      /\ shm[a].kind = "arr" => LeadsTo(shm[a].data, "data")
      /\ \A i \in Elements(shm[a].els):
           LET e == shm[a].els[i] IN
           /\ e.key # None => LeadsTo(e.key, "str")
           /\ Flat(e.val) \/ LeadsTo(e.val.p, IF e.val.type = "ptr" THEN "str" ELSE e.val.type)
                          \/ (e.val.type = "arr" /\ e.val.p = 0)

\* A fetch has come to its end.
Done == phase = "fetch" /\ todo = << >>
Result == mem[0].els[1].val

\* Pairs of a structure that was stored and the one it should have become.
Beyond(pair) ==
  IF pair[2] = EmptyArray THEN {}
  ELSE LET old == input.mem[pair[1]].els
           new == mem[pair[2]].els
       IN {<<old[i].val.p, new[i].val.p>>:
             i \in {j \in (DOMAIN old) \cap (DOMAIN new):
                      ~Flat(old[j].val) /\ old[j].val.type = new[j].val.type}}
Most == Cardinality(DOMAIN input.mem) * Cardinality(DOMAIN mem)
Within[n \in 0..Most] ==
  IF n = 0 THEN {<<0, 0>>}
  ELSE LET pairs == Within[n - 1] IN pairs \cup UNION {Beyond(pair): pair \in pairs}
Pairs == Within[Most]

\* The copy of an array has its elements in their places, and an append goes behind them, if
\* there is an index left.
SameElements(old, new) ==
  /\ new.packed = old.packed /\ DOMAIN new.els = DOMAIN old.els
  /\ \A i \in DOMAIN old.els: new.els[i].val.type = old.els[i].val.type
  /\ \A i \in Elements(old.els): old.els[i].key = new.els[i].key /\ old.els[i].h = new.els[i].h
Appends(ht) ==
  LET indices == {Index(ht, i): i \in {j \in Elements(ht.els): ht.els[j].key = None}} IN
  /\ ht.pos \in Elements(ht.els)
  /\ MaxLong \in indices \/ \A index \in indices: index < ht.next
Same(p, q) ==
  LET old == input.mem[p] IN
  IF q = EmptyArray THEN old.kind = "arr" /\ Elements(old.els) = {}
  ELSE LET new == mem[q] IN
       /\ new.kind = old.kind /\ SameElements(old, new)
       /\ old.kind = "str" => new.len = old.len /\ new.text = old.text
       /\ old.kind = "arr" => Appends(new)

\* apc_unpersist returns the value that was stored: the same structures, shared in the same
\* places, so that two references to one variable are still references to one variable and
\* a cycle closes where it did.  A serialized value may be lost.
RoundTrip ==
  Done =>
    IF Stored.type = "ptr" THEN Result \in {input.mem[0].els[1].val, [type |-> "long", p |-> 0]}
    ELSE LET pairs == Pairs IN
         /\ \A x \in pairs: Same(x[1], x[2])
         /\ \A x, y \in pairs: x[2] # EmptyArray => ((x[1] = y[1]) <=> (x[2] = y[2]))

\* The links to a structure of request memory.
Links(q) ==
  UNION {{<<r, i>>: i \in {j \in DOMAIN mem[r].els: mem[r].els[j].val.p = q}}: r \in DOMAIN mem}

\* apc_persist.c:729: what a fetch makes is counted once for each link to it, so that the
\* request neither frees it while it is in use nor keeps it for ever.
LinksCounted ==
  Done /\ Stored.type # "ptr" =>
    \A q \in DOMAIN mem \ {0}: mem[q].rc = Cardinality(Links(q))

\* php_apc.c:340: a block written by a request is read with the serializer that wrote it,
\* although the serializer may have been registered after apcu was started.  Preloaded
\* blocks are the exception: they are written before.
SameFormat ==
  phase = "stored" /\ Stored.type = "ptr" /\ ~early =>
    /\ shm[ToPtr(Stored.p)].text.by = Format
    /\ External \in registered /\ input.name = External => Format = External
=============================================================================

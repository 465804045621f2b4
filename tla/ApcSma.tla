------------------------------- MODULE ApcSma -------------------------------
(***************************************************************************)
(* The shared memory allocator of apc_sma.c: a segment of blocks with      *)
(* boundary tags, the list of the free ones, and the defragmentation that  *)
(* slides movable blocks down.  Offsets and sizes count aligned words; a   *)
(* header is the record hdr[o] at the offset o of its block.               *)
(*                                                                         *)
(* Every operation runs under the allocator's mutex.  Allocation and       *)
(* deallocation are one action each; the loop of apc_sma_defrag is one     *)
(* action per iteration, because reference counts may drop while it runs.  *)
(* A header that merging or moving leaves behind is never read again: the  *)
(* model forgets it, and the data of a block that is no longer allocated.  *)
(***************************************************************************)
EXTENDS Integers, Sequences, FiniteSets, FiniteSetsExt

CONSTANTS
  Size,          \* words of the segment, sma->size
  HeaderSize,    \* words of sma_header_t
  BlockSize,     \* words of block_t
  MinBlock,      \* smaheader->min_block_size
  BestFitLimit,  \* BEST_FIT_LIMIT
  Id,            \* the allocations of the client, the cache
  CacheHeader,   \* its first one, the cache header, never given back
  Requests       \* the sizes the client asks for

ASSUME SegmentAssumption ==
  /\ HeaderSize \in Nat \ {0} /\ BlockSize \in Nat \ {0}
  /\ MinBlock \in Nat /\ MinBlock > BlockSize
  /\ Size \in Nat /\ Size > HeaderSize + 2 * BlockSize + MinBlock
  /\ BestFitLimit \in Nat /\ Requests \subseteq Nat \ {0} /\ CacheHeader \in Id

Offset == 0..Size
Null == 0
First == HeaderSize              \* the empty block in front of all others
Start == HeaderSize + BlockSize
Last == Size - BlockSize         \* the empty block behind them

VARIABLES
  hdr,        \* the block headers in memory
  avail,      \* smaheader->avail
  data,       \* whose data is in the block at an offset
  live,       \* where the client's pointer to an allocation points
  need,       \* the size it asked for
  pinned,     \* the allocations the client may not have moved
  cur,        \* the block apc_sma_defrag has come to; Null: no defragmentation
  reclaimed,  \* the unused space it has found
  kept        \* history: the allocations pinned when it started

client == <<live, need, pinned>>
vars == <<hdr, avail, data, live, need, pinned, cur, reclaimed, kept>>

Header == [size: Offset, prev_size: Offset, fnext: Offset, fprev: Offset]
NoHeader == [size |-> 0, prev_size |-> 0, fnext |-> 0, fprev |-> 0]

\* Faulty variant: the header is not counted.
RealSizeBare(n) == n

RealSize(n) == n + BlockSize
MaxAlloc == Size - HeaderSize - 3 * BlockSize

-----------------------------------------------------------------------------
(* The free list *)

NextBlock(h, c) == c + h[c].size
PrevBlock(h, c) == c - h[c].prev_size

\* Faulty variant: the old first block keeps its back link.
LinkForward(h, c) ==
  LET f == h[First].fnext
  IN [h EXCEPT ![c].fnext = f, ![c].fprev = First, ![First].fnext = c]

Link(h, c) ==
  LET f == h[First].fnext
  IN [h EXCEPT ![c].fnext = f, ![c].fprev = First, ![First].fnext = c, ![f].fprev = c]

Unlink(h, c) == [h EXCEPT ![h[c].fprev].fnext = h[c].fnext, ![h[c].fnext].fprev = h[c].fprev]

\* The offsets that following the free links from First comes by.
LinkPath(h) ==
  LET at[i \in Nat] == IF i = 0 THEN h[First].fnext ELSE h[at[i - 1]].fnext
  IN at

\* The blocks of the list behind First, in order, without Last.
FreeList(h) ==
  LET at == LinkPath(h)
      n == CHOOSE i \in 0..Size: at[i] = Last
  IN [i \in 1..n |-> at[i - 1]]

\* Faulty variant: the last few blocks of the search are not asked whether they fit.
FindBlockLoose(h, real) ==
  LET l == FreeList(h)
      fits == {i \in DOMAIN l: h[l[i]].size >= real}
      window == {i \in DOMAIN l: i \in Min(fits)..(Min(fits) + BestFitLimit)}
      best == {i \in window: \A j \in window: h[l[i]].size <= h[l[j]].size}
  IN IF avail < real \/ fits = {} THEN Null ELSE l[Min(best)]

\* find_block: the first block that fits, or a smaller one among the next few.
FindBlock(h, real) ==
  LET l == FreeList(h)
      fits == {i \in DOMAIN l: h[l[i]].size >= real}
      window == {i \in fits: i <= Min(fits) + BestFitLimit}
      best == {i \in window: \A j \in window: h[l[i]].size <= h[l[j]].size}
  IN IF avail < real \/ fits = {} THEN Null ELSE l[Min(best)]

-----------------------------------------------------------------------------
(* Allocation *)

\* A block too big is split: its upper part goes back to the list.
Split(h, c, real) ==
  LET n == c + real  rest == h[c].size - real
  IN Link([h EXCEPT ![c].size = real, ![n].prev_size = 0, ![n].size = rest,
                    ![n + rest].prev_size = rest], n)

\* A remainder too small for a block stays with the allocated one.
TooSmallToSplit(size, real) == size < real + MinBlock

\* The header of an allocated block: fprev holds the used space.
Allocated(h, c, real) ==
  LET g == Unlink(h, c)
      k == IF TooSmallToSplit(g[c].size, real)
             THEN [g EXCEPT ![NextBlock(g, c)].prev_size = 0]
             ELSE Split(g, c, real)
  IN [k EXCEPT ![c].fnext = 0, ![c].fprev = real]

Idle == cur = Null

\* Faulty variant: an allocation is not subtracted.
MallocUncounted(id, n) ==
  /\ Idle /\ live[id] = Null /\ n <= MaxAlloc
  /\ live[CacheHeader] = Null <=> id = CacheHeader
  /\ LET c == FindBlock(hdr, RealSize(n))
     IN /\ c # Null
        /\ hdr' = Allocated(hdr, c, RealSize(n))
        /\ data' = [data EXCEPT ![c] = id]
        /\ live' = [live EXCEPT ![id] = c]
  /\ need' = [need EXCEPT ![id] = n]
  /\ pinned' = pinned \cup ({id} \ {CacheHeader})
  /\ UNCHANGED <<avail, cur, reclaimed, kept>>

\* apc_sma_malloc when sma_allocate succeeds; a new entry starts pinned.
Malloc(id, n) ==
  /\ Idle /\ live[id] = Null /\ n <= MaxAlloc
  /\ live[CacheHeader] = Null <=> id = CacheHeader
  /\ LET c == FindBlock(hdr, RealSize(n))
     IN /\ c # Null
        /\ hdr' = Allocated(hdr, c, RealSize(n))
        /\ avail' = avail - hdr'[c].size
        /\ data' = [data EXCEPT ![c] = id]
        /\ live' = [live EXCEPT ![id] = c]
  /\ need' = [need EXCEPT ![id] = n]
  /\ pinned' = pinned \cup ({id} \ {CacheHeader})
  /\ UNCHANGED <<cur, reclaimed, kept>>

-----------------------------------------------------------------------------
(* Deallocation *)

\* Faulty variant: the block in front is not looked at.
MergePrevNever(h, c) == [h |-> h, c |-> c]

\* Merge the free block in front of c.
MergePrev(h, c) ==
  IF h[c].prev_size = 0 THEN [h |-> h, c |-> c]
  ELSE LET p == PrevBlock(h, c)
       IN [h |-> [Unlink(h, p) EXCEPT ![p].size = @ + h[c].size, ![c] = NoHeader], c |-> p]

\* Merge the free block behind c.
MergeNext(h, c) ==
  LET n == NextBlock(h, c)
  IN IF h[n].fnext = 0 THEN h
     ELSE [Unlink(h, n) EXCEPT ![c].size = @ + h[n].size, ![n] = NoHeader]

Deallocated(h, c) ==
  LET m == MergePrev(h, c)
      g == MergeNext(m.h, m.c)
  IN Link([g EXCEPT ![NextBlock(g, m.c)].prev_size = g[m.c].size], m.c)

\* apc_sma_free
FreeBlock(id) ==
  /\ Idle /\ live[id] # Null /\ id # CacheHeader
  /\ hdr' = Deallocated(hdr, live[id])
  /\ avail' = avail + hdr[live[id]].size
  /\ live' = [live EXCEPT ![id] = Null]
  /\ need' = [need EXCEPT ![id] = 0]
  /\ pinned' = pinned \ {id}
  /\ data' = [data EXCEPT ![live[id]] = CacheHeader]
  /\ UNCHANGED <<cur, reclaimed, kept>>

-----------------------------------------------------------------------------
(* Defragmentation *)

\* Empty the free list; start behind the first block.
DefragStart ==
  /\ Idle /\ live[CacheHeader] # Null
  /\ hdr' = [hdr EXCEPT ![First].fnext = Last, ![Last].fprev = First]
  /\ cur' = Start
  /\ reclaimed' = 0 /\ kept' = pinned
  /\ UNCHANGED <<avail, data, client>>

Defragmenting == ~Idle /\ hdr[cur].size # 0

DefragSkip ==
  /\ Defragmenting /\ hdr[cur].fnext = 0
  /\ cur' = NextBlock(hdr, cur)
  /\ UNCHANGED <<hdr, avail, data, client, reclaimed, kept>>

\* Faulty variants: the client is not asked; everything stays.
MovesAlways(n) == hdr[n].size # 0
MovesNever(n) == FALSE

\* The block behind a free one moves unless it is the last or the client has pinned it.
Moves(n) == hdr[n].size # 0 /\ data[n] \notin pinned

\* The free block cur stays where it is: put it on the list.
DefragStay ==
  /\ Defragmenting /\ hdr[cur].fnext # 0 /\ ~Moves(NextBlock(hdr, cur))
  /\ LET n == NextBlock(hdr, cur)
     IN /\ hdr' = [Link(hdr, cur) EXCEPT ![cur].prev_size = 0, ![n].prev_size = hdr[cur].size]
        /\ cur' = NextBlock(hdr, n)
  /\ UNCHANGED <<avail, data, client, reclaimed, kept>>

\* Faulty variant: the space between the used and the allocated size is lost.
MoveLeaky ==
  /\ Defragmenting /\ hdr[cur].fnext # 0 /\ Moves(NextBlock(hdr, cur))
  /\ LET n == NextBlock(hdr, cur)
         used == hdr[n].fprev
         c == cur + used
         h == [hdr EXCEPT ![n] = NoHeader,
                          ![cur] = [hdr[n] EXCEPT !.size = used, !.prev_size = 0],
                          ![c] = [NoHeader EXCEPT !.size = hdr[cur].size, !.fnext = 1]]
         behind == NextBlock(h, c)
     IN /\ hdr' = IF h[behind].fnext # 0
                    THEN [h EXCEPT ![c].size = @ + h[behind].size, ![behind] = NoHeader]
                    ELSE h
        /\ data' = [data EXCEPT ![n] = CacheHeader, ![cur] = data[n]]
        /\ live' = [live EXCEPT ![data[n]] = cur]
        /\ cur' = c
        /\ reclaimed' = reclaimed + hdr[n].size - used
  /\ UNCHANGED <<avail, need, pinned, kept>>

\* The block behind cur moves down and gives up its unused space; the free block behind
\* it is merged with the next one if that is free too.
DefragMove ==
  /\ Defragmenting /\ hdr[cur].fnext # 0 /\ Moves(NextBlock(hdr, cur))
  /\ LET n == NextBlock(hdr, cur)
         used == hdr[n].fprev
         unused == hdr[n].size - used
         c == cur + used
         h == [hdr EXCEPT ![n] = NoHeader,
                          ![cur] = [hdr[n] EXCEPT !.size = used, !.prev_size = 0],
                          ![c] = [NoHeader EXCEPT !.size = hdr[cur].size + unused, !.fnext = 1]]
         behind == NextBlock(h, c)
     IN /\ hdr' = IF h[behind].fnext # 0
                    THEN [h EXCEPT ![c].size = @ + h[behind].size, ![behind] = NoHeader]
                    ELSE h
        /\ data' = [data EXCEPT ![n] = CacheHeader, ![cur] = data[n]]
        /\ live' = [live EXCEPT ![data[n]] = cur]
        /\ cur' = c
        /\ reclaimed' = reclaimed + unused
  /\ UNCHANGED <<avail, need, pinned, kept>>

\* Faulty variant: the reclaimed space is not counted.
DefragEndUncounted ==
  /\ ~Idle /\ hdr[cur].size = 0
  /\ cur' = Null
  /\ reclaimed' = 0 /\ kept' = {}
  /\ UNCHANGED <<hdr, avail, data, client>>

DefragEnd ==
  /\ ~Idle /\ hdr[cur].size = 0
  /\ avail' = avail + reclaimed
  /\ cur' = Null
  /\ reclaimed' = 0 /\ kept' = {}
  /\ UNCHANGED <<hdr, data, client>>

-----------------------------------------------------------------------------
(* The client: references are taken under the cache lock, which a defragmentation *)
(* excludes, and given back at any time.                                          *)

Pin(id) ==
  /\ Idle /\ live[id] # Null /\ id \notin pinned \cup {CacheHeader}
  /\ pinned' = pinned \cup {id}
  /\ UNCHANGED <<hdr, avail, data, live, need, cur, reclaimed, kept>>

Unpin(id) ==
  /\ id \in pinned
  /\ pinned' = pinned \ {id}
  /\ UNCHANGED <<hdr, avail, data, live, need, cur, reclaimed, kept>>

\* apc_sma_init
Init ==
  /\ avail = Size - HeaderSize - 2 * BlockSize
  /\ hdr = [o \in Offset |->
       CASE o = First -> [size |-> 0, prev_size |-> 0, fnext |-> Start, fprev |-> 0]
         [] o = Start -> [size |-> avail, prev_size |-> 0, fnext |-> Last, fprev |-> First]
         [] o = Last  -> [size |-> 0, prev_size |-> avail, fnext |-> 0, fprev |-> Start]
         [] OTHER     -> NoHeader]
  /\ data = [o \in Offset |-> CacheHeader]
  /\ live = [id \in Id |-> Null]
  /\ need = [id \in Id |-> 0]
  /\ pinned = {}
  /\ cur = Null /\ reclaimed = 0 /\ kept = {}

Next ==
  \/ \E id \in Id: \/ \E n \in Requests: Malloc(id, n)
                   \/ FreeBlock(id) \/ Pin(id) \/ Unpin(id)
  \/ DefragStart \/ DefragSkip \/ DefragStay \/ DefragMove \/ DefragEnd

Spec == Init /\ [][Next]_vars

-----------------------------------------------------------------------------
(* Properties *)

\* A walk by size from the first block, which stays at the last one.
WalkPath(h) ==
  LET at[i \in Nat] == IF i = 0 THEN Start
                       ELSE IF at[i - 1] < Last THEN NextBlock(h, at[i - 1]) ELSE at[i - 1]
  IN at

\* The offsets where it finds a block.
Walk(h) ==
  LET at == WalkPath(h)
  IN {at[i]: i \in 0..((Size \div (BlockSize + 1)) + 1)}

Blocks == Walk(hdr) \ {Last}
FreeBlocks == {o \in Blocks: hdr[o].fnext # 0}
Owned == {live[id]: id \in {i \in Id: live[i] # Null}}

\* Every field stays in its range, through all the pointer arithmetic.
TypeOK ==
  /\ hdr \in [Offset -> Header]
  /\ avail \in 0..Size /\ reclaimed \in 0..Size
  /\ data \in [Offset -> Id] /\ live \in [Id -> Offset]
  /\ need \in [Id -> Nat] /\ pinned \in SUBSET Id
  /\ cur \in Offset /\ kept \in SUBSET Id

\* The blocks tile the segment: the walk by size reaches its last block and skips no
\* block that a client owns, also in the middle of a defragmentation.
Tiled == Last \in Walk(hdr) /\ Owned \subseteq Blocks

\* A client's pointer leads to an allocated block with that client's data and room for
\* what it asked for; no two share a block.  So no step overwrites or loses live data.
ClientsIntact ==
  \A id \in Id: live[id] # Null =>
    LET b == live[id]
    IN /\ data[b] = id
       /\ hdr[b].fnext = 0
       /\ hdr[b].size >= hdr[b].fprev /\ hdr[b].fprev = BlockSize + need[id]

\* While no defragmentation runs, a block is owned or free, and the free list holds
\* exactly the free blocks, linked both ways.
FreeListExact == Idle =>
  /\ FreeBlocks = Blocks \ Owned
  /\ {FreeList(hdr)[i]: i \in DOMAIN FreeList(hdr)} = FreeBlocks
  /\ \A o \in FreeBlocks \cup {First}: hdr[hdr[o].fnext].fprev = o

\* There are never two consecutive free blocks (comment in apc_sma_defrag), and the tag
\* behind a block is its size if it is free and 0 otherwise (assertion in sma_deallocate).
TagsExact == Idle =>
  \A o \in Blocks:
    LET n == NextBlock(hdr, o)
    IN IF o \in FreeBlocks THEN n \notin FreeBlocks /\ hdr[n].prev_size = hdr[o].size
                           ELSE hdr[n].prev_size = 0

\* The space that blocks at the offsets in D take.
Total(h, D) == SumFunctionOnSet([o \in D |-> h[o].size], D)

\* avail is the free space: no allocation is refused or expunge skipped for a wrong sum.
AvailExact == Idle => avail = Total(hdr, FreeBlocks)

\* The search finds a block whenever one fits, within the size it promises.
FindsFit == Idle =>
  \A real \in {RealSize(n): n \in Requests}:
    LET c == FindBlock(hdr, real)
    IN IF \E o \in FreeBlocks: hdr[o].size >= real
         THEN c \in FreeBlocks /\ hdr[c].size >= real
         ELSE c = Null

\* A pinned allocation does not move, nor does the cache header, which the move callback
\* would take for an entry; nothing moves but by a defragmentation.
PinnedStay ==
  [][\A id \in Id:
       live[id] # Null /\ live'[id] \notin {live[id], Null} => ~Idle /\ id \notin pinned \cup {CacheHeader}]_vars

\* A defragmentation ends with every free block in front of the end of the segment or of
\* a block that was pinned when it started, with no less memory than it found: what it
\* leaves fragmented is the pins' doing.
Compact ==
  [][~Idle /\ cur' = Null =>
       /\ avail' >= avail
       /\ \A o \in FreeBlocks: LET n == NextBlock(hdr, o)
                               IN n = Last \/ (n \in Owned /\ data[n] \in kept)]_vars
=============================================================================

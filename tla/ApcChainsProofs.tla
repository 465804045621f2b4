-------------------------- MODULE ApcChainsProofs --------------------------
(***************************************************************************)
(* The chains of ApcChains are in order and hold exactly what the cache    *)
(* holds, for every number of processes, keys, slots and blocks, and       *)
(* however the steps interleave, also those inside the locked sections,    *)
(* which the TLC run of ApcIterator does not interrupt.                    *)
(***************************************************************************)
EXTENDS ApcChains, SumLemmas

-----------------------------------------------------------------------------
(* The pointer operations, for any pointers *)

PointersType(n, p) == n \in [Cell -> Pointer] /\ p \in [Addr -> Cell \cup {Null}]

\* The chains from the heads through the entries of L are in order; hm is the chain of a
\* cell, and rk grows along each chain, up to a
\* highest rank, so that the chain ends.
Ranks == {rk \in [Cell -> Nat]: \E m \in Nat: \A c \in Cell: rk[c] <= m}
InOrder(n, p, L, hm, rk) ==
  /\ \A c \in HeadCell \cup L:
       \/ n[c] = Null
       \/ n[c] \in L /\ p[n[c]] = c /\ hm[n[c]] = hm[c] /\ rk[c] < rk[n[c]]
  /\ \A a \in L: p[a] \in HeadCell \cup L /\ n[p[a]] = a

\* Heads, blocks and the null pointer are different cells; no key hashes to the gc list.
LEMMA CellFacts ==
  /\ \A a \in Addr: a \in Cell /\ a \in Pointer /\ a # Null /\ a \notin HeadCell
  /\ \A c \in HeadCell: c \in Cell /\ c # Null
  /\ Gc \in HeadCell /\ Null \notin Cell /\ Null \notin Addr
  /\ \A k \in Key: SlotHead(k) \in HeadCell /\ SlotHead(k) # Gc
<1>1. NSlots \in Nat /\ Gc \in HeadCell
  BY SlotAssumption DEF Gc, HeadCell
<1>2. \A k \in Key: SlotOf[k] \in 0..(NSlots - 1)
  BY SlotAssumption
<1>3. \A k \in Key: SlotHead(k) \in HeadCell /\ SlotHead(k) # Gc
  BY <1>1, <1>2 DEF SlotHead, HeadCell, Gc
<1>4. \A c \in HeadCell: c \in Cell /\ c # Null
  BY AddrAssumption DEF Cell
<1>5. \A a \in Addr: a \in Cell /\ a \in Pointer /\ a # Null /\ a \notin HeadCell
  BY AddrAssumption DEF Cell, Pointer
<1> QED
  BY <1>1, <1>3, <1>4, <1>5, AddrAssumption

\* apc_cache_wlocked_unlink_entry (apc_cache.c:190): the others stay in order, on their
\* chains and in their order.
LEMMA UnlinkInOrder ==
  ASSUME NEW n, NEW p, PointersType(n, p), NEW L \in SUBSET Addr, NEW hm,
         NEW rk \in Ranks, InOrder(n, p, L, hm, rk), NEW e \in L
  PROVE  /\ PointersType(UnlinkNext(n, p, e), UnlinkPrev(p, n, e))
         /\ InOrder(UnlinkNext(n, p, e), UnlinkPrev(p, n, e), L \ {e}, hm, rk)
<1> DEFINE n2 == UnlinkNext(n, p, e)
           p2 == UnlinkPrev(p, n, e)
<1> rk \in [Cell -> Nat]
  BY DEF Ranks
<1>1. p[e] \in HeadCell \cup L /\ n[p[e]] = e /\ p[e] \in Cell /\ p[e] # e
  BY CellFacts DEF InOrder
<1>2. \/ n[e] = Null
      \/ n[e] \in L /\ p[n[e]] = e /\ hm[n[e]] = hm[e] /\ rk[e] < rk[n[e]] /\ n[e] # e
  BY CellFacts DEF InOrder
<1>3. PointersType(n2, p2)
  BY <1>1, CellFacts DEF PointersType, UnlinkNext, UnlinkPrev, Pointer, Cell
<1>4. /\ n2[p[e]] = n[e]
      /\ \A c \in Cell: c # p[e] /\ c # e => n2[c] = n[c]
  BY <1>1, CellFacts DEF PointersType, UnlinkNext
<1>5. \A a \in Addr: a # e => p2[a] = IF a = n[e] THEN p[e] ELSE p[a]
  BY DEF UnlinkPrev
<1> HIDE DEF n2, p2
<1>6. ASSUME NEW c \in HeadCell \cup (L \ {e})
      PROVE  \/ n2[c] = Null
             \/ /\ n2[c] \in L \ {e} /\ p2[n2[c]] = c
                /\ hm[n2[c]] = hm[c] /\ rk[c] < rk[n2[c]]
  <2>1. c \in Cell /\ c # e /\ rk[c] \in Int /\ rk[e] \in Int
    BY CellFacts
  <2>2. CASE c = p[e]
    <3>1. hm[e] = hm[c] /\ rk[c] < rk[e]
      BY <1>1, <2>2, CellFacts DEF InOrder
    <3>2. CASE n[e] # Null
      <4>1. rk[n[e]] \in Int /\ n[e] \in Addr
        BY <3>2, <1>2, CellFacts
      <4>2. rk[c] < rk[n[e]]
        BY <3>1, <3>2, <1>2, <2>1, <4>1
      <4> QED
        BY <2>2, <3>1, <3>2, <1>2, <1>4, <1>5, <4>1, <4>2
    <3> QED
      BY <3>2, <2>2, <1>4
  <2>3. CASE c # p[e]
    <3>1. n2[c] = n[c]
      BY <2>1, <2>3, <1>4
    <3>2. n[c] # e
      BY <2>3, CellFacts DEF InOrder
    <3>3. CASE n[c] # Null
      <4>1. n[c] \in L /\ p[n[c]] = c /\ hm[n[c]] = hm[c] /\ rk[c] < rk[n[c]]
        BY <3>3, CellFacts DEF InOrder
      <4>2. n[c] # n[e]
        BY <4>1, <1>2, <2>1, CellFacts
      <4> QED
        BY <3>1, <3>2, <4>1, <4>2, <1>5, CellFacts
    <3> QED
      BY <3>1, <3>3
  <2> QED
    BY <2>2, <2>3
<1>7. ASSUME NEW a \in L \ {e}
      PROVE  p2[a] \in HeadCell \cup (L \ {e}) /\ n2[p2[a]] = a
  <2>1. p[a] \in HeadCell \cup L /\ n[p[a]] = a /\ p[a] \in Cell /\ a \in Addr /\ a # e
    BY CellFacts DEF InOrder
  <2>2. CASE a = n[e]
    BY <2>1, <2>2, <1>1, <1>4, <1>5
  <2>3. CASE a # n[e]
    <3>1. p[a] # e /\ p[a] # p[e]
      BY <2>1, <2>3, <1>1
    <3> QED
      BY <2>1, <2>3, <3>1, <1>4, <1>5
  <2> QED
    BY <2>2, <2>3
<1> QED
  BY <1>3, <1>6, <1>7 DEF InOrder, n2, p2

\* A new entry finds room between the ranks of its neighbours once all are doubled.
Between(rk, c, e) == [d \in Cell |-> IF d = e THEN 2 * rk[c] + 1 ELSE 2 * rk[d]]

\* apc_cache_wlocked_link_entry (apc_cache.c:180): the entry joins the chain of the cell
\* before it.
LEMMA LinkInOrder ==
  ASSUME NEW n, NEW p, PointersType(n, p), NEW L \in SUBSET Addr, NEW hm,
         NEW rk \in Ranks, InOrder(n, p, L, hm, rk),
         NEW e \in Addr \ L, NEW c \in HeadCell \cup L, hm[e] = hm[c]
  PROVE  /\ PointersType(LinkNext(n, c, e), LinkPrev(p, n, c, e))
         /\ Between(rk, c, e) \in Ranks
         /\ InOrder(LinkNext(n, c, e), LinkPrev(p, n, c, e), L \cup {e}, hm,
                    Between(rk, c, e))
<1> DEFINE n2 == LinkNext(n, c, e)
           p2 == LinkPrev(p, n, c, e)
           rk2 == Between(rk, c, e)
<1> rk \in [Cell -> Nat]
  BY DEF Ranks
<1>1. c \in Cell /\ e \in Cell /\ c # e /\ rk[c] \in Int
  BY CellFacts
<1>2. \/ n[c] = Null
      \/ n[c] \in L /\ p[n[c]] = c /\ hm[n[c]] = hm[c] /\ rk[c] < rk[n[c]]
  BY DEF InOrder
<1>3. PointersType(n2, p2)
  BY <1>1, <1>2, CellFacts DEF PointersType, LinkNext, LinkPrev, Pointer, Cell
<1>4. rk2 \in [Cell -> Nat] /\ rk2[e] = 2 * rk[c] + 1 /\ \A d \in Cell: d # e => rk2[d] = 2 * rk[d]
  BY <1>1 DEF Between
<1>5. n2[c] = e /\ n2[e] = n[c] /\ \A d \in Cell: d # c /\ d # e => n2[d] = n[d]
  BY <1>1 DEF PointersType, LinkNext
<1>6. \A a \in Addr: p2[a] = IF a = e THEN c ELSE IF a = n[c] THEN e ELSE p[a]
  BY DEF LinkPrev
<1> HIDE DEF n2, p2, rk2
<1>7. ASSUME NEW d \in HeadCell \cup L \cup {e}
      PROVE  \/ n2[d] = Null
             \/ /\ n2[d] \in L \cup {e} /\ p2[n2[d]] = d
                /\ hm[n2[d]] = hm[d] /\ rk2[d] < rk2[n2[d]]
  <2>1. CASE d = c
    <3>1. rk2[c] = 2 * rk[c] /\ rk2[e] = 2 * rk[c] + 1
      BY <1>1, <1>4
    <3>2. rk2[c] < rk2[e]
      BY <3>1, <1>1
    <3> QED
      BY <2>1, <3>2, <1>1, <1>5, <1>6
  <2>2. CASE d = e /\ n[c] # Null
    <3>1. n[c] \in L /\ hm[n[c]] = hm[c] /\ rk[c] < rk[n[c]] /\ n[c] \in Cell /\ n[c] # e
      BY <2>2, <1>2, CellFacts
    <3>2. rk2[n[c]] = 2 * rk[n[c]] /\ rk[n[c]] \in Int
      BY <3>1, <1>4
    <3>3. rk2[e] < rk2[n[c]]
      BY <3>1, <3>2, <1>1, <1>4
    <3> QED
      BY <2>2, <3>1, <3>3, <1>5, <1>6
  <2>3. CASE d # c /\ d # e /\ n[d] # Null
    <3>1. n[d] \in L /\ p[n[d]] = d /\ hm[n[d]] = hm[d] /\ rk[d] < rk[n[d]] /\ d \in Cell
      BY <2>3, CellFacts DEF InOrder
    <3>2. n[d] # e /\ n[d] # n[c] /\ n[d] \in Addr /\ n[d] \in Cell
      BY <2>3, <3>1, <1>2, CellFacts
    <3>3. rk2[d] = 2 * rk[d] /\ rk2[n[d]] = 2 * rk[n[d]] /\ rk[d] \in Int /\ rk[n[d]] \in Int
      BY <2>3, <3>1, <3>2, <1>4
    <3>4. rk2[d] < rk2[n[d]]
      BY <3>1, <3>3
    <3> QED
      BY <2>3, <3>1, <3>2, <3>4, <1>5, <1>6
  <2> QED
    BY <2>1, <2>2, <2>3, <1>5, CellFacts
<1>8. ASSUME NEW a \in L \cup {e}
      PROVE  p2[a] \in HeadCell \cup (L \cup {e}) /\ n2[p2[a]] = a
  <2>1. CASE a = e
    BY <2>1, <1>5, <1>6
  <2>2. CASE a # e /\ a = n[c]
    BY <2>2, <1>1, <1>5, <1>6
  <2>3. CASE a # e /\ a # n[c]
    <3>1. p[a] \in HeadCell \cup L /\ n[p[a]] = a /\ p[a] \in Cell /\ p[a] # e /\ p[a] # c
      BY <2>3, CellFacts DEF InOrder
    <3> QED
      BY <2>3, <3>1, <1>5, <1>6
  <2> QED
    BY <2>1, <2>2, <2>3
<1>9. rk2 \in Ranks
  <2>1. PICK m \in Nat: \A d \in Cell: rk[d] <= m
    BY DEF Ranks
  <2>2. \A d \in Cell: rk2[d] <= 2 * m + 1
    BY <2>1, <1>1, <1>4
  <2>3. 2 * m + 1 \in Nat
    OBVIOUS
  <2> QED
    BY <2>2, <2>3, <1>4 DEF Ranks
<1> QED
  BY <1>3, <1>9, <1>7, <1>8 DEF InOrder, n2, p2, rk2

\* apc_cache_wlocked_move_entry (apc_cache.c:161): the new place takes the old one's part.
LEMMA MoveInOrder ==
  ASSUME NEW n, NEW p, PointersType(n, p), NEW L \in SUBSET Addr, NEW hm,
         NEW rk \in Ranks, InOrder(n, p, L, hm, rk),
         NEW old \in L, NEW new \in Addr \ L, NEW hm2,
         hm2[new] = hm[old], \A c \in HeadCell \cup L: c # old => hm2[c] = hm[c]
  PROVE  /\ PointersType(MoveNext(n, p, old, new), MovePrev(p, n, old, new))
         /\ [rk EXCEPT ![new] = rk[old]] \in Ranks
         /\ InOrder(MoveNext(n, p, old, new), MovePrev(p, n, old, new),
                    (L \ {old}) \cup {new}, hm2, [rk EXCEPT ![new] = rk[old]])
<1> DEFINE n2 == MoveNext(n, p, old, new)
           p2 == MovePrev(p, n, old, new)
           rk2 == [rk EXCEPT ![new] = rk[old]]
<1> rk \in [Cell -> Nat]
  BY DEF Ranks
<1>1. /\ p[old] \in HeadCell \cup L /\ n[p[old]] = old /\ p[old] \in Cell /\ p[old] # old
      /\ p[old] # new /\ old # new /\ old \in Cell /\ new \in Cell
  BY CellFacts DEF InOrder
<1>2. \/ n[old] = Null
      \/ /\ n[old] \in L /\ p[n[old]] = old /\ hm[n[old]] = hm[old]
         /\ rk[old] < rk[n[old]] /\ n[old] # old /\ n[old] # new
  BY CellFacts DEF InOrder
<1>3. PointersType(n2, p2)
  BY <1>1, <1>2, CellFacts DEF PointersType, MoveNext, MovePrev, Pointer, Cell
<1>4. /\ n2[p[old]] = new /\ n2[new] = n[old]
      /\ \A c \in Cell: c # p[old] /\ c # old /\ c # new => n2[c] = n[c]
  BY <1>1 DEF PointersType, MoveNext
<1>5. \A a \in Addr: p2[a] = IF a = new THEN p[old] ELSE IF a = old THEN Null
                             ELSE IF a = n[old] THEN new ELSE p[a]
  BY DEF MovePrev
<1>6. rk2 \in [Cell -> Nat] /\ rk2[new] = rk[old] /\ \A c \in Cell: c # new => rk2[c] = rk[c]
  BY <1>1
<1> HIDE DEF n2, p2, rk2
<1>7. ASSUME NEW c \in HeadCell \cup ((L \ {old}) \cup {new})
      PROVE  \/ n2[c] = Null
             \/ /\ n2[c] \in (L \ {old}) \cup {new} /\ p2[n2[c]] = c
                /\ hm2[n2[c]] = hm2[c] /\ rk2[c] < rk2[n2[c]]
  <2>0. c \in Cell /\ c # old
    BY CellFacts, <1>1
  <2>1. CASE c = p[old]
    <3>1. hm[old] = hm[c] /\ rk[c] < rk[old] /\ c # new
      BY <2>1, <1>1, CellFacts DEF InOrder
    <3>2. hm2[c] = hm[c]
      BY <2>0, <2>1, <1>1
    <3> QED
      BY <2>0, <2>1, <3>1, <3>2, <1>1, <1>4, <1>5, <1>6
  <2>2. CASE c = new /\ n[old] # Null
    <3>1. n[old] \in Addr /\ n[old] \in Cell /\ hm2[n[old]] = hm[n[old]]
      BY <2>2, <1>2, CellFacts
    <3> QED
      BY <2>2, <3>1, <1>2, <1>4, <1>5, <1>6
  <2>3. CASE c # p[old] /\ c # new /\ n[c] # Null
    <3>1. /\ n[c] \in L /\ p[n[c]] = c /\ hm[n[c]] = hm[c] /\ rk[c] < rk[n[c]]
          /\ c \in HeadCell \cup L
      BY <2>3, CellFacts DEF InOrder
    <3>2. n[c] # old /\ n[c] # n[old] /\ n[c] # new /\ n[c] \in Addr /\ n[c] \in Cell
      BY <2>0, <2>3, <3>1, <1>2, CellFacts
    <3>3. hm2[c] = hm[c] /\ hm2[n[c]] = hm[n[c]]
      BY <2>0, <3>1, <3>2
    <3> QED
      BY <2>0, <2>3, <3>1, <3>2, <3>3, <1>4, <1>5, <1>6
  <2> QED
    BY <2>0, <2>1, <2>2, <2>3, <1>4
<1>8. ASSUME NEW a \in (L \ {old}) \cup {new}
      PROVE  p2[a] \in HeadCell \cup ((L \ {old}) \cup {new}) /\ n2[p2[a]] = a
  <2>1. CASE a = new
    BY <2>1, <1>1, <1>4, <1>5
  <2>2. CASE a # new /\ a = n[old]
    BY <2>2, <1>1, <1>4, <1>5
  <2>3. CASE a # new /\ a # n[old]
    <3>1. /\ p[a] \in HeadCell \cup L /\ n[p[a]] = a /\ p[a] \in Cell /\ p[a] # old
          /\ p[a] # p[old] /\ p[a] # new
      BY <2>3, <1>1, CellFacts DEF InOrder
    <3> QED
      BY <2>3, <3>1, <1>4, <1>5
  <2> QED
    BY <2>1, <2>2, <2>3
<1>9. rk2 \in Ranks
  <2>1. PICK m \in Nat: \A d \in Cell: rk[d] <= m
    BY DEF Ranks
  <2>2. \A d \in Cell: rk2[d] <= m
    BY <2>1, <1>1, <1>6
  <2> QED
    BY <2>2, <1>6 DEF Ranks
<1> QED
  BY <1>3, <1>9, <1>7, <1>8 DEF InOrder, n2, p2, rk2

-----------------------------------------------------------------------------
(* The chains of the cache *)

Homes == [c \in Cell |-> Home(c)]

Lists ==
  /\ PointersType(next, prev)
  /\ ent \in [Addr -> Entry \cup {Free}]
  /\ linked \in SUBSET Addr /\ removed \in SUBSET Addr /\ linked \cap removed = {}
  /\ \A a \in Listed: ent[a] # Free
  /\ \E rk \in Ranks: InOrder(next, prev, Listed, Homes, rk)

\* Chains in order stay so if every cell on them is still of the same chain.
LEMMA HomesAgree ==
  ASSUME NEW n, NEW p, NEW L, NEW hm, NEW rk, InOrder(n, p, L, hm, rk),
         NEW hm2, \A c \in HeadCell \cup L: hm2[c] = hm[c]
  PROVE  InOrder(n, p, L, hm2, rk)
BY DEF InOrder

\* Homes is Home as a function.
LEMMA HomesValue == \A c \in Cell: Homes[c] = Home(c)
BY DEF Homes

\* What is on a chain is an entry in a block.
LEMMA ListedEntry ==
  ASSUME Lists, NEW a \in Listed
  PROVE  a \in Addr /\ ent[a] \in Entry /\ ent[a].ref \in Int /\ ent[a].key \in Key
BY DEF Lists, Listed, Entry

\* The invariant of the chains contains the property.
LEMMA ListsWellLinked == Lists => WellLinked
<1> SUFFICES ASSUME Lists PROVE WellLinked
  OBVIOUS
<1>1. PICK rk \in Ranks: InOrder(next, prev, Listed, Homes, rk)
  BY DEF Lists
<1>2. \A c \in HeadCell \cup Listed: c \in Cell
  BY CellFacts DEF Lists, Listed
<1> QED
  BY <1>1, <1>2, HomesValue DEF InOrder, WellLinked, Lists

\* What the step of a walk finds behind its cell.
LEMMA NextOnChain ==
  ASSUME Lists, NEW c \in HeadCell \cup Listed, next[c] # Null
  PROVE  next[c] \in Listed /\ next[c] # c /\ Home(next[c]) = Home(c)
<1>1. PICK rk \in Ranks: InOrder(next, prev, Listed, Homes, rk)
  BY DEF Lists
<1>2. c \in Cell /\ rk[c] \in Nat
  BY CellFacts DEF Lists, Listed, Ranks
<1>3. next[c] \in Listed /\ Homes[next[c]] = Homes[c] /\ rk[c] < rk[next[c]]
  BY <1>1 DEF InOrder
<1>4. next[c] \in Cell
  BY <1>3, CellFacts DEF Lists, Listed
<1> QED
  BY <1>2, <1>3, <1>4, HomesValue

\* The chain an entry is on says whether it is removed.
LEMMA HomeOf ==
  ASSUME Lists, NEW a \in Listed
  PROVE  /\ a \in removed <=> Home(a) = Gc
         /\ a \in linked <=> Home(a) = SlotHead(ent[a].key)
<1>1. a \notin HeadCell /\ SlotHead(ent[a].key) # Gc
  BY ListedEntry, CellFacts
<1> QED
  BY <1>1 DEF Home, Lists, Listed

\* Steps that touch neither pointers nor keys keep the chains.
LEMMA ListsUnchanged ==
  ASSUME Lists, UNCHANGED <<pointers, linked, removed>>,
         ent' \in [Addr -> Entry \cup {Free}],
         \A a \in Listed: ent'[a] # Free /\ ent'[a].key = ent[a].key
  PROVE  Lists' /\ Listed' = Listed /\ \A c \in HeadCell \cup Listed: Home(c)' = Home(c)
<1>1. Listed' = Listed
  BY DEF Listed
<1>2. ASSUME NEW c \in HeadCell \cup Listed PROVE Home(c)' = Home(c)
  BY CellFacts DEF Home, Listed, Lists
<1>3. PICK rk \in Ranks: InOrder(next, prev, Listed, Homes, rk)
  BY DEF Lists
<1>4. \A c \in HeadCell \cup Listed: Homes'[c] = Homes[c]
  BY <1>2, CellFacts DEF Homes, Lists, Listed
<1>5. InOrder(next, prev, Listed, Homes', rk)
  BY <1>3, <1>4, HomesAgree
<1>6. InOrder(next, prev, Listed, Homes, rk)'
  BY <1>1, <1>5 DEF InOrder, pointers
<1> QED
  BY <1>1, <1>2, <1>6 DEF Lists, pointers

\* apc_cache_wlocked_remove_entry (apc_cache.c:199): the entry leaves its slot, for the gc
\* list or for good.
LEMMA RemoveEffect ==
  ASSUME Lists, NEW e \in linked, RemoveEntry(e)
  PROVE  /\ Lists' /\ linked' = linked \ {e}
         /\ \A c \in (HeadCell \cup Listed) \ {e}:
              c \in HeadCell \cup Listed' /\ Home(c)' = Home(c)
         /\ \/ /\ ent[e].ref <= 0 /\ ent' = [ent EXCEPT ![e] = Free]
               /\ removed' = removed /\ Listed' = Listed \ {e}
            \/ ent[e].ref > 0 /\ ent' = ent /\ Listed' = Listed
<1>0. e \in Listed /\ e \in Addr /\ e \notin removed
  BY DEF Lists, Listed
<1>1. PICK rk \in Ranks: InOrder(next, prev, Listed, Homes, rk)
  BY DEF Lists
<1>2. PICK n, p: n = UnlinkNext(next, prev, e) /\ p = UnlinkPrev(prev, next, e)
  OBVIOUS
<1>3. PointersType(n, p) /\ InOrder(n, p, Listed \ {e}, Homes, rk)
  BY <1>0, <1>1, <1>2, UnlinkInOrder DEF Lists, Listed
<1>4. linked' = linked \ {e}
  BY DEF RemoveEntry
<1>5. CASE RemoveUnused(e)
  <2>1. /\ next' = n /\ prev' = p /\ ent' = [ent EXCEPT ![e] = Free] /\ removed' = removed
        /\ ent[e].ref <= 0
    BY <1>2, <1>5 DEF RemoveUnused, Unlink, FreeEntry
  <2>2. Listed' = Listed \ {e}
    BY <1>0, <1>4, <2>1 DEF Listed
  <2>3. \A c \in (HeadCell \cup Listed) \ {e}: Home(c)' = Home(c)
    BY <1>0, <2>1, CellFacts DEF Home, Lists, Listed
  <2>4. \A c \in HeadCell \cup Listed': Homes'[c] = Homes[c]
    BY <1>0, <2>2, <2>3, CellFacts DEF Homes, Lists, Listed
  <2>5. InOrder(n, p, Listed', Homes', rk)
    BY <1>3, <2>2, <2>4, HomesAgree
  <2>6. InOrder(next, prev, Listed, Homes, rk)'
    BY <2>1, <2>5 DEF InOrder
  <2>7. \A a \in Listed': ent'[a] # Free
    BY <2>1, <2>2 DEF Lists, Listed
  <2>8. ent' \in [Addr -> Entry \cup {Free}]
    BY <2>1 DEF Lists
  <2>9. Lists'
    BY <1>3, <1>4, <2>1, <2>6, <2>7, <2>8 DEF Lists, PointersType
  <2> QED
    BY <1>0, <1>4, <2>1, <2>2, <2>3, <2>9, CellFacts
<1>6. CASE RemoveUsed(e)
  <2>1. /\ next' = LinkNext(n, Gc, e) /\ prev' = LinkPrev(p, n, Gc, e) /\ ent' = ent
        /\ removed' = removed \cup {e} /\ ent[e].ref > 0
    BY <1>2, <1>6 DEF RemoveUsed
  <2>2. Listed' = Listed
    BY <1>0, <1>4, <2>1 DEF Listed
  <2>3. \A c \in (HeadCell \cup Listed) \ {e}: Home(c)' = Home(c)
    BY <1>0, <2>1, CellFacts DEF Home, Lists, Listed
  <2>4. Home(e)' = Gc /\ Home(Gc)' = Gc
    BY <1>0, <2>1, CellFacts DEF Home, Gc
  <2>5. \A c \in HeadCell \cup (Listed \ {e}): Homes'[c] = Homes[c]
    BY <1>0, <2>3, CellFacts DEF Homes, Lists, Listed
  <2>6. Homes'[e] = Homes'[Gc]
    BY <1>0, <2>4, CellFacts DEF Homes
  <2>7. InOrder(n, p, Listed \ {e}, Homes', rk)
    BY <1>3, <2>5, HomesAgree
  <2>8. Listed \ {e} \in SUBSET Addr /\ e \in Addr \ (Listed \ {e}) /\ Gc \in HeadCell \cup (Listed \ {e})
    BY <1>0, CellFacts DEF Lists, Listed
  <2>9. /\ PointersType(next', prev') /\ Between(rk, Gc, e) \in Ranks
        /\ InOrder(next', prev', (Listed \ {e}) \cup {e}, Homes', Between(rk, Gc, e))
    BY <1>3, <2>1, <2>6, <2>7, <2>8, LinkInOrder
  <2>10. (Listed \ {e}) \cup {e} = Listed'
    BY <1>0, <2>2
  <2>11. PICK rk2 \in Ranks: InOrder(next', prev', Listed', Homes', rk2)
    BY <2>9, <2>10
  <2>12. InOrder(next, prev, Listed, Homes, rk2)'
    BY <2>11 DEF InOrder
  <2>13. Lists'
    BY <1>0, <1>4, <2>1, <2>2, <2>9, <2>12 DEF Lists, PointersType, Listed
  <2> QED
    BY <1>4, <2>1, <2>2, <2>3, <2>13
<1> QED
  BY <1>5, <1>6 DEF RemoveEntry

\* A collected entry leaves the gc list (apc_cache.c:253).
LEMMA CollectEffect ==
  ASSUME Lists, NEW e \in removed, Unlink(e), FreeEntry(e),
         removed' = removed \ {e}, UNCHANGED linked
  PROVE  /\ Lists' /\ Listed' = Listed \ {e}
         /\ \A c \in (HeadCell \cup Listed) \ {e}:
              c \in HeadCell \cup Listed' /\ Home(c)' = Home(c)
<1>0. e \in Listed /\ e \in Addr /\ e \notin linked
  BY DEF Lists, Listed
<1>1. PICK rk \in Ranks: InOrder(next, prev, Listed, Homes, rk)
  BY DEF Lists
<1>2. next' = UnlinkNext(next, prev, e) /\ prev' = UnlinkPrev(prev, next, e)
  BY DEF Unlink
<1>3. PointersType(next', prev') /\ InOrder(next', prev', Listed \ {e}, Homes, rk)
  BY <1>0, <1>1, <1>2, UnlinkInOrder DEF Lists, Listed
<1>4. Listed' = Listed \ {e} /\ ent' = [ent EXCEPT ![e] = Free]
  BY <1>0 DEF Listed, FreeEntry
<1>5. \A c \in (HeadCell \cup Listed) \ {e}: Home(c)' = Home(c)
  BY <1>0, <1>4, CellFacts DEF Home, Lists, Listed
<1>6. \A c \in HeadCell \cup Listed': Homes'[c] = Homes[c]
  BY <1>0, <1>4, <1>5, CellFacts DEF Homes, Lists, Listed
<1>7. InOrder(next', prev', Listed', Homes', rk)
  BY <1>3, <1>4, <1>6, HomesAgree
<1>8. InOrder(next, prev, Listed, Homes, rk)'
  BY <1>7 DEF InOrder
<1>9. Lists'
  BY <1>3, <1>4, <1>8 DEF Lists, PointersType, Listed
<1> QED
  BY <1>0, <1>4, <1>5, <1>9, CellFacts

\* A new entry joins the slot of its key (apc_cache.c:406).
LEMMA LinkEffect ==
  ASSUME Lists, NEW c \in HeadCell \cup Listed, NEW e \in Addr \ Listed, ent[e] # Free,
         Home(c) = SlotHead(ent[e].key), Link(c, e),
         linked' = linked \cup {e}, UNCHANGED <<ent, removed>>
  PROVE  Lists' /\ Listed' = Listed \cup {e}
<1>1. PICK rk \in Ranks: InOrder(next, prev, Listed, Homes, rk)
  BY DEF Lists
<1>2. next' = LinkNext(next, c, e) /\ prev' = LinkPrev(prev, next, c, e)
  BY DEF Link
<1>3. Listed' = Listed \cup {e}
  BY DEF Listed
<1>4. Homes' = Homes
  BY DEF Homes, Home
<1>5. Homes[e] = Homes[c]
  BY CellFacts, HomesValue DEF Home, Lists, Listed
<1>6. /\ PointersType(next', prev') /\ Between(rk, c, e) \in Ranks
      /\ InOrder(next', prev', Listed \cup {e}, Homes, Between(rk, c, e))
  <2>1. PointersType(next, prev) /\ Listed \in SUBSET Addr
    BY DEF Lists, Listed
  <2> QED
    BY <2>1, <1>1, <1>2, <1>5, LinkInOrder
<1>7. PICK rk2 \in Ranks: InOrder(next', prev', Listed', Homes', rk2)
  BY <1>3, <1>4, <1>6
<1>8. InOrder(next, prev, Listed, Homes, rk2)'
  BY <1>7 DEF InOrder
<1> QED
  BY <1>3, <1>6, <1>8 DEF Lists, PointersType, Listed

\* An entry that is moved stays where it was on its chain (apc_cache.c:170-173).
LEMMA MoveEffect ==
  ASSUME Lists, NEW old \in Listed, NEW new \in Addr, ent[new] = Free,
         next' = MoveNext(next, prev, old, new), prev' = MovePrev(prev, next, old, new),
         ent' = [ent EXCEPT ![new] = ent[old], ![old] = Free],
         linked' = IF old \in linked THEN (linked \ {old}) \cup {new} ELSE linked,
         removed' = IF old \in removed THEN (removed \ {old}) \cup {new} ELSE removed
  PROVE  Lists' /\ Listed' = (Listed \ {old}) \cup {new}
<1>1. PICK rk \in Ranks: InOrder(next, prev, Listed, Homes, rk)
  BY DEF Lists
<1>2. /\ new \notin Listed /\ old \in Addr /\ old # new /\ new \notin linked
      /\ new \notin removed /\ Listed \in SUBSET Addr
  BY DEF Lists, Listed
<1>3. Listed' = (Listed \ {old}) \cup {new}
  BY <1>2 DEF Lists, Listed
<1>4. ent'[new] = ent[old] /\ \A a \in Addr: a # old /\ a # new => ent'[a] = ent[a]
  BY <1>2 DEF Lists
<1>5. Home(new)' = Home(old)
  BY <1>2, <1>4, CellFacts DEF Home, Lists, Listed
<1>6. \A c \in HeadCell \cup Listed: c # old => Home(c)' = Home(c)
  BY <1>2, <1>4, CellFacts DEF Home, Lists, Listed
<1>7. Homes'[new] = Homes[old] /\ \A c \in HeadCell \cup Listed: c # old => Homes'[c] = Homes[c]
  BY <1>2, <1>5, <1>6, CellFacts DEF Homes
<1>8. PICK rk2: rk2 = [rk EXCEPT ![new] = rk[old]]
  OBVIOUS
<1>9. /\ PointersType(next', prev') /\ rk2 \in Ranks
      /\ InOrder(next', prev', (Listed \ {old}) \cup {new}, Homes', rk2)
  <2>1. PointersType(next, prev) /\ Listed \in SUBSET Addr /\ new \in Addr \ Listed
    BY <1>2 DEF Lists
  <2>2. PICK hm, hm2: hm = Homes /\ hm2 = Homes'
    OBVIOUS
  <2>3. /\ InOrder(next, prev, Listed, hm, rk) /\ hm2[new] = hm[old]
        /\ \A c \in HeadCell \cup Listed: c # old => hm2[c] = hm[c]
    BY <1>1, <1>7, <2>2
  <2>4. /\ PointersType(MoveNext(next, prev, old, new), MovePrev(prev, next, old, new))
        /\ [rk EXCEPT ![new] = rk[old]] \in Ranks
        /\ InOrder(MoveNext(next, prev, old, new), MovePrev(prev, next, old, new),
                   (Listed \ {old}) \cup {new}, hm2, [rk EXCEPT ![new] = rk[old]])
    BY <2>1, <2>3, <1>1, MoveInOrder
  <2> QED
    BY <2>2, <2>4, <1>8
<1>10. InOrder(next, prev, Listed, Homes, rk2)'
  BY <1>3, <1>9 DEF InOrder
<1>11. ent' \in [Addr -> Entry \cup {Free}] /\ \A a \in Listed': ent'[a] # Free
  BY <1>2, <1>3, <1>4 DEF Lists, Listed
<1>12. linked' \in SUBSET Addr /\ removed' \in SUBSET Addr /\ linked' \cap removed' = {}
  BY <1>2 DEF Lists
<1> QED
  BY <1>3, <1>9, <1>10, <1>11, <1>12 DEF Lists, PointersType

-----------------------------------------------------------------------------
(* The operations *)

OnChain(c, h) == c \in HeadCell \cup Listed /\ Home(c) = h

Locked == {"gc", "insert", "link", "delete", "wipe"}
Storing(w) == \/ w.step \in {"wait", "insert", "link", "drop"}
              \/ w.step = "gc" /\ w.op # "clear"

\* Where an operation is, and what it holds: a store has its new entry to itself until it
\* is linked, and the cell of a walk is on the chain it walks along.
Control(p) ==
  /\ wr[p].step \in Locked => lock = p
  /\ Storing(wr[p]) => wr[p].new \in Addr \ Listed /\ ent[wr[p].new] # Free
  /\ Storing(wr[p]) /\ wr[p].step # "drop" => ent[wr[p].new].key = wr[p].key
  /\ wr[p].step = "release" => wr[p].new \in Listed
  /\ ~Storing(wr[p]) /\ wr[p].step # "release" => wr[p].new = Null
  /\ wr[p].step = "wait" => wr[p].op # "clear" /\ wr[p].cur = Gc
  /\ wr[p].step = "gc" => OnChain(wr[p].cur, Gc)
  /\ wr[p].step \in {"insert", "link", "delete"} => OnChain(wr[p].cur, SlotHead(wr[p].key))
  /\ wr[p].step = "wipe" => wr[p].op = "clear" /\ wr[p].cur \in 0..(NSlots - 1)

\* Every block belongs to the allocator, to a chain, or to one store.
Owned ==
  /\ \A p, q \in Writer: p # q /\ wr[p].new # Null => wr[p].new # wr[q].new
  /\ \A a \in Addr \ Listed: ent[a] # Free => \E p \in Writer: wr[p].new = a

ProcessTypes ==
  /\ wr \in [Writer -> OpRecord] /\ lock \in Writer \cup {Nobody}
  /\ held \in [Reader -> SUBSET Addr] /\ now \in Nat

ChainsInv ==
  /\ ProcessTypes /\ Lists /\ PinsExact /\ Owned
  /\ \A p \in Writer: Control(p)

Storers(a) == {p \in Writer: wr[p].new = a}
ReadersOf(a) == {r \in Reader: a \in held[r]}

\* The holders of a block can be counted.
LEMMA HoldersSize ==
  ASSUME NEW a
  PROVE  /\ IsFiniteSet(Storers(a)) /\ IsFiniteSet(ReadersOf(a))
         /\ Cardinality(Storers(a)) \in Nat /\ Cardinality(ReadersOf(a)) \in Nat
         /\ Storers(a) # {} => Cardinality(Storers(a)) > 0
         /\ ReadersOf(a) # {} => Cardinality(ReadersOf(a)) > 0
         /\ Holders(a) = Cardinality(Storers(a)) + Cardinality(ReadersOf(a))
<1>1. Storers(a) \in SUBSET Writer /\ ReadersOf(a) \in SUBSET Reader
  BY DEF Storers, ReadersOf
<1>2. IsFiniteSet(Storers(a)) /\ IsFiniteSet(ReadersOf(a))
  BY <1>1, ProcessAssumption, FS_Subset
<1>3. Cardinality(Storers(a)) \in Nat /\ Cardinality(ReadersOf(a)) \in Nat
  BY <1>2, FS_CardinalityType
<1>4. /\ Storers(a) # {} => Cardinality(Storers(a)) # 0
      /\ ReadersOf(a) # {} => Cardinality(ReadersOf(a)) # 0
  BY <1>2, FS_EmptySet
<1>5. Holders(a) = Cardinality(Storers(a)) + Cardinality(ReadersOf(a))
  BY DEF Holders, Storers, ReadersOf
<1> QED
  BY <1>2, <1>3, <1>4, <1>5

\* An entry without references is nobody's.
LEMMA NobodyHolds ==
  ASSUME PinsExact, NEW a \in Addr, ent[a] # Free, ent[a].ref <= 0
  PROVE  /\ \A p \in Writer: wr[p].new # a
         /\ \A r \in Reader: a \notin held[r]
<1>1. Holders(a) <= 0
  BY DEF PinsExact
<1>2. Storers(a) = {} /\ ReadersOf(a) = {}
  BY <1>1, HoldersSize
<1> QED
  BY <1>2 DEF Storers, ReadersOf

\* The block a store holds is an entry.
LEMMA NewIsEntry ==
  ASSUME ChainsInv, NEW p \in Writer, wr[p].new # Null
  PROVE  /\ wr[p].new \in Addr /\ ent[wr[p].new] \in Entry /\ ent[wr[p].new] # Free
         /\ ent[wr[p].new].ref > 0
<1>1. wr[p].new \in Addr /\ ent[wr[p].new] # Free
  <2>1. Control(p)
    BY DEF ChainsInv
  <2>2. CASE Storing(wr[p])
    BY <2>1, <2>2 DEF Control
  <2>3. CASE wr[p].step = "release"
    BY <2>1, <2>3 DEF Control, ChainsInv, Lists, Listed
  <2> QED
    BY <2>1, <2>2, <2>3 DEF Control
<1>2. ent[wr[p].new] \in Entry
  BY <1>1 DEF ChainsInv, Lists
<1>3. ent[wr[p].new].ref \in Int
  BY <1>2 DEF Entry
<1> QED
  BY <1>1, <1>2, <1>3, NobodyHolds DEF ChainsInv

\* What a step of others leaves to an operation.
LEMMA OtherControl ==
  ASSUME NEW q, Lists, Control(q), wr'[q] = wr[q],
         wr[q].new # Null =>
           /\ wr[q].new \in Listed' <=> wr[q].new \in Listed
           /\ ent[wr[q].new] # Free =>
                ent'[wr[q].new] # Free /\ ent'[wr[q].new].key = ent[wr[q].new].key,
         wr[q].step \in Locked =>
           /\ lock' = lock
           /\ \A c \in HeadCell \cup Listed:
                c \in HeadCell \cup Listed' /\ Home(c)' = Home(c)
  PROVE  Control(q)'
<1>1. wr[q].step \in Locked => lock' = q
  BY DEF Control
<1>2. Storing(wr[q]) => wr[q].new \in Addr \ Listed' /\ ent'[wr[q].new] # Free
  BY CellFacts DEF Control
<1>3. Storing(wr[q]) /\ wr[q].step # "drop" => ent'[wr[q].new].key = wr[q].key
  BY CellFacts DEF Control
<1>4. wr[q].step = "release" => wr[q].new \in Listed'
  BY CellFacts DEF Control, Lists, Listed
<1> QED
  BY <1>1, <1>2, <1>3, <1>4 DEF Control, OnChain, Locked, Storing

\* A step of p that holds the lock, or takes it, keeps the invariant if it frees only
\* entries nobody refers to and keeps the others where they are.
LEMMA StepInv ==
  ASSUME ChainsInv, NEW p \in Writer, NEW w \in OpRecord, wr' = [wr EXCEPT ![p] = w],
         w.new = wr[p].new, UNCHANGED <<held, now>>,
         lock = p \/ lock = Nobody, lock' = p \/ lock' = Nobody, Lists',
         \A a \in Addr: \/ ent'[a] = ent[a]
                        \/ ent'[a] = Free /\ ent[a] # Free /\ ent[a].ref <= 0,
         \A a \in Listed: ent'[a] # Free => a \in Listed',
         \A a \in Listed': a \in Listed \/ a = wr[p].new,
         Control(p)'
  PROVE  ChainsInv'
<1>1. wr'[p] = w /\ \A q \in Writer: q # p => wr'[q] = wr[q]
  BY DEF ChainsInv, ProcessTypes
<1>2. \A q \in Writer: wr'[q].new = wr[q].new
  BY <1>1
<1>3. \A a: Storers(a)' = Storers(a) /\ ReadersOf(a)' = ReadersOf(a)
  BY <1>2 DEF Storers, ReadersOf
<1>4. \A a: Holders(a)' = Holders(a)
  BY <1>3 DEF Holders, Storers, ReadersOf
<1>5. ProcessTypes'
  BY DEF ChainsInv, ProcessTypes
<1>6. PinsExact'
  <2>1. ASSUME NEW r \in Reader, NEW a \in held[r] PROVE a \in Listed'
    <3>1. a \in Listed /\ a \in Addr /\ ent[a] # Free
      BY DEF ChainsInv, PinsExact, Lists, Listed
    <3>2. ent'[a] # Free
      BY <3>1, NobodyHolds DEF ChainsInv
    <3> QED
      BY <3>1, <3>2
  <2> QED
    BY <1>4, <2>1 DEF ChainsInv, PinsExact
<1>7. Owned'
  <2>1. ASSUME NEW a \in Addr \ Listed', ent'[a] # Free
        PROVE  \E q \in Writer: wr'[q].new = a
    BY <1>2, <2>1 DEF ChainsInv, Owned
  <2> QED
    BY <1>2, <2>1 DEF ChainsInv, Owned
<1>8. ASSUME NEW q \in Writer, q # p PROVE Control(q)'
  <2>1. Control(q) /\ Lists /\ wr'[q] = wr[q]
    BY <1>1, <1>8 DEF ChainsInv
  <2>2. ASSUME wr[q].new # Null
        PROVE  /\ wr[q].new \in Listed' <=> wr[q].new \in Listed
               /\ ent'[wr[q].new] = ent[wr[q].new] /\ ent[wr[q].new] # Free
    <3>1. /\ wr[q].new \in Addr /\ ent[wr[q].new] # Free /\ ent[wr[q].new].ref > 0
          /\ ent[wr[q].new] \in Entry
      BY <2>2, NewIsEntry
    <3>2. ent[wr[q].new].ref \in Int
      BY <3>1 DEF Entry
    <3>3. ent'[wr[q].new] = ent[wr[q].new]
      BY <3>1, <3>2
    <3>4. wr[q].new # wr[p].new
      BY <2>2, <1>8 DEF ChainsInv, Owned
    <3> QED
      BY <3>1, <3>3, <3>4
  <2>3. wr[q].step \notin Locked
    BY <2>1, <1>8, ProcessAssumption DEF Control
  <2> QED
    BY <2>1, <2>2, <2>3, OtherControl
<1> QED
  BY <1>5, <1>6, <1>7, <1>8 DEF ChainsInv

\* A step of p that leaves the chains alone.
LEMMA StayInv ==
  ASSUME ChainsInv, NEW p \in Writer, NEW w \in OpRecord, wr' = [wr EXCEPT ![p] = w],
         w.new = wr[p].new, UNCHANGED <<chains, held, now>>,
         lock = p \/ lock = Nobody, lock' = p \/ lock' = Nobody,
         Control(p)'
  PROVE  ChainsInv'
<1>1. Lists' /\ Listed' = Listed /\ ent' = ent
  <2>1. ent' = ent /\ UNCHANGED <<pointers, linked, removed>>
    BY DEF chains
  <2>2. ent' \in [Addr -> Entry \cup {Free}] /\ Lists
    BY <2>1 DEF ChainsInv, Lists
  <2>3. \A a \in Listed: ent'[a] # Free /\ ent'[a].key = ent[a].key
    BY <2>1, <2>2 DEF Lists
  <2> QED
    BY <2>1, <2>2, <2>3, ListsUnchanged
<1> QED
  BY <1>1, StepInv

\* The state of a process outside of the cache is of the right type.
LEMMA NoOpType == NoOp \in OpRecord
<1>1. AnyKey \in Key
  BY KeyAssumption DEF AnyKey
<1> QED
  BY <1>1, CellFacts DEF NoOp, OpRecord, Steps, Pointer, Cell

\* The record of p in the next state.
Becomes(p, op, step, key, new, cur) ==
  \E w \in OpRecord:
    /\ wr' = [wr EXCEPT ![p] = w]
    /\ w.op = op /\ w.step = step /\ w.key = key /\ w.new = new /\ w.cur = cur

\* SetStep changes nothing but the step.
LEMMA SetStepBecomes ==
  ASSUME ChainsInv, NEW p \in Writer, NEW s \in Steps, SetStep(p, s)
  PROVE  Becomes(p, wr[p].op, s, wr[p].key, wr[p].new, wr[p].cur)
<1>1. PICK w: w = [wr[p] EXCEPT !.step = s]
  OBVIOUS
<1>2. wr[p] \in OpRecord /\ wr \in [Writer -> OpRecord]
  BY DEF ChainsInv, ProcessTypes
<1>3. /\ w \in OpRecord /\ w.op = wr[p].op /\ w.step = s /\ w.key = wr[p].key
      /\ w.new = wr[p].new /\ w.cur = wr[p].cur
  BY <1>1, <1>2 DEF OpRecord
<1>4. wr' = [wr EXCEPT ![p] = w]
  BY <1>1, <1>2 DEF SetStep
<1> QED
  BY <1>3, <1>4 DEF Becomes

\* SetCur changes nothing but the cell.
LEMMA SetCurBecomes ==
  ASSUME ChainsInv, NEW p \in Writer, NEW c \in Cell, SetCur(p, c)
  PROVE  Becomes(p, wr[p].op, wr[p].step, wr[p].key, wr[p].new, c)
<1>1. PICK w: w = [wr[p] EXCEPT !.cur = c]
  OBVIOUS
<1>2. wr[p] \in OpRecord /\ wr \in [Writer -> OpRecord]
  BY DEF ChainsInv, ProcessTypes
<1>3. /\ w \in OpRecord /\ w.op = wr[p].op /\ w.step = wr[p].step /\ w.key = wr[p].key
      /\ w.new = wr[p].new /\ w.cur = c
  BY <1>1, <1>2 DEF OpRecord
<1>4. wr' = [wr EXCEPT ![p] = w]
  BY <1>1, <1>2 DEF SetCur
<1> QED
  BY <1>3, <1>4 DEF Becomes

\* Finish leaves a process outside of the cache.
LEMMA FinishBecomes ==
  ASSUME NEW p \in Writer, Finish(p)
  PROVE  Becomes(p, "none", "idle", AnyKey, Null, Gc)
BY NoOpType DEF Finish, NoOp, Becomes

\* What a next step of p must fit, if the chains stay: the step and what it holds, and
\* the cell of a walk.
Follows(p, op, step, key) ==
  \/ step = "drop" /\ Storing(wr[p])
  \/ /\ step \in {"insert", "link"} \/ (step = "gc" /\ op # "clear")
     /\ Storing(wr[p]) /\ wr[p].step # "drop" /\ key = wr[p].key
  \/ /\ step \in {"idle", "delete", "wipe"} \/ (step = "gc" /\ op = "clear")
     /\ ~Storing(wr[p]) /\ wr[p].step # "release"
Placed(op, step, key, cur) ==
  /\ step = "gc" => OnChain(cur, Gc)
  /\ step \in {"insert", "link", "delete"} => OnChain(cur, SlotHead(key))
  /\ step = "wipe" => op = "clear" /\ cur \in 0..(NSlots - 1)

\* A step that leaves the chains alone keeps the invariant, in terms of the state before.
LEMMA StepStay ==
  ASSUME ChainsInv, NEW p \in Writer, NEW op, NEW step, NEW key, NEW new, NEW cur,
         Becomes(p, op, step, key, new, cur), new = wr[p].new,
         chains' = chains, held' = held, now' = now,
         lock = p \/ lock = Nobody, lock' = p \/ lock' = Nobody,
         step \in Locked => lock' = p,
         Follows(p, op, step, key), Placed(op, step, key, cur)
  PROVE  ChainsInv'
<1> USE DEF Follows, Placed
<1>1. PICK w \in OpRecord:
        /\ wr' = [wr EXCEPT ![p] = w]
        /\ w.op = op /\ w.step = step /\ w.key = key /\ w.new = wr[p].new /\ w.cur = cur
  BY DEF Becomes
<1>2. wr'[p] = w
  BY <1>1 DEF ChainsInv, ProcessTypes
<1>3. Control(p)
  BY DEF ChainsInv
<1>4. ent' = ent /\ Listed' = Listed /\ \A c: Home(c)' = Home(c)
  BY DEF chains, Listed, Home
<1>5. \A c, h: OnChain(c, h)' <=> OnChain(c, h)
  BY <1>4 DEF OnChain
<1>6. OnChain(cur, Gc)' <=> OnChain(cur, Gc)
  BY <1>4 DEF OnChain
<1>7. OnChain(cur, SlotHead(key))' <=> OnChain(cur, SlotHead(key))
  BY <1>4 DEF OnChain
<1>8. Control(p)'
  <2>1. w.step \in Locked => lock' = p
    BY <1>1
  <2>2. Storing(w) => Storing(wr[p])
    BY <1>1 DEF Storing
  <2>3. w.new = wr[p].new
    BY <1>1
  <2>4. Storing(w) => w.new \in Addr \ Listed' /\ ent'[w.new] # Free
    BY <1>3, <1>4, <2>2, <2>3 DEF Control
  <2>5. Storing(w) /\ w.step # "drop" => ent'[w.new].key = w.key
    BY <1>1, <1>3, <1>4, <2>2, <2>3 DEF Control, Storing
  <2>6. w.step # "release" /\ w.step # "wait"
    BY <1>1
  <2>7. ~Storing(w) => w.new = Null
    BY <1>1, <1>3, <2>3 DEF Control, Storing
  <2>8. w.step = "gc" => OnChain(w.cur, Gc)'
    BY <1>1, <1>6
  <2>9. w.step \in {"insert", "link", "delete"} => OnChain(w.cur, SlotHead(w.key))'
    BY <1>1, <1>7
  <2>10. w.step = "wipe" => w.op = "clear" /\ w.cur \in 0..(NSlots - 1)
    BY <1>1
  <2> QED
    BY <1>2, <2>1, <2>4, <2>5, <2>6, <2>7, <2>8, <2>9, <2>10
    DEF Control, Storing, OnChain
<1> QED
  BY <1>1, <1>8, StayInv

\* The cell a walk has reached, and the entry behind it.
LEMMA Walk ==
  ASSUME ChainsInv, NEW p \in Writer, wr[p].step \in Locked
  PROVE  /\ lock = p /\ Control(p) /\ wr[p].cur \in HeadCell \cup Listed
         /\ wr[p] \in OpRecord
         /\ wr[p].step = "gc" => Home(wr[p].cur) = Gc
         /\ wr[p].step \in {"insert", "link", "delete"} =>
              Home(wr[p].cur) = SlotHead(wr[p].key)
         /\ wr[p].step = "wipe" => Home(wr[p].cur) # Gc
         /\ next[wr[p].cur] # Null =>
              LET e == next[wr[p].cur]
              IN /\ e \in Listed /\ e # wr[p].cur /\ Home(e) = Home(wr[p].cur)
                 /\ wr[p].step = "gc" => e \in removed
                 /\ wr[p].step # "gc" => e \in linked
<1>1. Control(p) /\ lock = p /\ wr[p] \in OpRecord /\ wr[p].key \in Key /\ Lists
  BY DEF ChainsInv, Control, ProcessTypes, OpRecord
<1>2. 0..(NSlots - 1) \subseteq HeadCell /\ Gc \notin 0..(NSlots - 1)
  BY SlotAssumption DEF HeadCell, Gc
<1>3. wr[p].step = "gc" => wr[p].cur \in HeadCell \cup Listed /\ Home(wr[p].cur) = Gc
  BY <1>1 DEF Control, OnChain
<1>4. wr[p].step \in {"insert", "link", "delete"} =>
        wr[p].cur \in HeadCell \cup Listed /\ Home(wr[p].cur) = SlotHead(wr[p].key)
  BY <1>1 DEF Control, OnChain
<1>5. wr[p].step = "wipe" => wr[p].cur \in HeadCell /\ Home(wr[p].cur) # Gc
  BY <1>1, <1>2 DEF Control, Home
<1>6. /\ wr[p].cur \in HeadCell \cup Listed
      /\ wr[p].step = "gc" \/ Home(wr[p].cur) # Gc
  BY <1>1, <1>3, <1>4, <1>5, CellFacts DEF Locked
<1>7. ASSUME next[wr[p].cur] # Null
      PROVE  /\ next[wr[p].cur] \in Listed /\ next[wr[p].cur] # wr[p].cur
             /\ Home(next[wr[p].cur]) = Home(wr[p].cur)
             /\ wr[p].step = "gc" => next[wr[p].cur] \in removed
             /\ wr[p].step # "gc" => next[wr[p].cur] \in linked
  <2>1. PICK e: e = next[wr[p].cur]
    OBVIOUS
  <2>2. e \in Listed /\ e # wr[p].cur /\ Home(e) = Home(wr[p].cur)
    BY <1>1, <1>6, <1>7, <2>1, NextOnChain
  <2>3. e \in removed <=> Home(e) = Gc
    BY <1>1, <2>2, HomeOf
  <2>4. e \in removed \/ e \in linked
    BY <2>2 DEF Listed
  <2> QED
    BY <1>3, <1>6, <2>1, <2>2, <2>3, <2>4
<1> QED
  BY <1>1, <1>3, <1>4, <1>5, <1>6, <1>7

\* A step of a walk to the next cell.
LEMMA SkipInv ==
  ASSUME ChainsInv, NEW p \in Writer, wr[p].step \in {"gc", "insert", "delete"},
         next[wr[p].cur] # Null, SetCur(p, next[wr[p].cur]),
         UNCHANGED <<chains, lock, held, now>>
  PROVE  ChainsInv'
<1>1. /\ lock = p /\ next[wr[p].cur] \in Listed
      /\ Home(next[wr[p].cur]) = Home(wr[p].cur)
      /\ wr[p].step = "gc" => Home(wr[p].cur) = Gc
      /\ wr[p].step \in {"insert", "delete"} => Home(wr[p].cur) = SlotHead(wr[p].key)
  BY Walk DEF Locked
<1>2. next[wr[p].cur] \in Cell
  BY <1>1, CellFacts DEF ChainsInv, Lists, Listed
<1>3. Becomes(p, wr[p].op, wr[p].step, wr[p].key, wr[p].new, next[wr[p].cur])
  BY <1>2, SetCurBecomes
<1>4. /\ wr[p].step = "gc" => OnChain(next[wr[p].cur], Gc)
      /\ wr[p].step \in {"insert", "delete"} => OnChain(next[wr[p].cur], SlotHead(wr[p].key))
  BY <1>1 DEF OnChain
<1> QED
  BY <1>1, <1>3, <1>4, StepStay DEF Storing, Locked, Follows, Placed

\* The operations that leave the chains alone.
LEMMA BeginDeleteInv ==
  ASSUME ChainsInv, NEW p \in Writer, NEW k \in Key, Idle(p), LockDelete(p, k)
  PROVE  ChainsInv'
<1>1. PICK w: w = [NoOp EXCEPT !.op = "delete", !.step = "delete", !.key = k, !.cur = SlotHead(k)]
  OBVIOUS
<1>2. /\ w \in OpRecord /\ w.op = "delete" /\ w.step = "delete" /\ w.key = k
      /\ w.new = Null /\ w.cur = SlotHead(k)
  BY <1>1, NoOpType, CellFacts DEF OpRecord, Steps, NoOp
<1>3. wr' = [wr EXCEPT ![p] = w]
  BY <1>1 DEF LockDelete
<1>4. Becomes(p, "delete", "delete", k, Null, SlotHead(k))
  BY <1>2, <1>3 DEF Becomes
<1>5. wr[p].new = Null /\ wr[p].step = "idle"
  BY DEF ChainsInv, Control, Storing, Idle
<1>6. OnChain(SlotHead(k), SlotHead(k))
  BY CellFacts DEF OnChain, Home
<1>7. lock = Nobody /\ lock' = p /\ UNCHANGED <<chains, held, now>>
  BY DEF LockDelete
<1> QED
  BY <1>4, <1>5, <1>6, <1>7, StepStay DEF Storing, Locked, Follows, Placed

\* apc_cache_clear takes the lock.
LEMMA BeginClearInv ==
  ASSUME ChainsInv, NEW p \in Writer, BeginClear(p)
  PROVE  ChainsInv'
<1>1. PICK w: w = [NoOp EXCEPT !.op = "clear", !.step = "wipe", !.cur = 0]
  OBVIOUS
<1>2. 0 \in 0..(NSlots - 1) /\ 0 \in Cell
  BY SlotAssumption DEF Cell, HeadCell
<1>3. /\ w \in OpRecord /\ w.op = "clear" /\ w.step = "wipe" /\ w.key = AnyKey
      /\ w.new = Null /\ w.cur = 0
  BY <1>1, <1>2, NoOpType DEF OpRecord, Steps, NoOp
<1>4. wr' = [wr EXCEPT ![p] = w]
  BY <1>1 DEF BeginClear
<1>5. Becomes(p, "clear", "wipe", AnyKey, Null, 0)
  BY <1>3, <1>4 DEF Becomes
<1>6. wr[p].new = Null /\ wr[p].step = "idle"
  BY DEF ChainsInv, Control, Storing, Idle, BeginClear
<1>7. lock = Nobody /\ lock' = p /\ UNCHANGED <<chains, held, now>>
  BY DEF BeginClear
<1>8. Follows(p, "clear", "wipe", AnyKey)
  BY <1>2, <1>6, <1>7 DEF Follows, Storing
<1>9. Placed("clear", "wipe", AnyKey, 0)
  BY <1>2, <1>6, <1>7 DEF Placed
<1>10. "wipe" \in Locked => lock' = p
  BY <1>2, <1>6, <1>7 DEF Locked
<1> QED
  BY <1>5, <1>6, <1>7, <1>8, <1>9, <1>10, StepStay

\* apc_cache_store takes the lock with its block outside of every chain.
LEMMA LockStoreInv ==
  ASSUME ChainsInv, NEW p \in Writer, LockStore(p)
  PROVE  ChainsInv'
<1>1. Becomes(p, wr[p].op, "gc", wr[p].key, wr[p].new, wr[p].cur)
  BY SetStepBecomes DEF LockStore, Steps
<1>2. wr[p].step = "wait" /\ wr[p].op # "clear" /\ wr[p].cur = Gc
  BY DEF ChainsInv, Control, LockStore
<1>3. OnChain(Gc, Gc)
  BY CellFacts DEF OnChain, Home
<1>4. lock = Nobody /\ lock' = p /\ UNCHANGED <<chains, held, now>>
  BY DEF LockStore
<1> QED
  BY <1>1, <1>2, <1>3, <1>4, StepStay DEF Storing, Locked, Follows, Placed

\* The collector passes an entry in use.
LEMMA GcKeepInv ==
  ASSUME ChainsInv, NEW p \in Writer, GcKeep(p)
  PROVE  ChainsInv'
BY SkipInv DEF GcKeep

\* An insertion passes an entry of another key.
LEMMA InsertSkipInv ==
  ASSUME ChainsInv, NEW p \in Writer, InsertSkip(p)
  PROVE  ChainsInv'
BY SkipInv DEF InsertSkip

\* A deletion passes an entry of another key.
LEMMA DeleteSkipInv ==
  ASSUME ChainsInv, NEW p \in Writer, DeleteSkip(p)
  PROVE  ChainsInv'
BY SkipInv DEF DeleteSkip

\* The collector has come to the end of its list.
LEMMA GcEndInv ==
  ASSUME ChainsInv, NEW p \in Writer, GcEnd(p)
  PROVE  ChainsInv'
<1>1. lock = p /\ wr[p] \in OpRecord /\ wr[p].key \in Key /\ Control(p) /\ wr[p].step = "gc"
  BY Walk DEF Locked, GcEnd, OpRecord
<1>2. UNCHANGED <<chains, held, now>>
  BY DEF GcEnd
<1>3. CASE wr[p].op = "clear"
  <2>1. Becomes(p, "none", "idle", AnyKey, Null, Gc) /\ lock' = Nobody
    BY <1>3, FinishBecomes DEF GcEnd, Unlock
  <2>2. wr[p].new = Null
    BY <1>1, <1>3 DEF Control, Storing
  <2>3. Follows(p, "none", "idle", AnyKey)
    BY <1>1, <1>3, <2>1 DEF Follows, Storing
  <2>4. Placed("none", "idle", AnyKey, Gc)
    BY <1>1, <1>3, <2>1 DEF Placed
  <2>5. "idle" \in Locked => lock' = p
    BY <1>1, <1>3, <2>1 DEF Locked
  <2> QED
    BY <1>1, <1>2, <2>1, <2>2, <2>3, <2>4, <2>5, StepStay
<1>4. CASE wr[p].op # "clear"
  <2>1. wr' = [wr EXCEPT ![p].step = "insert", ![p].cur = SlotHead(wr[p].key)] /\ lock' = lock
    BY <1>4 DEF GcEnd
  <2>2. PICK w: w = [wr[p] EXCEPT !.step = "insert", !.cur = SlotHead(wr[p].key)]
    OBVIOUS
  <2>3. /\ w \in OpRecord /\ w.op = wr[p].op /\ w.step = "insert" /\ w.key = wr[p].key
        /\ w.new = wr[p].new /\ w.cur = SlotHead(wr[p].key)
    BY <1>1, <2>2, CellFacts DEF OpRecord, Steps
  <2>4. wr' = [wr EXCEPT ![p] = w]
    BY <2>1, <2>2 DEF ChainsInv, ProcessTypes
  <2>5. Becomes(p, wr[p].op, "insert", wr[p].key, wr[p].new, SlotHead(wr[p].key))
    BY <2>3, <2>4 DEF Becomes
  <2>6. OnChain(SlotHead(wr[p].key), SlotHead(wr[p].key))
    BY <1>1, CellFacts DEF OnChain, Home
  <2>7. Follows(p, wr[p].op, "insert", wr[p].key)
    BY <1>1, <1>4, <2>1, <2>6 DEF Follows, Storing
  <2>8. Placed(wr[p].op, "insert", wr[p].key, SlotHead(wr[p].key))
    BY <1>1, <1>4, <2>1, <2>6 DEF Placed
  <2>9. "insert" \in Locked => lock' = p
    BY <1>1, <1>4, <2>1, <2>6 DEF Locked
  <2> QED
    BY <1>1, <1>2, <2>1, <2>5, <2>7, <2>8, <2>9, StepStay
<1> QED
  BY <1>3, <1>4

\* An add gives way and keeps its block for itself.
LEMMA InsertRefuseInv ==
  ASSUME ChainsInv, NEW p \in Writer, InsertRefuse(p)
  PROVE  ChainsInv'
<1>1. /\ lock = p /\ wr[p] \in OpRecord /\ wr[p].new \in Pointer /\ wr[p].step = "insert"
      /\ lock' = Nobody /\ UNCHANGED <<chains, held, now>>
  BY Walk DEF Locked, InsertRefuse, OpRecord, Unlock
<1>2. PICK w: w = [NoOp EXCEPT !.step = "drop", !.new = wr[p].new]
  OBVIOUS
<1>3. /\ w \in OpRecord /\ w.op = "none" /\ w.step = "drop" /\ w.key = AnyKey
      /\ w.new = wr[p].new /\ w.cur = Gc
  BY <1>1, <1>2, NoOpType DEF OpRecord, Steps, NoOp
<1>4. wr' = [wr EXCEPT ![p] = w]
  BY <1>2 DEF InsertRefuse
<1>5. Becomes(p, "none", "drop", AnyKey, wr[p].new, Gc)
  BY <1>3, <1>4 DEF Becomes
<1>6. Follows(p, "none", "drop", AnyKey)
  BY <1>1 DEF Follows, Storing
<1>7. Placed("none", "drop", AnyKey, Gc)
  BY <1>1 DEF Placed
<1>8. "drop" \in Locked => lock' = p
  BY <1>1 DEF Locked
<1> QED
  BY <1>1, <1>5, <1>6, <1>7, <1>8, StepStay

\* An insertion has come to the end of its slot.
LEMMA InsertEndInv ==
  ASSUME ChainsInv, NEW p \in Writer, InsertEnd(p)
  PROVE  ChainsInv'
<1>1. lock = p /\ Control(p) /\ wr[p].step = "insert" /\ UNCHANGED <<chains, held, now, lock>>
  BY Walk DEF Locked, InsertEnd
<1>2. Becomes(p, wr[p].op, "link", wr[p].key, wr[p].new, wr[p].cur)
  BY SetStepBecomes DEF InsertEnd, Steps
<1>3. OnChain(wr[p].cur, SlotHead(wr[p].key))
  BY <1>1 DEF Control
<1>4. Follows(p, wr[p].op, "link", wr[p].key)
  BY <1>1, <1>3 DEF Follows, Storing
<1>5. Placed(wr[p].op, "link", wr[p].key, wr[p].cur)
  BY <1>1, <1>3 DEF Placed
<1>6. "link" \in Locked => lock' = p
  BY <1>1, <1>3 DEF Locked
<1> QED
  BY <1>1, <1>2, <1>4, <1>5, <1>6, StepStay

\* A deletion has found nothing.
LEMMA DeleteMissingInv ==
  ASSUME ChainsInv, NEW p \in Writer, DeleteMissing(p)
  PROVE  ChainsInv'
<1>1. /\ lock = p /\ Control(p) /\ wr[p].step = "delete" /\ lock' = Nobody
      /\ UNCHANGED <<chains, held, now>>
  BY Walk DEF Locked, DeleteMissing, Unlock
<1>2. Becomes(p, "none", "idle", AnyKey, Null, Gc)
  BY FinishBecomes DEF DeleteMissing
<1>3. wr[p].new = Null
  BY <1>1 DEF Control, Storing
<1>4. Follows(p, "none", "idle", AnyKey)
  BY <1>1 DEF Follows, Storing
<1>5. Placed("none", "idle", AnyKey, Gc)
  BY <1>1 DEF Placed
<1>6. "idle" \in Locked => lock' = p
  BY <1>1 DEF Locked
<1> QED
  BY <1>1, <1>2, <1>3, <1>4, <1>5, <1>6, StepStay

\* A wipe goes on to the next slot, or to the collector.
LEMMA WipeSlotEndInv ==
  ASSUME ChainsInv, NEW p \in Writer, WipeSlotEnd(p)
  PROVE  ChainsInv'
<1>1. /\ lock = p /\ Control(p) /\ wr[p] \in OpRecord /\ wr[p].step = "wipe"
      /\ UNCHANGED <<chains, held, now, lock>>
  BY Walk DEF Locked, WipeSlotEnd
<1>2. wr[p].op = "clear" /\ wr[p].cur \in 0..(NSlots - 1) /\ wr[p].new = Null
  BY <1>1 DEF Control, Storing
<1>3. wr[p].cur + 1 \in HeadCell /\ (wr[p].cur + 1 < NSlots \/ wr[p].cur + 1 = Gc)
  BY <1>2, SlotAssumption DEF HeadCell, Gc
<1>4. PICK s: s = IF wr[p].cur + 1 < NSlots THEN "wipe" ELSE "gc"
  OBVIOUS
<1>5. PICK w: w = [wr[p] EXCEPT !.cur = wr[p].cur + 1, !.step = s]
  OBVIOUS
<1>6. wr' = [wr EXCEPT ![p].cur = @ + 1, ![p].step = s]
  BY <1>4 DEF WipeSlotEnd
<1>7. wr' = [wr EXCEPT ![p] = w]
  BY <1>5, <1>6 DEF ChainsInv, ProcessTypes
<1>8. /\ w \in OpRecord /\ w.op = "clear" /\ w.step = s /\ w.key = wr[p].key
      /\ w.new = wr[p].new /\ w.cur = wr[p].cur + 1
  BY <1>1, <1>2, <1>3, <1>4, <1>5, CellFacts DEF OpRecord, Steps
<1>9. Becomes(p, "clear", s, wr[p].key, wr[p].new, wr[p].cur + 1)
  BY <1>7, <1>8 DEF Becomes
<1>10. s = "gc" => OnChain(wr[p].cur + 1, Gc)
  BY <1>3, <1>4, SlotAssumption DEF OnChain, Home, Gc
<1>11. s = "wipe" => wr[p].cur + 1 \in 0..(NSlots - 1)
  BY <1>2, <1>4, SlotAssumption
<1> QED
  BY <1>1, <1>2, <1>4, <1>9, <1>10, <1>11, StepStay DEF Storing, Locked, Follows, Placed

\* A step that takes the entry behind the walk out of its chain, or out of the cache.
LEMMA TakeOutInv ==
  ASSUME ChainsInv, NEW p \in Writer, wr[p].step \in Locked,
         NEW e \in Listed, e = next[wr[p].cur], next[wr[p].cur] # Null,
         NEW op, NEW step, NEW key, NEW new, NEW cur,
         Becomes(p, op, step, key, new, cur), new = wr[p].new,
         \/ step = "idle" /\ ~Storing(wr[p]) /\ lock' = Nobody
         \/ /\ step = wr[p].step \/ (wr[p].step = "insert" /\ step = "link")
            /\ op = wr[p].op /\ key = wr[p].key /\ cur = wr[p].cur /\ lock' = lock,
         held' = held, now' = now,
         Lists',
         \A c \in (HeadCell \cup Listed) \ {e}:
           c \in HeadCell \cup Listed' /\ Home(c)' = Home(c),
         Listed' \subseteq Listed,
         \/ ent' = ent /\ Listed' = Listed
         \/ ent[e].ref <= 0 /\ ent' = [ent EXCEPT ![e] = Free] /\ Listed' = Listed \ {e}
  PROVE  ChainsInv'
<1>1. PICK w \in OpRecord:
        /\ wr' = [wr EXCEPT ![p] = w]
        /\ w.op = op /\ w.step = step /\ w.key = key /\ w.new = wr[p].new /\ w.cur = cur
  BY DEF Becomes
<1>2. wr'[p] = w
  BY <1>1 DEF ChainsInv, ProcessTypes
<1>3. /\ lock = p /\ Control(p) /\ wr[p].cur \in HeadCell \cup Listed /\ wr[p].cur # e
  BY Walk
<1>4. lock' = p \/ lock' = Nobody
  BY <1>3
<1>5. e \in Addr /\ ent[e] # Free /\ ent \in [Addr -> Entry \cup {Free}]
  BY DEF ChainsInv, Lists, Listed
<1>6. /\ \A a \in Addr: \/ ent'[a] = ent[a]
                        \/ ent'[a] = Free /\ ent[a] # Free /\ ent[a].ref <= 0
      /\ \A a \in Addr: a # e => ent'[a] = ent[a]
  BY <1>5
<1>7. \A a \in Listed: ent'[a] # Free => a \in Listed'
  BY <1>5
<1>8. PICK d: d = wr[p].cur
  OBVIOUS
<1>10. d \in HeadCell \cup Listed' /\ Home(d)' = Home(d)
  BY <1>3, <1>8
<1>9. Control(p)'
  <2>1. Storing(w) => Storing(wr[p]) /\ wr[p].step # "drop" /\ w.key = wr[p].key /\ step = w.step
    BY <1>1 DEF Storing, Locked
  <2>2. Storing(w) => w.new \in Addr \ Listed' /\ ent'[w.new] # Free /\ ent'[w.new].key = w.key
    BY <1>1, <1>3, <1>6, <2>1 DEF Control
  <2>3. w.step \notin {"release", "wait", "drop"}
    BY <1>1 DEF Locked
  <2>4. w.new # Null => Storing(w)
    BY <1>1, <1>3 DEF Control, Storing, Locked
  <2>5. w.step \in Locked => lock' = p
    BY <1>1, <1>3 DEF Locked
  <2>6. w.step = "gc" => OnChain(w.cur, Gc)'
    BY <1>1, <1>3, <1>8, <1>10 DEF Control, OnChain, Locked
  <2>7. w.step \in {"insert", "link", "delete"} => OnChain(w.cur, SlotHead(w.key))'
    BY <1>1, <1>3, <1>8, <1>10 DEF Control, OnChain, Locked
  <2>8. w.step = "wipe" => w.op = "clear" /\ w.cur \in 0..(NSlots - 1)
    BY <1>1, <1>3 DEF Control, Locked
  <2> QED
    BY <1>2, <2>2, <2>3, <2>4, <2>5, <2>6, <2>7, <2>8 DEF Control, OnChain, Storing
<1> QED
  BY <1>1, <1>3, <1>4, <1>6, <1>7, <1>9, StepInv

\* A step that leaves the processes alone, in the words of TakeOutInv.
LEMMA SameBecomes ==
  ASSUME ChainsInv, NEW p \in Writer, wr' = wr
  PROVE  Becomes(p, wr[p].op, wr[p].step, wr[p].key, wr[p].new, wr[p].cur)
<1>1. wr[p] \in OpRecord /\ wr' = [wr EXCEPT ![p] = wr[p]]
  BY DEF ChainsInv, ProcessTypes
<1> QED
  BY <1>1 DEF Becomes

\* Removal, in the words of TakeOutInv.
LEMMA RemoveOut ==
  ASSUME Lists, NEW e \in linked, RemoveEntry(e)
  PROVE  /\ e \in Listed /\ Lists' /\ Listed' \subseteq Listed
         /\ \A c \in (HeadCell \cup Listed) \ {e}:
              c \in HeadCell \cup Listed' /\ Home(c)' = Home(c)
         /\ \/ ent' = ent /\ Listed' = Listed
            \/ ent[e].ref <= 0 /\ ent' = [ent EXCEPT ![e] = Free] /\ Listed' = Listed \ {e}
<1>1. /\ Lists'
      /\ \A c \in (HeadCell \cup Listed) \ {e}:
           c \in HeadCell \cup Listed' /\ Home(c)' = Home(c)
      /\ \/ /\ ent[e].ref <= 0 /\ ent' = [ent EXCEPT ![e] = Free]
            /\ removed' = removed /\ Listed' = Listed \ {e}
         \/ ent[e].ref > 0 /\ ent' = ent /\ Listed' = Listed
  BY RemoveEffect
<1> QED
  BY <1>1 DEF Listed

\* The operations that change the chains.
LEMMA GcFreeInv ==
  ASSUME ChainsInv, NEW p \in Writer, GcFree(p)
  PROVE  ChainsInv'
<1>1. PICK e: e = next[wr[p].cur]
  OBVIOUS
<1>2. wr[p].step = "gc" /\ lock = p /\ e # Null /\ e \in removed /\ e \in Listed /\ Lists
  BY <1>1, Walk DEF GcFree, Locked, ChainsInv
<1>3. /\ ent[e].ref <= 0 /\ Unlink(e) /\ FreeEntry(e) /\ removed' = removed \ {e}
      /\ linked' = linked /\ held' = held /\ now' = now /\ wr' = wr /\ lock' = lock
  BY <1>1 DEF GcFree
<1>4. /\ Lists' /\ Listed' = Listed \ {e}
      /\ \A c \in (HeadCell \cup Listed) \ {e}:
           c \in HeadCell \cup Listed' /\ Home(c)' = Home(c)
  BY <1>2, <1>3, CollectEffect
<1>5. Becomes(p, wr[p].op, wr[p].step, wr[p].key, wr[p].new, wr[p].cur)
  BY <1>3, SameBecomes
<1>6. ent' = [ent EXCEPT ![e] = Free]
  BY <1>3 DEF FreeEntry
<1>7. wr[p].step \in Locked /\ Listed' \subseteq Listed
  BY <1>2, <1>4 DEF Locked
<1> QED
  BY <1>1, <1>2, <1>3, <1>4, <1>5, <1>6, <1>7, TakeOutInv

\* An insertion removes the entry of its key; where it stands stays on the chain.
LEMMA InsertReplaceInv ==
  ASSUME ChainsInv, NEW p \in Writer, InsertReplace(p)
  PROVE  ChainsInv'
<1>1. PICK e: e = next[wr[p].cur]
  OBVIOUS
<1>2. wr[p].step = "insert" /\ e # Null /\ e \in linked /\ Lists
  BY <1>1, Walk DEF InsertReplace, Locked, ChainsInv
<1>3. RemoveEntry(e) /\ held' = held /\ now' = now /\ lock' = lock
  BY <1>1 DEF InsertReplace
<1>4. /\ e \in Listed /\ Lists' /\ Listed' \subseteq Listed
      /\ \A c \in (HeadCell \cup Listed) \ {e}:
           c \in HeadCell \cup Listed' /\ Home(c)' = Home(c)
      /\ \/ ent' = ent /\ Listed' = Listed
         \/ ent[e].ref <= 0 /\ ent' = [ent EXCEPT ![e] = Free] /\ Listed' = Listed \ {e}
  BY <1>2, <1>3, RemoveOut
<1>5. Becomes(p, wr[p].op, "link", wr[p].key, wr[p].new, wr[p].cur)
  BY SetStepBecomes DEF InsertReplace, Steps
<1>6. wr[p].step \in Locked
  BY <1>2 DEF Locked
<1> QED
  BY <1>1, <1>2, <1>3, <1>4, <1>5, <1>6, TakeOutInv

\* An insertion removes an entry that is out of date.
LEMMA InsertExpireInv ==
  ASSUME ChainsInv, NEW p \in Writer, InsertExpire(p)
  PROVE  ChainsInv'
<1>1. PICK e: e = next[wr[p].cur]
  OBVIOUS
<1>2. wr[p].step = "insert" /\ e # Null /\ e \in linked /\ Lists
  BY <1>1, Walk DEF InsertExpire, Locked, ChainsInv
<1>3. RemoveEntry(e) /\ held' = held /\ now' = now /\ lock' = lock /\ wr' = wr
  BY <1>1 DEF InsertExpire
<1>4. /\ e \in Listed /\ Lists' /\ Listed' \subseteq Listed
      /\ \A c \in (HeadCell \cup Listed) \ {e}:
           c \in HeadCell \cup Listed' /\ Home(c)' = Home(c)
      /\ \/ ent' = ent /\ Listed' = Listed
         \/ ent[e].ref <= 0 /\ ent' = [ent EXCEPT ![e] = Free] /\ Listed' = Listed \ {e}
  BY <1>2, <1>3, RemoveOut
<1>5. Becomes(p, wr[p].op, wr[p].step, wr[p].key, wr[p].new, wr[p].cur)
  BY <1>3, SameBecomes
<1>6. wr[p].step \in Locked
  BY <1>2 DEF Locked
<1> QED
  BY <1>1, <1>2, <1>3, <1>4, <1>5, <1>6, TakeOutInv

\* A deletion removes its entry.
LEMMA DeleteFoundInv ==
  ASSUME ChainsInv, NEW p \in Writer, DeleteFound(p)
  PROVE  ChainsInv'
<1>1. PICK e: e = next[wr[p].cur]
  OBVIOUS
<1>2. wr[p].step = "delete" /\ e # Null /\ e \in linked /\ Lists /\ Control(p)
  BY <1>1, Walk DEF DeleteFound, Locked, ChainsInv
<1>3. RemoveEntry(e) /\ held' = held /\ now' = now /\ lock' = Nobody
  BY <1>1 DEF DeleteFound, Unlock
<1>4. /\ e \in Listed /\ Lists' /\ Listed' \subseteq Listed
      /\ \A c \in (HeadCell \cup Listed) \ {e}:
           c \in HeadCell \cup Listed' /\ Home(c)' = Home(c)
      /\ \/ ent' = ent /\ Listed' = Listed
         \/ ent[e].ref <= 0 /\ ent' = [ent EXCEPT ![e] = Free] /\ Listed' = Listed \ {e}
  BY <1>2, <1>3, RemoveOut
<1>5. Becomes(p, "none", "idle", AnyKey, Null, Gc)
  BY FinishBecomes DEF DeleteFound
<1>6. wr[p].step \in Locked /\ ~Storing(wr[p]) /\ wr[p].new = Null
  BY <1>2 DEF Locked, Storing, Control
<1> QED
  BY <1>1, <1>2, <1>3, <1>4, <1>5, <1>6, TakeOutInv

\* A wipe removes the first entry of a slot.
LEMMA WipeEntryInv ==
  ASSUME ChainsInv, NEW p \in Writer, WipeEntry(p)
  PROVE  ChainsInv'
<1>1. PICK e: e = next[wr[p].cur]
  OBVIOUS
<1>2. wr[p].step = "wipe" /\ e # Null /\ e \in linked /\ Lists
  BY <1>1, Walk DEF WipeEntry, Locked, ChainsInv
<1>3. RemoveEntry(e) /\ held' = held /\ now' = now /\ lock' = lock /\ wr' = wr
  BY <1>1 DEF WipeEntry
<1>4. /\ e \in Listed /\ Lists' /\ Listed' \subseteq Listed
      /\ \A c \in (HeadCell \cup Listed) \ {e}:
           c \in HeadCell \cup Listed' /\ Home(c)' = Home(c)
      /\ \/ ent' = ent /\ Listed' = Listed
         \/ ent[e].ref <= 0 /\ ent' = [ent EXCEPT ![e] = Free] /\ Listed' = Listed \ {e}
  BY <1>2, <1>3, RemoveOut
<1>5. Becomes(p, wr[p].op, wr[p].step, wr[p].key, wr[p].new, wr[p].cur)
  BY <1>3, SameBecomes
<1>6. wr[p].step \in Locked
  BY <1>2 DEF Locked
<1> QED
  BY <1>1, <1>2, <1>3, <1>4, <1>5, <1>6, TakeOutInv

\* An insertion links its entry behind the cell where its walk has stopped.
LEMMA InsertLinkInv ==
  ASSUME ChainsInv, NEW p \in Writer, InsertLink(p)
  PROVE  ChainsInv'
<1>1. PICK e: e = wr[p].new
  OBVIOUS
<1>2. /\ wr[p].step = "link" /\ lock = p /\ wr[p].cur \in HeadCell \cup Listed /\ Lists
      /\ Home(wr[p].cur) = SlotHead(wr[p].key) /\ Control(p) /\ wr[p] \in OpRecord
  BY Walk DEF InsertLink, Locked, ChainsInv
<1>3. e \in Addr \ Listed /\ ent[e] # Free /\ ent[e].key = wr[p].key /\ e \in Pointer
  BY <1>1, <1>2, CellFacts DEF Control, Storing
<1>4. /\ Link(wr[p].cur, e) /\ linked' = linked \cup {e} /\ ent' = ent /\ removed' = removed
      /\ wr' = [wr EXCEPT ![p] = [NoOp EXCEPT !.step = "release", !.new = e]]
      /\ lock' = Nobody /\ held' = held /\ now' = now
  BY <1>1 DEF InsertLink, Unlock
<1>5. Lists' /\ Listed' = Listed \cup {e}
  BY <1>2, <1>3, <1>4, LinkEffect
<1>6. PICK w: w = [NoOp EXCEPT !.step = "release", !.new = e]
  OBVIOUS
<1>7. w \in OpRecord /\ w.step = "release" /\ w.new = e
  BY <1>3, <1>6, NoOpType DEF OpRecord, Steps, NoOp
<1>8. wr' = [wr EXCEPT ![p] = w] /\ wr'[p] = w
  BY <1>4, <1>6 DEF ChainsInv, ProcessTypes
<1>9. Control(p)'
  BY <1>5, <1>7, <1>8 DEF Control, Storing, Locked
<1>10. \A a \in Addr: ent'[a] = ent[a]
  BY <1>4
<1>11. /\ \A a \in Listed: ent'[a] # Free => a \in Listed'
       /\ \A a \in Listed': a \in Listed \/ a = wr[p].new
  BY <1>1, <1>5
<1> QED
  BY <1>1, <1>2, <1>4, <1>5, <1>7, <1>8, <1>9, <1>10, <1>11, StepInv

-----------------------------------------------------------------------------
(* References *)

\* The number of holders depends on who holds the block only.
LEMMA HoldersSame ==
  ASSUME NEW a, \A p \in Writer: wr'[p].new = a <=> wr[p].new = a,
         \A r \in Reader: a \in held'[r] <=> a \in held[r]
  PROVE  Holders(a)' = Holders(a)
<1>1. Storers(a)' = Storers(a) /\ ReadersOf(a)' = ReadersOf(a)
  BY DEF Storers, ReadersOf
<1> QED
  BY <1>1 DEF Holders, Storers, ReadersOf

\* Nobody holds a free block, and readers hold nothing outside of the chains.
LEMMA FreeUnheld ==
  ASSUME ChainsInv, NEW a \in Addr, ent[a] = Free
  PROVE  /\ a \notin Listed
         /\ \A p \in Writer: wr[p].new # a
         /\ \A r \in Reader: a \notin held[r]
<1>1. a \notin Listed
  BY DEF ChainsInv, Lists
<1>2. ASSUME NEW p \in Writer, wr[p].new = a PROVE FALSE
  BY <1>2, NewIsEntry, CellFacts
<1> QED
  BY <1>1, <1>2 DEF ChainsInv, PinsExact

\* A store allocates a free block, which nobody holds, with one reference.
LEMMA BeginStoreInv ==
  ASSUME ChainsInv, NEW p \in Writer, BeginStore(p)
  PROVE  ChainsInv'
<1>1. PICK op \in {"store", "add"}, k \in Key, a \in Addr:
        /\ ent[a] = Free
        /\ ent' = [ent EXCEPT ![a] = [key |-> k, exp |-> Expiry(now, TtlOf[k]), ref |-> 1]]
        /\ wr' = [wr EXCEPT ![p] = [op |-> op, step |-> "wait", key |-> k, t |-> now,
                                    new |-> a, cur |-> Gc]]
  BY DEF BeginStore
<1>2. /\ UNCHANGED <<pointers, linked, removed>> /\ lock' = lock /\ held' = held /\ now' = now
      /\ wr[p].step = "idle" /\ Lists /\ Control(p) /\ wr \in [Writer -> OpRecord]
      /\ ent \in [Addr -> Entry \cup {Free}] /\ now \in Nat
  BY DEF BeginStore, Idle, ChainsInv, Lists, ProcessTypes
<1>3. PICK e: e = [key |-> k, exp |-> Expiry(now, TtlOf[k]), ref |-> 1]
  OBVIOUS
<1>4. PICK w: w = [op |-> op, step |-> "wait", key |-> k, t |-> now, new |-> a, cur |-> Gc]
  OBVIOUS
<1>5. e \in Entry /\ e # Free /\ e.key = k /\ e.ref = 1
  BY <1>2, <1>3, TtlAssumption, FreeAssumption DEF Entry, Expiry
<1>6. /\ w \in OpRecord /\ w.step = "wait" /\ w.new = a /\ w.key = k /\ w.cur = Gc
      /\ w.op # "clear"
  BY <1>2, <1>4, CellFacts DEF OpRecord, Steps
<1>7. /\ wr' = [wr EXCEPT ![p] = w] /\ wr'[p] = w
      /\ \A q \in Writer: q # p => wr'[q] = wr[q]
  BY <1>1, <1>2, <1>4
<1>8. ent' = [ent EXCEPT ![a] = e] /\ ent'[a] = e /\ \A b \in Addr: b # a => ent'[b] = ent[b]
  BY <1>1, <1>2, <1>3
<1>9. /\ a \notin Listed /\ \A q \in Writer: wr[q].new # a
      /\ \A r \in Reader: a \notin held[r]
  BY <1>1, FreeUnheld
<1>10. wr[p].new = Null /\ a # Null
  BY <1>2, CellFacts DEF Control, Storing
<1>11. Lists' /\ Listed' = Listed /\ \A c \in HeadCell \cup Listed: Home(c)' = Home(c)
  <2>1. ent' \in [Addr -> Entry \cup {Free}]
    BY <1>2, <1>5, <1>8
  <2>2. \A b \in Listed: ent'[b] # Free /\ ent'[b].key = ent[b].key
    BY <1>2, <1>8, <1>9 DEF Lists, Listed
  <2> QED
    BY <1>2, <2>1, <2>2, ListsUnchanged
<1>12. ProcessTypes'
  BY <1>2, <1>6, <1>7 DEF ProcessTypes, ChainsInv
<1>13. PinsExact'
  <2>1. ASSUME NEW b \in Addr, b # a, ent'[b] # Free PROVE ent'[b].ref = Holders(b)'
    <3>1. b # Null
      BY CellFacts
    <3>2. \A q \in Writer: wr'[q].new = b <=> wr[q].new = b
      BY <1>6, <1>7, <1>10, <2>1, <3>1
    <3>3. Holders(b)' = Holders(b)
      BY <1>2, <3>2, HoldersSame
    <3> QED
      BY <1>8, <2>1, <3>3 DEF ChainsInv, PinsExact
  <2>2. Holders(a)' = 1
    <3>1. Storers(a)' = {p}
      BY <1>6, <1>7, <1>9 DEF Storers
    <3>2. ReadersOf(a)' = {}
      BY <1>2, <1>9 DEF ReadersOf
    <3>3. Cardinality({p}) = 1 /\ Cardinality({}) = 0
      BY FS_Singleton, FS_EmptySet
    <3>4. Holders(a)' = Cardinality(Storers(a)') + Cardinality(ReadersOf(a)')
      BY DEF Holders, Storers, ReadersOf
    <3> QED
      BY <3>1, <3>2, <3>3, <3>4
  <2> QED
    BY <1>2, <1>5, <1>8, <1>11, <2>1, <2>2 DEF ChainsInv, PinsExact
<1>14. Owned'
  <2>1. \A q \in Writer: q # p /\ wr'[q].new # Null => wr'[q].new # wr'[p].new
    BY <1>6, <1>7, <1>9
  <2>2. \A q, r \in Writer: q # r /\ wr'[q].new # Null => wr'[q].new # wr'[r].new
    BY <1>7, <2>1, <1>6, <1>9 DEF ChainsInv, Owned
  <2>3. ASSUME NEW b \in Addr \ Listed', ent'[b] # Free PROVE \E q \in Writer: wr'[q].new = b
    <3>1. CASE b = a
      BY <3>1, <1>6, <1>7
    <3>2. CASE b # a
      <4>1. PICK q \in Writer: wr[q].new = b
        BY <1>8, <1>11, <2>3, <3>2 DEF ChainsInv, Owned
      <4>2. q # p
        BY <4>1, <1>10, CellFacts
      <4> QED
        BY <4>1, <4>2, <1>7
    <3> QED
      BY <3>1, <3>2
  <2> QED
    BY <2>2, <2>3 DEF Owned
<1>15. ASSUME NEW q \in Writer PROVE Control(q)'
  <2>1. CASE q = p
    <3>1. Storing(w) /\ w.step \notin Locked
      BY <1>6 DEF Storing, Locked
    <3> QED
      BY <2>1, <3>1, <1>5, <1>6, <1>7, <1>8, <1>9, <1>11 DEF Control, Storing, Locked
  <2>2. CASE q # p
    <3>1. wr'[q] = wr[q] /\ Control(q)
      BY <2>2, <1>7 DEF ChainsInv
    <3>2. ASSUME wr[q].new # Null
          PROVE  ent'[wr[q].new] = ent[wr[q].new]
      BY <3>2, NewIsEntry, <1>8, <1>9
    <3> QED
      BY <3>1, <3>2, <1>2, <1>11, OtherControl
  <2> QED
    BY <2>1, <2>2
<1> QED
  BY <1>11, <1>12, <1>13, <1>14, <1>15 DEF ChainsInv

\* A store gives back what it holds.
LEMMA ReleaseNewInv ==
  ASSUME ChainsInv, NEW p \in Writer, ReleaseNew(p)
  PROVE  ChainsInv'
<1>1. PICK a: a = wr[p].new
  OBVIOUS
<1>2. /\ UNCHANGED <<pointers, linked, removed>> /\ lock' = lock /\ held' = held /\ now' = now
      /\ wr[p].step = "release" /\ Lists /\ Control(p) /\ wr \in [Writer -> OpRecord]
      /\ ent \in [Addr -> Entry \cup {Free}]
      /\ ent' = [ent EXCEPT ![a].ref = @ - 1] /\ wr' = [wr EXCEPT ![p] = NoOp]
  BY <1>1 DEF ReleaseNew, Finish, ChainsInv, Lists, ProcessTypes
<1>3. a \in Listed /\ a \in Addr /\ ent[a] \in Entry /\ a # Null
  BY <1>1, <1>2, ListedEntry, CellFacts DEF Control
<1>4. /\ ent'[a] \in Entry /\ ent'[a].key = ent[a].key /\ ent'[a].ref = ent[a].ref - 1
      /\ \A b \in Addr: b # a => ent'[b] = ent[b]
  <2>1. PICK e: e = [ent[a] EXCEPT !.ref = @ - 1]
    OBVIOUS
  <2>2. e \in Entry /\ e.key = ent[a].key /\ e.ref = ent[a].ref - 1
    BY <1>3, <2>1 DEF Entry
  <2>3. ent' = [ent EXCEPT ![a] = e]
    BY <1>2, <1>3, <2>1
  <2> QED
    BY <1>2, <1>3, <2>2, <2>3
<1>5. ent'[a] # Free /\ ent' \in [Addr -> Entry \cup {Free}]
  BY <1>2, <1>4, FreeAssumption
<1>6. /\ wr'[p] = NoOp /\ NoOp.new = Null /\ NoOp.step = "idle" /\ NoOp \in OpRecord
      /\ \A q \in Writer: q # p => wr'[q] = wr[q]
  BY <1>2, NoOpType DEF NoOp
<1>7. Lists' /\ Listed' = Listed /\ \A c \in HeadCell \cup Listed: Home(c)' = Home(c)
  <2>1. \A b \in Listed: ent'[b] # Free /\ ent'[b].key = ent[b].key
    BY <1>2, <1>4, <1>5 DEF Lists, Listed
  <2> QED
    BY <1>2, <1>5, <2>1, ListsUnchanged
<1>8. ProcessTypes'
  BY <1>2, <1>6 DEF ProcessTypes, ChainsInv
<1>9. PinsExact'
  <2>1. ASSUME NEW b \in Addr, b # a, ent'[b] # Free PROVE ent'[b].ref = Holders(b)'
    <3>1. \A q \in Writer: wr'[q].new = b <=> wr[q].new = b
      BY <1>1, <1>6, <2>1, CellFacts
    <3>2. Holders(b)' = Holders(b)
      BY <1>2, <3>1, HoldersSame
    <3> QED
      BY <1>4, <2>1, <3>2 DEF ChainsInv, PinsExact
  <2>2. Holders(a)' = Holders(a) - 1
    <3>1. Storers(a)' = Storers(a) \ {p}
      BY <1>3, <1>6 DEF Storers
    <3>2. ReadersOf(a)' = ReadersOf(a)
      BY <1>2 DEF ReadersOf
    <3>3. Cardinality(Storers(a) \ {p}) = Cardinality(Storers(a)) - 1
      <4>1. p \in Storers(a)
        BY <1>1 DEF Storers
      <4> QED
        BY <4>1, HoldersSize, FS_RemoveElement
    <3>4. Holders(a)' = Cardinality(Storers(a)') + Cardinality(ReadersOf(a)')
      BY DEF Holders, Storers, ReadersOf
    <3> QED
      BY <3>1, <3>2, <3>3, <3>4, HoldersSize
  <2>3. ent[a].ref = Holders(a)
    BY <1>2, <1>3 DEF ChainsInv, PinsExact, Lists
  <2> QED
    BY <1>2, <1>4, <1>7, <2>1, <2>2, <2>3 DEF ChainsInv, PinsExact
<1>10. Owned'
  <2>1. \A q, r \in Writer: q # r /\ wr'[q].new # Null => wr'[q].new # wr'[r].new
    BY <1>6 DEF ChainsInv, Owned
  <2>2. ASSUME NEW b \in Addr \ Listed', ent'[b] # Free PROVE \E q \in Writer: wr'[q].new = b
    <3>1. b # a
      BY <1>3, <1>7
    <3>2. PICK q \in Writer: wr[q].new = b
      BY <1>4, <1>7, <2>2, <3>1 DEF ChainsInv, Owned
    <3> QED
      BY <1>1, <1>6, <3>1, <3>2
  <2> QED
    BY <2>1, <2>2 DEF Owned
<1>11. ASSUME NEW q \in Writer PROVE Control(q)'
  <2>1. CASE q = p
    BY <2>1, <1>6 DEF Control, Storing, Locked
  <2>2. CASE q # p
    <3>1. wr'[q] = wr[q] /\ Control(q)
      BY <2>2, <1>6 DEF ChainsInv
    <3>2. ASSUME wr[q].new # Null
          PROVE  ent'[wr[q].new] # Free /\ ent'[wr[q].new].key = ent[wr[q].new].key
      BY <3>2, NewIsEntry, <1>4, <1>5
    <3> QED
      BY <3>1, <3>2, <1>2, <1>7, OtherControl
  <2> QED
    BY <2>1, <2>2
<1> QED
  BY <1>7, <1>8, <1>9, <1>10, <1>11 DEF ChainsInv

\* A refused store frees its block, which nobody else holds.
LEMMA DropNewInv ==
  ASSUME ChainsInv, NEW p \in Writer, DropNew(p)
  PROVE  ChainsInv'
<1>1. PICK a: a = wr[p].new
  OBVIOUS
<1>2. /\ UNCHANGED <<pointers, linked, removed>> /\ lock' = lock /\ held' = held /\ now' = now
      /\ wr[p].step = "drop" /\ Lists /\ Control(p) /\ wr \in [Writer -> OpRecord]
      /\ ent \in [Addr -> Entry \cup {Free}]
      /\ ent' = [ent EXCEPT ![a] = Free] /\ wr' = [wr EXCEPT ![p] = NoOp]
  BY <1>1 DEF DropNew, Finish, FreeEntry, ChainsInv, Lists, ProcessTypes
<1>3. a \in Addr /\ a \notin Listed /\ a # Null
  BY <1>1, <1>2, CellFacts DEF Control, Storing
<1>4. ent'[a] = Free /\ \A b \in Addr: b # a => ent'[b] = ent[b]
  BY <1>2, <1>3
<1>5. /\ wr'[p] = NoOp /\ NoOp.new = Null /\ NoOp.step = "idle" /\ NoOp \in OpRecord
      /\ \A q \in Writer: q # p => wr'[q] = wr[q]
  BY <1>2, NoOpType DEF NoOp
<1>6. Lists' /\ Listed' = Listed /\ \A c \in HeadCell \cup Listed: Home(c)' = Home(c)
  <2>1. \A b \in Listed: ent'[b] # Free /\ ent'[b].key = ent[b].key
    BY <1>2, <1>3, <1>4 DEF Lists, Listed
  <2>2. ent' \in [Addr -> Entry \cup {Free}]
    BY <1>2
  <2> QED
    BY <1>2, <2>1, <2>2, ListsUnchanged
<1>7. ProcessTypes'
  BY <1>2, <1>5 DEF ProcessTypes, ChainsInv
<1>8. PinsExact'
  <2>1. ASSUME NEW b \in Addr, ent'[b] # Free PROVE ent'[b].ref = Holders(b)'
    <3>1. b # a
      BY <1>4, <2>1
    <3>2. \A q \in Writer: wr'[q].new = b <=> wr[q].new = b
      BY <1>1, <1>5, <3>1, CellFacts
    <3>3. Holders(b)' = Holders(b)
      BY <1>2, <3>2, HoldersSame
    <3> QED
      BY <1>4, <2>1, <3>1, <3>3 DEF ChainsInv, PinsExact
  <2> QED
    BY <1>2, <1>6, <2>1 DEF ChainsInv, PinsExact
<1>9. Owned'
  <2>1. \A q, r \in Writer: q # r /\ wr'[q].new # Null => wr'[q].new # wr'[r].new
    BY <1>5 DEF ChainsInv, Owned
  <2>2. ASSUME NEW b \in Addr \ Listed', ent'[b] # Free PROVE \E q \in Writer: wr'[q].new = b
    <3>1. b # a
      BY <1>4, <2>2
    <3>2. PICK q \in Writer: wr[q].new = b
      BY <1>4, <1>6, <2>2, <3>1 DEF ChainsInv, Owned
    <3> QED
      BY <1>1, <1>5, <3>1, <3>2
  <2> QED
    BY <2>1, <2>2 DEF Owned
<1>10. ASSUME NEW q \in Writer PROVE Control(q)'
  <2>1. CASE q = p
    BY <2>1, <1>5 DEF Control, Storing, Locked
  <2>2. CASE q # p
    <3>1. wr'[q] = wr[q] /\ Control(q)
      BY <2>2, <1>5 DEF ChainsInv
    <3>2. ASSUME wr[q].new # Null
          PROVE  ent'[wr[q].new] = ent[wr[q].new]
      <4>1. wr[q].new \in Addr
        BY <3>2, NewIsEntry
      <4>2. wr[q].new # a
        BY <1>1, <2>2, <3>2 DEF ChainsInv, Owned
      <4> QED
        BY <1>4, <4>1, <4>2
    <3> QED
      BY <3>1, <3>2, <1>2, <1>6, OtherControl
  <2> QED
    BY <2>1, <2>2
<1> QED
  BY <1>6, <1>7, <1>8, <1>9, <1>10 DEF ChainsInv

\* The invariant when only references and readers change: those of the entries in S.
LEMMA CountsInv ==
  ASSUME ChainsInv, NEW S \in SUBSET Listed, NEW f \in [S -> Int],
         ent' = [a \in Addr |-> IF a \in S THEN [ent[a] EXCEPT !.ref = f[a]] ELSE ent[a]],
         held' \in [Reader -> SUBSET Addr],
         \A r \in Reader: held'[r] \subseteq Listed,
         \A a \in S: f[a] = Holders(a)',
         \A a \in Addr \ S: \A r \in Reader: a \in held'[r] <=> a \in held[r],
         UNCHANGED <<pointers, linked, removed, lock, wr, now>>
  PROVE  ChainsInv'
<1>1. Lists /\ ent \in [Addr -> Entry \cup {Free}] /\ S \subseteq Addr
  BY DEF ChainsInv, Lists, Listed
<1>2. \A a \in Addr: a \notin S => ent'[a] = ent[a]
  OBVIOUS
<1>3. ASSUME NEW a \in S
      PROVE  ent'[a] \in Entry /\ ent'[a].key = ent[a].key /\ ent'[a].ref = f[a]
  <2>1. ent[a] \in Entry /\ ent'[a] = [ent[a] EXCEPT !.ref = f[a]]
    BY <1>1, <1>3, ListedEntry
  <2> QED
    BY <2>1 DEF Entry
<1>4. ent' \in [Addr -> Entry \cup {Free}]
  <2>1. \A a \in Addr: ent'[a] \in Entry \cup {Free}
    BY <1>1, <1>2, <1>3
  <2> QED
    BY <2>1
<1>5. \A a \in Addr: /\ ent'[a] = Free <=> ent[a] = Free
                     /\ ent[a] # Free => ent'[a].key = ent[a].key
  <2> SUFFICES ASSUME NEW a \in Addr
               PROVE  /\ ent'[a] = Free <=> ent[a] = Free
                      /\ ent[a] # Free => ent'[a].key = ent[a].key
    OBVIOUS
  <2>1. CASE a \in S
    <3>1. ent[a] \in Entry
      BY <2>1, <1>1, ListedEntry
    <3> QED
      BY <2>1, <3>1, <1>3, FreeAssumption
  <2>2. CASE a \notin S
    BY <2>2, <1>2
  <2> QED
    BY <2>1, <2>2
<1>6. Lists' /\ Listed' = Listed /\ \A c \in HeadCell \cup Listed: Home(c)' = Home(c)
  <2>1. \A b \in Listed: ent'[b] # Free /\ ent'[b].key = ent[b].key
    BY <1>1, <1>5 DEF Lists, Listed
  <2> QED
    BY <1>1, <1>4, <2>1, ListsUnchanged
<1>7. PinsExact'
  <2>1. ASSUME NEW a \in Addr, ent'[a] # Free PROVE ent'[a].ref = Holders(a)'
    <3>1. CASE a \in S
      BY <3>1, <1>3
    <3>2. CASE a \notin S
      <4>1. Holders(a)' = Holders(a)
        BY <3>2, HoldersSame
      <4> QED
        BY <3>2, <4>1, <2>1, <1>2 DEF ChainsInv, PinsExact
    <3> QED
      BY <3>1, <3>2
  <2> QED
    BY <1>6, <2>1 DEF PinsExact
<1>8. Owned'
  BY <1>5, <1>6 DEF ChainsInv, Owned
<1>9. ProcessTypes'
  BY DEF ChainsInv, ProcessTypes
<1>10. ASSUME NEW q \in Writer PROVE Control(q)'
  <2>1. Control(q) /\ wr'[q] = wr[q]
    BY DEF ChainsInv
  <2>2. ASSUME wr[q].new # Null
        PROVE  ent'[wr[q].new] # Free /\ ent'[wr[q].new].key = ent[wr[q].new].key
    BY <2>2, NewIsEntry, <1>5
  <2> QED
    BY <2>1, <2>2, <1>1, <1>6, OtherControl
<1> QED
  BY <1>6, <1>7, <1>8, <1>9, <1>10 DEF ChainsInv

\* Readers pin entries they have found on the chains.
LEMMA PinInv ==
  ASSUME ChainsInv, NEW r \in Reader, NEW S, Pin(r, S)
  PROVE  ChainsInv'
<1>1. /\ S \subseteq Listed /\ S \cap held[r] = {} /\ S \subseteq Addr /\ Lists
      /\ held \in [Reader -> SUBSET Addr] /\ held' = [held EXCEPT ![r] = @ \cup S]
      /\ UNCHANGED <<pointers, linked, removed, lock, wr, now>>
  BY DEF Pin, ChainsInv, Lists, Listed, ProcessTypes
<1>2. PICK f: f = [a \in S |-> ent[a].ref + 1]
  OBVIOUS
<1>3. f \in [S -> Int]
  BY <1>1, <1>2, ListedEntry
<1>4. ent' = [a \in Addr |-> IF a \in S THEN [ent[a] EXCEPT !.ref = f[a]] ELSE ent[a]]
  BY <1>2 DEF Pin
<1>5. /\ held' \in [Reader -> SUBSET Addr] /\ held'[r] = held[r] \cup S
      /\ \A q \in Reader: q # r => held'[q] = held[q]
  BY <1>1
<1>6. \A q \in Reader: held'[q] \subseteq Listed
  BY <1>1, <1>5 DEF ChainsInv, PinsExact
<1>7. ASSUME NEW a \in S PROVE f[a] = Holders(a)'
  <2>1. Storers(a)' = Storers(a)
    BY <1>1 DEF Storers
  <2>2. ReadersOf(a)' = ReadersOf(a) \cup {r} /\ r \notin ReadersOf(a)
    BY <1>1, <1>5, <1>7 DEF ReadersOf
  <2>3. Cardinality(ReadersOf(a) \cup {r}) = Cardinality(ReadersOf(a)) + 1
    BY <2>2, HoldersSize, FS_AddElement
  <2>4. Holders(a)' = Cardinality(Storers(a)') + Cardinality(ReadersOf(a)')
    BY DEF Holders, Storers, ReadersOf
  <2>5. ent[a].ref = Holders(a)
    BY <1>1, <1>7 DEF ChainsInv, PinsExact, Lists
  <2> QED
    BY <1>2, <2>1, <2>2, <2>3, <2>4, <2>5, HoldersSize
<1>8. \A a \in Addr \ S: \A q \in Reader: a \in held'[q] <=> a \in held[q]
  BY <1>5
<1>9. S \in SUBSET Listed /\ held' \in [Reader -> SUBSET Addr]
  BY <1>1, <1>5
<1>10. UNCHANGED <<pointers, linked, removed, lock, wr, now>>
  BY <1>1
<1> QED
  BY <1>3, <1>4, <1>6, <1>7, <1>8, <1>9, <1>10, CountsInv

\* Readers give back references they have.
LEMMA ReleaseInv ==
  ASSUME ChainsInv, NEW r \in Reader, NEW S, Release(r, S)
  PROVE  ChainsInv'
<1>1. /\ S \subseteq held[r] /\ S \subseteq Listed /\ S \subseteq Addr /\ Lists
      /\ held \in [Reader -> SUBSET Addr] /\ held' = [held EXCEPT ![r] = @ \ S]
      /\ UNCHANGED <<pointers, linked, removed, lock, wr, now>>
  BY DEF Release, ChainsInv, Lists, Listed, ProcessTypes, PinsExact
<1>2. PICK f: f = [a \in S |-> ent[a].ref - 1]
  OBVIOUS
<1>3. f \in [S -> Int]
  BY <1>1, <1>2, ListedEntry
<1>4. ent' = [a \in Addr |-> IF a \in S THEN [ent[a] EXCEPT !.ref = f[a]] ELSE ent[a]]
  BY <1>2 DEF Release
<1>5. /\ held' \in [Reader -> SUBSET Addr] /\ held'[r] = held[r] \ S
      /\ \A q \in Reader: q # r => held'[q] = held[q]
  BY <1>1
<1>6. \A q \in Reader: held'[q] \subseteq Listed
  BY <1>1, <1>5 DEF ChainsInv, PinsExact
<1>7. ASSUME NEW a \in S PROVE f[a] = Holders(a)'
  <2>1. Storers(a)' = Storers(a)
    BY <1>1 DEF Storers
  <2>2. ReadersOf(a)' = ReadersOf(a) \ {r} /\ r \in ReadersOf(a)
    BY <1>1, <1>5, <1>7 DEF ReadersOf
  <2>3. Cardinality(ReadersOf(a) \ {r}) = Cardinality(ReadersOf(a)) - 1
    BY <2>2, HoldersSize, FS_RemoveElement
  <2>4. Holders(a)' = Cardinality(Storers(a)') + Cardinality(ReadersOf(a)')
    BY DEF Holders, Storers, ReadersOf
  <2>5. ent[a].ref = Holders(a)
    BY <1>1, <1>7 DEF ChainsInv, PinsExact, Lists
  <2> QED
    BY <1>2, <2>1, <2>2, <2>3, <2>4, <2>5, HoldersSize
<1>8. \A a \in Addr \ S: \A q \in Reader: a \in held'[q] <=> a \in held[q]
  BY <1>5
<1> QED
  BY <1>1, <1>3, <1>4, <1>5, <1>6, <1>7, <1>8, CountsInv

\* The invariant does not depend on the time.
LEMMA QuietInv ==
  ASSUME ChainsInv, UNCHANGED <<chains, lock, wr, held>>, now' \in Nat
  PROVE  ChainsInv'
<1>1. /\ UNCHANGED <<pointers, linked, removed>> /\ ent' = ent /\ lock' = lock /\ wr' = wr
      /\ held' = held /\ now' \in Nat
  BY DEF chains
<1>2. Lists' /\ Listed' = Listed /\ \A c \in HeadCell \cup Listed: Home(c)' = Home(c)
  BY <1>1, ListsUnchanged DEF ChainsInv, Lists
<1>3. PinsExact'
  <2>1. \A a: Holders(a)' = Holders(a)
    BY <1>1, HoldersSame
  <2> QED
    BY <1>1, <1>2, <2>1 DEF ChainsInv, PinsExact
<1>4. Owned' /\ ProcessTypes'
  BY <1>1, <1>2 DEF ChainsInv, Owned, ProcessTypes
<1>5. ASSUME NEW q \in Writer PROVE Control(q)'
  <2>1. Control(q) /\ Lists
    BY DEF ChainsInv
  <2> QED
    BY <1>1, <1>2, <2>1, OtherControl
<1> QED
  BY <1>2, <1>3, <1>4, <1>5 DEF ChainsInv

\* The clock.
LEMMA TickInv ==
  ASSUME ChainsInv, Tick
  PROVE  ChainsInv'
BY QuietInv, TimeAssumption DEF Tick, ChainsInv, ProcessTypes

\* A step that changes nothing.
LEMMA StutterInv ==
  ASSUME ChainsInv, UNCHANGED chainVars
  PROVE  ChainsInv'
BY QuietInv DEF chainVars, ChainsInv, ProcessTypes

\* A block that moves is nobody's and lies on a chain, and so does its new place.
LEMMA DefragmentInv ==
  ASSUME ChainsInv, Defragment
  PROVE  ChainsInv'
<1>1. PICK old \in Addr, new \in Addr:
        /\ ent[old] # Free /\ Movable(ent[old]) /\ ent[new] = Free
        /\ next' = MoveNext(next, prev, old, new)
        /\ prev' = MovePrev(prev, next, old, new)
        /\ ent' = [ent EXCEPT ![new] = ent[old], ![old] = Free]
        /\ linked' = IF old \in linked THEN (linked \ {old}) \cup {new} ELSE linked
        /\ removed' = IF old \in removed THEN (removed \ {old}) \cup {new} ELSE removed
  BY DEF Defragment
<1>2. /\ lock = Nobody /\ lock' = lock /\ wr' = wr /\ held' = held /\ now' = now
      /\ Lists /\ ent \in [Addr -> Entry \cup {Free}]
  BY DEF Defragment, ChainsInv, Lists
<1>3. old # new /\ ent[old].ref <= 0
  BY <1>1 DEF Movable
<1>4. (\A q \in Writer: wr[q].new # old) /\ (\A r \in Reader: old \notin held[r])
  BY <1>1, <1>3, NobodyHolds DEF ChainsInv
<1>5. /\ new \notin Listed /\ \A q \in Writer: wr[q].new # new
      /\ \A r \in Reader: new \notin held[r]
  BY <1>1, FreeUnheld
<1>6. old \in Listed
  BY <1>1, <1>4 DEF ChainsInv, Owned
<1>7. Lists' /\ Listed' = (Listed \ {old}) \cup {new}
  BY <1>1, <1>2, <1>6, MoveEffect
<1>8. /\ ent'[new] = ent[old] /\ ent'[old] = Free
      /\ \A a \in Addr: a # old /\ a # new => ent'[a] = ent[a]
  BY <1>1, <1>2, <1>3
<1>9. \A a: Holders(a)' = Holders(a)
  BY <1>2, HoldersSame
<1>10. Holders(new) = Holders(old)
  <2>1. Storers(new) = {} /\ ReadersOf(new) = {} /\ Storers(old) = {} /\ ReadersOf(old) = {}
    BY <1>4, <1>5 DEF Storers, ReadersOf
  <2> QED
    BY <2>1, HoldersSize
<1>11. PinsExact'
  <2>1. \A r \in Reader: held'[r] \subseteq Listed'
    BY <1>2, <1>4, <1>7 DEF ChainsInv, PinsExact
  <2>2. ASSUME NEW a \in Addr, ent'[a] # Free PROVE ent'[a].ref = Holders(a)
    <3>1. CASE a = new
      BY <3>1, <1>1, <1>8, <1>10 DEF ChainsInv, PinsExact
    <3>2. CASE a # new
      BY <3>2, <2>2, <1>8 DEF ChainsInv, PinsExact
    <3> QED
      BY <3>1, <3>2
  <2> QED
    BY <2>1, <2>2, <1>9 DEF PinsExact
<1>12. Owned'
  <2>1. ASSUME NEW a \in Addr \ Listed', ent'[a] # Free PROVE \E q \in Writer: wr'[q].new = a
    <3>1. a # new /\ a # old
      BY <1>7, <1>8, <2>1
    <3> QED
      BY <3>1, <1>2, <1>7, <1>8, <2>1 DEF ChainsInv, Owned
  <2> QED
    BY <1>2, <2>1 DEF ChainsInv, Owned
<1>13. ProcessTypes'
  BY <1>2 DEF ChainsInv, ProcessTypes
<1>14. ASSUME NEW q \in Writer PROVE Control(q)'
  <2>1. Control(q) /\ wr'[q] = wr[q]
    BY <1>2 DEF ChainsInv
  <2>2. ASSUME wr[q].new # Null
        PROVE  /\ wr[q].new \in Listed' <=> wr[q].new \in Listed
               /\ ent'[wr[q].new] = ent[wr[q].new]
    <3>1. wr[q].new \in Addr
      BY <2>2, NewIsEntry
    <3>2. wr[q].new # old /\ wr[q].new # new
      BY <1>4, <1>5
    <3> QED
      BY <3>1, <3>2, <1>7, <1>8
  <2>3. wr[q].step \notin Locked
    BY <2>1, <1>2, ProcessAssumption DEF Control
  <2> QED
    BY <2>1, <2>2, <2>3, <1>2, OtherControl
<1> QED
  BY <1>7, <1>11, <1>12, <1>13, <1>14 DEF ChainsInv

-----------------------------------------------------------------------------
(* The theorems *)

\* An empty cache.
LEMMA ChainsInvInit == ChainsInit => ChainsInv
<1> SUFFICES ASSUME ChainsInit PROVE ChainsInv
  OBVIOUS
<1>1. Listed = {} /\ linked = {} /\ removed = {}
  BY DEF ChainsInit, Listed
<1>2. PointersType(next, prev)
  BY DEF ChainsInit, PointersType, Pointer
<1>3. \E rk \in Ranks: InOrder(next, prev, Listed, Homes, rk)
  <2>1. [c \in Cell |-> 0] \in Ranks
    BY \A n \in Nat: 0 <= n DEF Ranks
  <2>2. \A c \in HeadCell: next[c] = Null
    BY CellFacts DEF ChainsInit
  <2>3. InOrder(next, prev, Listed, Homes, [c \in Cell |-> 0])
    BY <1>1, <2>2 DEF InOrder
  <2> QED
    BY <2>1, <2>3
<1>4. Lists
  BY <1>1, <1>2, <1>3 DEF ChainsInit, Lists
<1>5. ProcessTypes
  BY NoOpType DEF ChainsInit, ProcessTypes
<1>6. \A p \in Writer: wr[p] = NoOp /\ wr[p].new = Null /\ wr[p].step = "idle"
  BY DEF ChainsInit, NoOp
<1>7. PinsExact /\ Owned
  BY <1>1, <1>6 DEF ChainsInit, PinsExact, Owned
<1>8. \A p \in Writer: Control(p)
  BY <1>6 DEF Control, Storing, Locked
<1> QED
  BY <1>4, <1>5, <1>7, <1>8 DEF ChainsInv

\* One step of any process, reader or the allocator.
LEMMA ChainsInvNext == ChainsInv /\ ChainsNext => ChainsInv'
<1> SUFFICES ASSUME ChainsInv, ChainsNext PROVE ChainsInv'
  OBVIOUS
<1>1. ASSUME NEW p \in Writer, Begin(p) PROVE ChainsInv'
  <2>1. CASE BeginStore(p)
    BY <2>1, BeginStoreInv
  <2>2. CASE BeginDelete(p)
    BY <2>2, BeginDeleteInv DEF BeginDelete
  <2>3. CASE BeginClear(p)
    BY <2>3, BeginClearInv
  <2> QED
    BY <1>1, <2>1, <2>2, <2>3 DEF Begin
<1>2. ASSUME NEW p \in Writer, Continue(p) PROVE ChainsInv'
  <2>1. CASE LockStore(p)
    BY <2>1, LockStoreInv
  <2>2. CASE GcKeep(p) \/ GcFree(p) \/ GcEnd(p)
    BY <2>2, GcKeepInv, GcFreeInv, GcEndInv
  <2>3. CASE InsertRefuse(p) \/ InsertReplace(p) \/ InsertExpire(p) \/ InsertSkip(p)
    BY <2>3, InsertRefuseInv, InsertReplaceInv, InsertExpireInv, InsertSkipInv
  <2>4. CASE InsertEnd(p) \/ InsertLink(p)
    BY <2>4, InsertEndInv, InsertLinkInv
  <2>5. CASE ReleaseNew(p) \/ DropNew(p)
    BY <2>5, ReleaseNewInv, DropNewInv
  <2>6. CASE DeleteFound(p) \/ DeleteSkip(p) \/ DeleteMissing(p)
    BY <2>6, DeleteFoundInv, DeleteSkipInv, DeleteMissingInv
  <2>7. CASE WipeEntry(p) \/ WipeSlotEnd(p)
    BY <2>7, WipeEntryInv, WipeSlotEndInv
  <2> QED
    BY <1>2, <2>1, <2>2, <2>3, <2>4, <2>5, <2>6, <2>7 DEF Continue
<1>3. ASSUME NEW r \in Reader, NEW S \in SUBSET Addr, Pin(r, S) \/ Release(r, S)
      PROVE  ChainsInv'
  BY <1>3, PinInv, ReleaseInv
<1> QED
  BY <1>1, <1>2, <1>3, DefragmentInv, TickInv DEF ChainsNext

\* However the steps of any number of processes interleave, also those under the lock,
\* every pointer of a chain is answered and every count is the number of holders:
\* apc_cache_wlocked_link_entry, _unlink_entry and _move_entry (apc_cache.c:160-197) and
\* all that call them.
THEOREM ChainsSound == ChainsSpec => [](WellLinked /\ PinsExact)
<1>1. ChainsInit => ChainsInv
  BY ChainsInvInit
<1>2. ChainsInv /\ [ChainsNext]_chainVars => ChainsInv'
  BY ChainsInvNext, StutterInv
<1>3. ChainsInv => WellLinked /\ PinsExact
  BY ListsWellLinked DEF ChainsInv
<1> QED
  BY <1>1, <1>2, <1>3, PTL DEF ChainsSpec

-----------------------------------------------------------------------------
(* Walking along a chain *)

\* What is on no chain points nowhere.
Loose == \A a \in Addr \ Listed: next[a] = Null

\* Induction from the ends of the chains to the heads.
LEMMA FromTheEnds ==
  ASSUME Lists, NEW T,
         \A c \in HeadCell \cup Listed: next[c] = Null \/ next[c] \in T => c \in T
  PROVE  HeadCell \cup Listed \subseteq T
<1>1. PICK rk \in Ranks: InOrder(next, prev, Listed, Homes, rk)
  BY DEF Lists
<1>2. PICK m \in Nat: \A c \in Cell: rk[c] \in Nat /\ rk[c] <= m
  BY DEF Ranks
<1>3. \A c \in HeadCell \cup Listed: c \in Cell
  BY CellFacts DEF Lists, Listed
<1> DEFINE Bad == (HeadCell \cup Listed) \ T
           R == {m - rk[c]: c \in Bad}
<1>4. SUFFICES ASSUME Bad # {} PROVE FALSE
  OBVIOUS
<1>5. \A c \in Bad: m - rk[c] \in Nat
  BY <1>2, <1>3
<1>6. R \subseteq Nat /\ R # {}
  BY <1>4, <1>5
<1>7. PICK r \in R: \A x \in R: r <= x
  <2> HIDE DEF R
  <2> QED
    BY <1>6, LeastNat
<1>8. PICK c \in Bad: r = m - rk[c]
  OBVIOUS
<1>9. next[c] # Null /\ next[c] \notin T
  OBVIOUS
<1>10. next[c] \in Listed /\ rk[c] < rk[next[c]]
  BY <1>1, <1>9 DEF InOrder
<1>11. next[c] \in Bad /\ c \in Cell /\ next[c] \in Cell
  BY <1>3, <1>9, <1>10
<1>12. m - rk[c] <= m - rk[next[c]]
  BY <1>7, <1>8, <1>11
<1> QED
  BY <1>2, <1>10, <1>11, <1>12

\* Induction from the heads of the chains along them.
LEMMA FromTheHeads ==
  ASSUME Lists, NEW T, \A a \in Listed: prev[a] \in HeadCell \/ prev[a] \in T => a \in T
  PROVE  Listed \subseteq T
<1>1. PICK rk \in Ranks: InOrder(next, prev, Listed, Homes, rk)
  BY DEF Lists
<1>2. \A c \in Cell: rk[c] \in Nat
  BY DEF Ranks
<1>3. \A c \in HeadCell \cup Listed: c \in Cell
  BY CellFacts DEF Lists, Listed
<1> DEFINE Bad == Listed \ T
           R == {rk[a]: a \in Bad}
<1>4. SUFFICES ASSUME Bad # {} PROVE FALSE
  OBVIOUS
<1>5. R \subseteq Nat /\ R # {}
  BY <1>2, <1>3, <1>4
<1>6. PICK r \in R: \A x \in R: r <= x
  <2> HIDE DEF R
  <2> QED
    BY <1>5, LeastNat
<1>7. PICK a \in Bad: r = rk[a]
  OBVIOUS
<1>8. prev[a] \in Listed /\ prev[a] \notin T /\ next[prev[a]] = a
  BY <1>1 DEF InOrder
<1>9. a # Null /\ a \in Cell /\ prev[a] \in Cell
  BY <1>3, <1>8, CellFacts DEF Lists, Listed
<1>10. rk[prev[a]] < rk[a]
  BY <1>1, <1>8, <1>9 DEF InOrder
<1>11. rk[a] <= rk[prev[a]]
  BY <1>6, <1>7, <1>8
<1> QED
  BY <1>2, <1>9, <1>10, <1>11

\* g walks from every cell to the end of its chain.
Walks(n, g) == g = [d \in Cell |-> IF n[d] = Null THEN << >> ELSE <<n[d]>> \o g[n[d]]]

\* The definition of Chain.
LEMMA ChainIs ==
  ASSUME NEW c
  PROVE  Chain(c) = (CHOOSE g: Walks(next, g))[c]
BY DEF Chain, Walks

\* Where ranks grow up to a bound, every walk ends.
LEMMA WalksEnd ==
  ASSUME NEW n \in [Cell -> Pointer], NEW rk \in Ranks,
         \A c \in Cell: n[c] # Null => rk[c] < rk[n[c]]
  PROVE  \E g \in [Cell -> Seq(Addr)]: Walks(n, g)
<1>1. PICK m \in Nat: \A c \in Cell: rk[c] \in Nat /\ rk[c] <= m
  BY DEF Ranks
<1>2. \A c \in Cell: n[c] # Null => n[c] \in Addr /\ n[c] \in Cell
  BY CellFacts DEF Pointer
<1> DEFINE D(k) == {c \in Cell: rk[c] + k > m}
           Ahead(g, c) == IF n[c] = Null THEN << >> ELSE <<n[c]>> \o g[n[c]]
           Good(k) == {g \in [D(k) -> Seq(Addr)]: \A c \in D(k): g[c] = Ahead(g, c)}
           Bad == {k \in Nat: Good(k) = {}}
<1>3. \A k \in Nat: Good(k) # {}
  <2>1. SUFFICES ASSUME Bad # {} PROVE FALSE
    OBVIOUS
  <2>2. PICK k \in Bad: \A j \in Bad: k <= j
    BY <2>1, LeastNat, Bad \subseteq Nat
  <2>3. k # 0
    <3>1. D(0) = {}
      BY <1>1
    <3>2. [c \in {} |-> << >>] \in Good(0)
      BY <3>1
    <3> QED
      BY <3>2
  <2>4. k - 1 \in Nat /\ k - 1 \notin Bad
    <3>1. k \in Nat
      OBVIOUS
    <3> HIDE DEF Bad
    <3> QED
      BY <3>1, <2>2, <2>3
  <2>5. PICK g: g \in Good(k - 1)
    BY <2>4
  <2>6. g \in [D(k - 1) -> Seq(Addr)] /\ \A c \in D(k - 1): g[c] = Ahead(g, c)
    BY <2>5
  <2>7. ASSUME NEW c \in D(k), n[c] # Null PROVE n[c] \in D(k - 1) /\ n[c] \in Addr
    <3>1. n[c] \in Cell /\ rk[c] + k > m /\ rk[c] < rk[n[c]] /\ n[c] \in Addr
      BY <1>2, <2>7
    <3>2. rk[n[c]] + (k - 1) > m
      BY <3>1, <1>1
    <3> QED
      BY <3>1, <3>2
  <2>8. D(k - 1) \subseteq D(k)
    BY <1>1
  <2> DEFINE h == [c \in D(k) |-> Ahead(g, c)]
  <2>9. \A c \in D(k - 1): h[c] = g[c]
    BY <2>6, <2>8
  <2>10. h \in [D(k) -> Seq(Addr)]
    <3> SUFFICES ASSUME NEW c \in D(k) PROVE Ahead(g, c) \in Seq(Addr)
      OBVIOUS
    <3>1. CASE n[c] # Null
      <4>1. g[n[c]] \in Seq(Addr) /\ n[c] \in Addr
        BY <2>6, <2>7, <3>1
      <4>2. <<n[c]>> \in Seq(Addr)
        BY <4>1
      <4>3. <<n[c]>> \o g[n[c]] \in Seq(Addr)
        BY <4>1, <4>2
      <4> QED
        BY <3>1, <4>3
    <3> QED
      BY <3>1
  <2>11. \A c \in D(k): h[c] = Ahead(h, c)
    <3> SUFFICES ASSUME NEW c \in D(k) PROVE Ahead(g, c) = Ahead(h, c)
      OBVIOUS
    <3> QED
      BY <2>7, <2>9
  <2> HIDE DEF h, D, Ahead
  <2>12. h \in Good(k)
    BY <2>10, <2>11
  <2> QED
    BY <2>12
<1>4. PICK g: g \in Good(m + 1)
  <2>1. m + 1 \in Nat
    OBVIOUS
  <2> HIDE DEF Good
  <2> QED
    BY <2>1, <1>3
<1>5. D(m + 1) = Cell
  BY <1>1
<1>6. g \in [Cell -> Seq(Addr)] /\ \A c \in Cell: g[c] = Ahead(g, c)
  BY <1>4, <1>5
<1>7. g = [c \in Cell |-> Ahead(g, c)]
  <2> HIDE DEF Ahead
  <2> QED
    BY <1>6
<1> QED
  BY <1>6, <1>7 DEF Walks

\* The chain behind a cell is the next entry and the chain behind that.
LEMMA ChainWalk ==
  ASSUME Lists, Loose, NEW c \in Cell
  PROVE  /\ Chain(c) \in Seq(Addr)
         /\ next[c] = Null => Chain(c) = << >>
         /\ next[c] # Null => next[c] \in Addr /\ Chain(c) = <<next[c]>> \o Chain(next[c])
<1>1. PICK rk \in Ranks: InOrder(next, prev, Listed, Homes, rk)
  BY DEF Lists
<1>2. \A d \in Cell: next[d] # Null => d \in HeadCell \cup Listed
  BY DEF Loose, Cell
<1>3. \A d \in Cell: next[d] # Null => rk[d] < rk[next[d]]
  BY <1>1, <1>2 DEF InOrder
<1>4. next \in [Cell -> Pointer]
  BY DEF Lists, PointersType
<1> DEFINE g == CHOOSE f: Walks(next, f)
<1>5. \E f \in [Cell -> Seq(Addr)]: Walks(next, f)
  BY <1>3, <1>4, WalksEnd
<1>6. Walks(next, g)
  BY <1>5
<1>7. \A d: Chain(d) = g[d]
  BY ChainIs
<1> HIDE DEF g
<1>8. \A d \in Cell: g[d] = IF next[d] = Null THEN << >> ELSE <<next[d]>> \o g[next[d]]
  BY <1>6 DEF Walks
<1>9. \A d \in Cell: next[d] # Null => next[d] \in Addr /\ next[d] \in Cell
  BY <1>4, CellFacts DEF Pointer
<1>0. << >> \in Seq(Addr)
  OBVIOUS
<1>10. \A d \in HeadCell \cup Listed: g[d] \in Seq(Addr)
  <2> DEFINE T == {d \in HeadCell \cup Listed: g[d] \in Seq(Addr)}
  <2>1. \A d \in HeadCell \cup Listed: next[d] = Null \/ next[d] \in T => d \in T
    <3> SUFFICES ASSUME NEW d \in HeadCell \cup Listed, next[d] = Null \/ next[d] \in T
                 PROVE  g[d] \in Seq(Addr)
      OBVIOUS
    <3>1. d \in Cell
      BY CellFacts DEF Lists, Listed
    <3>2. CASE next[d] = Null
      BY <3>1, <3>2, <1>0, <1>8
    <3>3. CASE next[d] # Null
      <4>1. g[next[d]] \in Seq(Addr) /\ <<next[d]>> \in Seq(Addr)
        BY <3>1, <3>3, <1>9
      <4>2. <<next[d]>> \o g[next[d]] \in Seq(Addr)
        BY <4>1
      <4> QED
        BY <3>1, <3>3, <4>2, <1>8
    <3> QED
      BY <3>2, <3>3
  <2> HIDE DEF T
  <2>2. HeadCell \cup Listed \subseteq T
    BY <2>1, FromTheEnds
  <2> QED
    BY <2>2 DEF T
<1>11. g[c] \in Seq(Addr)
  BY <1>0, <1>2, <1>8, <1>10
<1> QED
  BY <1>7, <1>8, <1>9, <1>11

Members(c) == {Chain(c)[i]: i \in DOMAIN Chain(c)}

\* The members of a chain, in the same way.
LEMMA MembersWalk ==
  ASSUME Lists, Loose, NEW c \in Cell
  PROVE  /\ next[c] = Null => Members(c) = {}
         /\ next[c] # Null => Members(c) = {next[c]} \cup Members(next[c])
<1>1. CASE next[c] = Null
  <2>1. Chain(c) = << >>
    BY <1>1, ChainWalk
  <2> QED
    BY <2>1, <1>1 DEF Members
<1>2. CASE next[c] # Null
  <2> DEFINE e == next[c]
             s == Chain(e)
  <2>1. e \in Addr /\ Chain(c) = <<e>> \o s /\ e \in Cell
    BY <1>2, ChainWalk, CellFacts
  <2>2. s \in Seq(Addr)
    BY <2>1, ChainWalk
  <2>3. Members(c) = {(<<e>> \o s)[i]: i \in 1..(1 + Len(s))} /\ Members(e) = {s[i]: i \in 1..Len(s)}
    <3>1. DOMAIN (<<e>> \o s) = 1..(1 + Len(s)) /\ DOMAIN s = 1..Len(s)
      BY <2>2
    <3> QED
      BY <2>1, <3>1 DEF Members
  <2> HIDE DEF e, s
  <2>4. (<<e>> \o s)[1] = e /\ \A i \in 1..Len(s): (<<e>> \o s)[i + 1] = s[i]
    BY <2>2
  <2>5. Len(s) \in Nat
    BY <2>2
  <2>6. Members(c) \subseteq {e} \cup Members(e)
    <3> SUFFICES ASSUME NEW i \in 1..(1 + Len(s)) PROVE (<<e>> \o s)[i] \in {e} \cup Members(e)
      BY <2>3
    <3>1. CASE i = 1
      BY <3>1, <2>4
    <3>2. CASE i # 1
      <4>1. i - 1 \in 1..Len(s) /\ (i - 1) + 1 = i
        BY <3>2, <2>5
      <4>2. (<<e>> \o s)[i] = s[i - 1]
        BY <4>1, <2>4
      <4> QED
        BY <4>1, <4>2, <2>3
    <3> QED
      BY <3>1, <3>2
  <2>7. {e} \cup Members(e) \subseteq Members(c)
    <3>1. e \in Members(c)
      <4>1. 1 \in 1..(1 + Len(s))
        BY <2>5
      <4> QED
        BY <4>1, <2>3, <2>4
    <3>2. ASSUME NEW i \in 1..Len(s) PROVE s[i] \in Members(c)
      <4>1. i + 1 \in 1..(1 + Len(s))
        BY <2>5
      <4> QED
        BY <4>1, <2>3, <2>4
    <3> QED
      BY <3>1, <3>2, <2>3
  <2> QED
    BY <1>2, <2>6, <2>7 DEF e
<1> QED
  BY <1>1, <1>2

\* What stands behind a cell is on the same chain, and behind it in every order of ranks.
LEMMA MembersBehind ==
  ASSUME Lists, Loose, NEW rk \in Ranks, InOrder(next, prev, Listed, Homes, rk),
         NEW c \in HeadCell \cup Listed
  PROVE  \A a \in Members(c): a \in Listed /\ Home(a) = Home(c) /\ rk[c] < rk[a]
<1> DEFINE Fine(d) == \A a \in Members(d): a \in Listed /\ Home(a) = Home(d) /\ rk[d] < rk[a]
           T == {d \in HeadCell \cup Listed: Fine(d)}
<1>0. \A d \in HeadCell \cup Listed: d \in Cell /\ rk[d] \in Nat
  BY CellFacts DEF Lists, Listed, Ranks
<1>1. ASSUME NEW d \in HeadCell \cup Listed, next[d] = Null \/ next[d] \in T
      PROVE  d \in T
  <2>1. CASE next[d] = Null
    BY <2>1, <1>0, MembersWalk
  <2>2. CASE next[d] # Null
    <3>1. Members(d) = {next[d]} \cup Members(next[d])
      BY <2>2, <1>0, MembersWalk
    <3>2. next[d] \in Listed /\ Homes[next[d]] = Homes[d] /\ rk[d] < rk[next[d]]
      BY <2>2 DEF InOrder
    <3>3. Home(next[d]) = Home(d)
      BY <3>2, <1>0, HomesValue
    <3>4. \A a \in Members(next[d]): a \in Listed /\ Home(a) = Home(next[d]) /\ rk[next[d]] < rk[a]
      BY <1>1, <2>2
    <3>5. Fine(d)
      BY <3>1, <3>2, <3>3, <3>4, <1>0
    <3> QED
      BY <3>5
  <2> QED
    BY <2>1, <2>2
<1> HIDE DEF T
<1>2. HeadCell \cup Listed \subseteq T
  BY <1>1, FromTheEnds
<1> QED
  BY <1>2 DEF T

\* No entry is twice on a chain.
LEMMA MembersOnce ==
  ASSUME Lists, Loose, NEW c \in HeadCell \cup Listed
  PROVE  IsFiniteSet(Members(c)) /\ Cardinality(Members(c)) = Len(Chain(c))
<1>1. PICK rk \in Ranks: InOrder(next, prev, Listed, Homes, rk)
  BY DEF Lists
<1> DEFINE Once(d) == IsFiniteSet(Members(d)) /\ Cardinality(Members(d)) = Len(Chain(d))
           T == {d \in HeadCell \cup Listed: Once(d)}
<1>2. \A d \in HeadCell \cup Listed: d \in Cell /\ rk[d] \in Nat
  BY CellFacts DEF Lists, Listed, Ranks
<1>3. ASSUME NEW d \in HeadCell \cup Listed, next[d] = Null \/ next[d] \in T
      PROVE  d \in T
  <2>1. CASE next[d] = Null
    <3>1. Members(d) = {} /\ Chain(d) = << >>
      BY <2>1, <1>2, MembersWalk, ChainWalk
    <3>2. Once(d)
      BY <3>1, FS_EmptySet
    <3> QED
      BY <3>2
  <2>2. CASE next[d] # Null
    <3> DEFINE e == next[d]
    <3>1. /\ e \in Addr /\ Members(d) = {e} \cup Members(e)
          /\ Chain(d) = <<e>> \o Chain(e) /\ Chain(e) \in Seq(Addr)
      BY <2>2, <1>2, MembersWalk, ChainWalk, CellFacts
    <3>2. e \in T /\ IsFiniteSet(Members(e)) /\ Cardinality(Members(e)) = Len(Chain(e))
      BY <1>3, <2>2
    <3>3. e \in HeadCell \cup Listed
      BY <3>2
    <3>4. e \notin Members(e)
      BY <3>3, <1>1, <1>2, MembersBehind
    <3>5. Len(Chain(d)) = Len(Chain(e)) + 1
      BY <3>1
    <3>6. IsFiniteSet(Members(d)) /\ Cardinality(Members(d)) = Cardinality(Members(e)) + 1
      <4>1. Members(d) = Members(e) \cup {e}
        BY <3>1
      <4>2. \A S, x: IsFiniteSet(S) /\ x \notin S =>
              IsFiniteSet(S \cup {x}) /\ Cardinality(S \cup {x}) = Cardinality(S) + 1
        BY FS_AddElement
      <4> QED
        BY <4>1, <4>2, <3>2, <3>4
    <3>7. Once(d)
      BY <3>2, <3>5, <3>6
    <3> QED
      BY <3>7
  <2> QED
    BY <2>1, <2>2
<1> HIDE DEF T
<1>4. HeadCell \cup Listed \subseteq T
  BY <1>3, FromTheEnds
<1> QED
  BY <1>4 DEF T

\* A set of cells that goes on to the ends of its chains holds what is behind them.
LEMMA MembersWithin ==
  ASSUME Lists, Loose, NEW S, \A c \in S: next[c] # Null => next[c] \in S,
         NEW c \in HeadCell \cup Listed, c \in S
  PROVE  Members(c) \subseteq S
<1> DEFINE T == {d \in HeadCell \cup Listed: d \in S => Members(d) \subseteq S}
<1>1. \A d \in HeadCell \cup Listed: d \in Cell
  BY CellFacts DEF Lists, Listed
<1>2. ASSUME NEW d \in HeadCell \cup Listed, next[d] = Null \/ next[d] \in T
      PROVE  d \in T
  BY <1>1, <1>2, MembersWalk
<1> HIDE DEF T
<1>3. HeadCell \cup Listed \subseteq T
  BY <1>2, FromTheEnds
<1> QED
  BY <1>3 DEF T

\* The members of a chain go on to its end.
LEMMA MembersGoOn ==
  ASSUME Lists, Loose, NEW c \in HeadCell \cup Listed, NEW b \in Members(c), next[b] # Null
  PROVE  next[b] \in Members(c)
<1> DEFINE On(d) == \A x \in Members(d): next[x] # Null => next[x] \in Members(d)
           T == {d \in HeadCell \cup Listed: On(d)}
<1>1. \A d \in HeadCell \cup Listed: d \in Cell
  BY CellFacts DEF Lists, Listed
<1>2. ASSUME NEW d \in HeadCell \cup Listed, next[d] = Null \/ next[d] \in T
      PROVE  d \in T
  <2>1. CASE next[d] = Null
    BY <2>1, <1>1, MembersWalk
  <2>2. CASE next[d] # Null
    <3>1. Members(d) = {next[d]} \cup Members(next[d]) /\ next[d] \in Cell /\ next[d] \in T
      BY <2>2, <1>1, <1>2, MembersWalk
    <3>2. next[next[d]] # Null => next[next[d]] \in Members(next[d])
      BY <3>1, MembersWalk
    <3>3. On(d)
      BY <3>1, <3>2
    <3> QED
      BY <3>3
  <2> QED
    BY <2>1, <2>2
<1> HIDE DEF T
<1>3. HeadCell \cup Listed \subseteq T
  BY <1>2, FromTheEnds
<1> QED
  BY <1>3 DEF T

\* Every entry is behind the head of its chain.
LEMMA MembersAll ==
  ASSUME Lists, Loose, NEW a \in Listed
  PROVE  Home(a) \in HeadCell /\ a \in Members(Home(a))
<1>1. PICK rk \in Ranks: InOrder(next, prev, Listed, Homes, rk)
  BY DEF Lists
<1> DEFINE T == {b \in Listed: b \in Members(Home(b))}
<1>2. ASSUME NEW b \in Listed PROVE Home(b) \in HeadCell /\ b \in Cell /\ b # Null
  BY CellFacts, ListedEntry DEF Home
<1>3. ASSUME NEW b \in Listed, prev[b] \in HeadCell \/ prev[b] \in T
      PROVE  b \in T
  <2> DEFINE p == prev[b]
  <2>1. p \in HeadCell \cup Listed /\ next[p] = b /\ p \in Cell
    BY <1>1, <1>2, CellFacts DEF InOrder
  <2>2. Home(b) = Home(p)
    BY <2>1, <1>2, NextOnChain
  <2>3. CASE p \in HeadCell
    <3>1. Home(p) = p
      BY <2>3 DEF Home
    <3>2. b \in Members(p)
      BY <2>1, <1>2, MembersWalk
    <3> QED
      BY <2>2, <3>1, <3>2
  <2>4. CASE p \in T
    <3>1. p \in Members(Home(p)) /\ Home(p) \in HeadCell
      BY <2>4, <1>2
    <3>2. b \in Members(Home(p))
      BY <3>1, <2>1, <1>2, MembersGoOn
    <3> QED
      BY <2>2, <3>2
  <2> QED
    BY <1>3, <2>3, <2>4
<1> HIDE DEF T
<1>4. Listed \subseteq T
  BY <1>3, FromTheHeads
<1> QED
  BY <1>2, <1>4 DEF T

\* The chain of a head has exactly its entries, each once.
LEMMA ChainHolds ==
  ASSUME Lists, Loose, NEW c \in HeadCell
  PROVE  /\ Cardinality(Members(c)) = Len(Chain(c))
         /\ Members(c) = IF c = Gc THEN removed ELSE {a \in linked: SlotHead(ent[a].key) = c}
<1>1. PICK rk \in Ranks: InOrder(next, prev, Listed, Homes, rk)
  BY DEF Lists
<1>2. Home(c) = c
  BY DEF Home
<1>3. Members(c) = {a \in Listed: Home(a) = c}
  BY <1>1, <1>2, MembersBehind, MembersAll
<1>4. \A a \in Listed: a \in removed => SlotHead(ent[a].key) # Gc /\ Home(a) = Gc
  BY HomeOf, ListedEntry, CellFacts
<1>5. \A a \in Listed: a \in linked => Home(a) = SlotHead(ent[a].key) /\ Home(a) # Gc
  BY HomeOf, ListedEntry, CellFacts
<1> QED
  BY <1>3, <1>4, <1>5, MembersOnce DEF Listed

-----------------------------------------------------------------------------
(* What the chains hold *)

\* S is where the walk of p has been along the slot of its key, up to the cell where it
\* is: the key is not there.
Passed(p, S) ==
  /\ S \subseteq HeadCell \cup Listed
  /\ SlotHead(wr[p].key) \in S /\ wr[p].cur \in S
  /\ \A c \in S: Home(c) = SlotHead(wr[p].key)
  /\ \A c \in S \ {wr[p].cur}: next[c] \in S
  /\ \A a \in S \cap linked: ent[a].key # wr[p].key
Searched(p) ==
  /\ wr[p].step \in {"insert", "delete"} => \E S \in SUBSET Cell: Passed(p, S)
  /\ wr[p].step = "link" => \A a \in linked: ent[a].key # wr[p].key

\* The steps at which it matters.
Searching == {"insert", "delete", "link"}

KeysUnique == \A a, b \in linked: ent[a].key = ent[b].key => a = b
SizeExact == IsFiniteSet(linked) /\ memSize = Bytes(linked)

ExactInv == Loose /\ KeysUnique /\ SizeExact /\ \A p \in Writer: Searched(p)

\* Bytes for any state of the blocks.
BytesIn(h, D) == SumFunctionOnSet([a \in D |-> SizeOf[h[a].key]], D)

LEMMA BytesAre ==
  /\ Bytes(linked) = BytesIn(ent, linked)
  /\ Bytes(linked)' = BytesIn(ent', linked')
BY DEF Bytes, BytesIn

\* The sizes of entries can be added up.
LEMMA EntriesWeigh ==
  ASSUME NEW h, NEW D, IsFiniteSet(D), \A a \in D: h[a] \in Entry
  PROVE  Weighs([a \in D |-> SizeOf[h[a].key]], D)
BY SizeAssumption DEF Weighs, Entry

\* The bytes depend on the keys only.
LEMMA BytesFrame ==
  ASSUME NEW h, NEW g, NEW D, IsFiniteSet(D), \A a \in D: h[a] \in Entry /\ g[a].key = h[a].key
  PROVE  BytesIn(h, D) = BytesIn(g, D)
<1>1. Weighs([a \in D |-> SizeOf[h[a].key]], D)
  BY EntriesWeigh
<1>2. \A x \in D: [a \in D |-> SizeOf[h[a].key]][x] = [a \in D |-> SizeOf[g[a].key]][x]
  OBVIOUS
<1> QED
  BY <1>1, <1>2, SumFrame DEF BytesIn

\* Any entry can be taken out.
LEMMA BytesTakes ==
  ASSUME NEW h, NEW D, IsFiniteSet(D), \A a \in D: h[a] \in Entry
  PROVE  /\ BytesIn(h, D) \in Nat /\ (D = {} => BytesIn(h, D) = 0)
         /\ \A x \in D: /\ SizeOf[h[x].key] \in Nat \ {0}
                        /\ BytesIn(h, D \ {x}) \in Nat
                        /\ BytesIn(h, D) = SizeOf[h[x].key] + BytesIn(h, D \ {x})
<1> DEFINE f(E) == [a \in E |-> SizeOf[h[a].key]]
<1>1. Weighs(f(D), D)
  BY EntriesWeigh
<1>2. ASSUME NEW x \in D
      PROVE  /\ SumFunctionOnSet(f(D), D \ {x}) = SumFunctionOnSet(f(D \ {x}), D \ {x})
             /\ SumFunctionOnSet(f(D \ {x}), D \ {x}) \in Nat
  <2>1. IsFiniteSet(D \ {x})
    BY FS_RemoveElement
  <2>2. Weighs(f(D \ {x}), D \ {x})
    BY <2>1, EntriesWeigh
  <2>3. Weighs(f(D), D \ {x})
    BY <1>1, <2>1 DEF Weighs
  <2>4. \A a \in D \ {x}: f(D)[a] = f(D \ {x})[a]
    OBVIOUS
  <2> DEFINE u == f(D)
             v == f(D \ {x})
             E == D \ {x}
  <2>5. Weighs(v, E) /\ Weighs(u, E) /\ \A a \in E: u[a] = v[a]
    BY <2>2, <2>3, <2>4
  <2> HIDE DEF u, v, E
  <2>6. SumFunctionOnSet(u, E) = SumFunctionOnSet(v, E)
    BY <2>5, SumFrame
  <2>7. SumFunctionOnSet(v, E) \in Nat
    BY <2>5, SumTakes
  <2> QED
    BY <2>6, <2>7 DEF u, v, E
<1>3. \A x \in D: f(D)[x] = SizeOf[h[x].key] /\ SizeOf[h[x].key] \in Nat \ {0}
  BY SizeAssumption DEF Entry
<1>4. \A E: BytesIn(h, E) = SumFunctionOnSet(f(E), E)
  BY DEF BytesIn
<1> HIDE DEF f
<1> QED
  BY <1>1, <1>2, <1>3, <1>4, SumTakes

\* The entries of the slots have a size.
LEMMA LinkedWeigh ==
  ASSUME Lists, SizeExact
  PROVE  IsFiniteSet(linked) /\ \A a \in linked: ent[a] \in Entry
BY ListedEntry DEF SizeExact, Listed

\* What the invariants say, in the words of the property.
LEMMA ExactHolds ==
  ASSUME ChainsInv, ExactInv
  PROVE  ChainsExact
<1>1. Lists /\ Loose /\ Owned
  BY DEF ChainsInv, ExactInv
<1>2. ASSUME NEW c \in HeadCell
      PROVE  LET chain == Chain(c)
                 members == {chain[i]: i \in DOMAIN chain}
             IN /\ Cardinality(members) = Len(chain)
                /\ members = IF c = Gc THEN removed
                             ELSE {a \in linked: SlotHead(ent[a].key) = c}
  BY <1>1, ChainHolds DEF Members
<1>3. linked \cap removed = {}
  BY <1>1 DEF Lists
<1>4. \A a, b \in linked: ent[a].key = ent[b].key => a = b
  BY DEF ExactInv, KeysUnique
<1>5. \A a \in Addr \ Listed: ent[a] = Free \/ \E p \in Writer: wr[p].new = a
  BY <1>1 DEF Owned
<1>6. memSize = Bytes(linked)
  BY DEF ExactInv, SizeExact
<1> QED
  BY <1>2, <1>3, <1>4, <1>5, <1>6 DEF ChainsExact

\* One that waits while others change nothing on the chains has searched as before.
LEMMA SearchedSame ==
  ASSUME Lists, NEW q, Searched(q), wr'[q] = wr[q], UNCHANGED <<next, linked, removed>>,
         \A a \in Listed: ent'[a].key = ent[a].key
  PROVE  Searched(q)'
<1>1. Listed' = Listed
  BY DEF Listed
<1>2. \A c \in HeadCell \cup Listed: Home(c)' = Home(c)
  BY CellFacts DEF Home, Listed, Lists
<1>3. ASSUME wr[q].step \in {"insert", "delete"} PROVE \E S \in SUBSET Cell: Passed(q, S)'
  <2>1. PICK S \in SUBSET Cell: Passed(q, S)
    BY <1>3 DEF Searched
  <2>2. \A c \in S: Home(c)' = Home(c)
    BY <2>1, <1>2 DEF Passed
  <2>3. Passed(q, S)'
    BY <2>1, <2>2, <1>1 DEF Passed, SlotHead, Listed
  <2> QED
    BY <2>3
<1>4. ASSUME wr[q].step = "link" PROVE \A a \in linked': ent'[a].key # wr'[q].key
  BY <1>4 DEF Searched, Listed
<1> QED
  BY <1>3, <1>4 DEF Searched

\* A step that changes neither pointers nor keys on the chains, and for those that are
\* somewhere else on their walk, or with it, has looked at what they passed.
LEMMA QuietExact ==
  ASSUME ChainsInv, ExactInv, UNCHANGED <<next, linked, removed, memSize>>,
         \A a \in Listed: ent'[a].key = ent[a].key,
         \A q \in Writer: wr'[q] = wr[q] \/ Searched(q)'
  PROVE  ExactInv'
<1>1. Lists /\ Loose /\ KeysUnique /\ SizeExact /\ Listed' = Listed
  BY DEF ChainsInv, ExactInv, Listed
<1>2. Loose'
  BY <1>1 DEF Loose
<1>3. KeysUnique'
  BY <1>1 DEF KeysUnique, Listed
<1>4. BytesIn(ent, linked) = BytesIn(ent', linked)
  BY <1>1, LinkedWeigh, BytesFrame DEF Listed
<1>5. SizeExact'
  BY <1>1, <1>4, BytesAre DEF SizeExact
<1>6. ASSUME NEW q \in Writer PROVE Searched(q)'
  <2>1. Searched(q)
    BY DEF ExactInv
  <2> QED
    BY <2>1, <1>1, SearchedSame
<1> QED
  BY <1>2, <1>3, <1>5, <1>6 DEF ExactInv

\* Who does not hold the lock is not inserting.
LEMMA OthersWait ==
  ASSUME ChainsInv, NEW q \in Writer, lock # q, wr'[q] = wr[q]
  PROVE  Searched(q)'
<1>1. wr[q].step \notin Locked
  BY DEF ChainsInv, Control
<1> QED
  BY <1>1 DEF Searched, Locked

\* An entry that leaves its slot takes its bytes with it.
LEMMA RemoveExact ==
  ASSUME Lists, Loose, KeysUnique, SizeExact, NEW e \in linked, RemoveEntry(e)
  PROVE  /\ Loose' /\ KeysUnique' /\ SizeExact'
         /\ \A a \in linked': ent'[a] = ent[a]
         /\ \A c \in Cell \ {prev[e], e, Gc}: next'[c] = next[c]
<1>1. /\ e \in Listed /\ e \in Addr /\ e \in Cell /\ e \notin HeadCell
      /\ prev[e] \in HeadCell \cup Listed
      /\ Gc \in HeadCell
  BY ListsWellLinked, CellFacts DEF WellLinked, Lists, Listed
<1>2. linked' = linked \ {e} /\ memSize' = LessMemory(e)
  BY DEF RemoveEntry
<1>3. next \in [Cell -> Pointer]
  BY DEF Lists, PointersType
<1> DEFINE n == UnlinkNext(next, prev, e)
<1>4. /\ n \in [Cell -> Pointer] /\ \A c \in Cell \ {prev[e], e}: n[c] = next[c]
      /\ prev[e] # e => n[e] = Null
  BY <1>1, <1>3, CellFacts DEF UnlinkNext, Pointer
<1>5. prev[e] # e
  <2>1. next[prev[e]] = e
    BY <1>1, ListsWellLinked DEF WellLinked
  <2> QED
    BY <1>1, <2>1, NextOnChain, CellFacts
<1> HIDE DEF n
<1>6. \/ /\ next' = n /\ ent' = [ent EXCEPT ![e] = Free] /\ removed' = removed
      \/ /\ next' = LinkNext(n, Gc, e) /\ ent' = ent /\ removed' = removed \cup {e}
  BY DEF RemoveEntry, RemoveUnused, RemoveUsed, Unlink, FreeEntry, n
<1>7. \A c \in Cell \ {e, Gc}: next'[c] = n[c]
  BY <1>4, <1>6 DEF LinkNext
<1>8. \A c \in Cell \ {prev[e], e, Gc}: next'[c] = next[c]
  BY <1>4, <1>7
<1>9. \A a \in linked': ent'[a] = ent[a]
  BY <1>2, <1>6 DEF Lists
<1>10. Loose'
  <2> SUFFICES ASSUME NEW a \in Addr \ Listed' PROVE next'[a] = Null
    BY DEF Loose
  <2>1. CASE a = e
    <3>1. next' = n
      BY <2>1, <1>6 DEF Listed
    <3> QED
      BY <3>1, <2>1, <1>4, <1>5
  <2>2. CASE a # e
    <3>1. a \in Addr \ Listed /\ a \in Cell /\ a # prev[e] /\ a # Gc
      BY <2>2, <1>1, <1>2, <1>6, CellFacts DEF Listed
    <3> QED
      BY <3>1, <2>2, <1>8 DEF Loose
  <2> QED
    BY <2>1, <2>2
<1>11. KeysUnique'
  BY <1>2, <1>9 DEF KeysUnique
<1>12. SizeExact'
  <2>1. IsFiniteSet(linked) /\ \A a \in linked: ent[a] \in Entry
    BY LinkedWeigh
  <2>2. IsFiniteSet(linked')
    BY <2>1, <1>2, FS_RemoveElement
  <2>3. /\ SizeOf[ent[e].key] \in Nat \ {0} /\ BytesIn(ent, linked \ {e}) \in Nat
        /\ BytesIn(ent, linked) = SizeOf[ent[e].key] + BytesIn(ent, linked \ {e})
    BY <2>1, BytesTakes
  <2>4. memSize = BytesIn(ent, linked)
    BY BytesAre DEF SizeExact
  <2>5. memSize' = BytesIn(ent, linked')
    BY <2>3, <2>4, <1>2 DEF LessMemory
  <2>6. BytesIn(ent, linked') = BytesIn(ent', linked')
    BY <2>1, <2>2, <1>2, <1>9, BytesFrame
  <2> QED
    BY <2>2, <2>5, <2>6, BytesAre DEF SizeExact
<1> QED
  BY <1>8, <1>9, <1>10, <1>11, <1>12

\* The invariant after a removal by the holder of the lock.
LEMMA RemoveExactInv ==
  ASSUME ChainsInv, ExactInv, NEW p \in Writer, lock = p, NEW e \in linked, RemoveEntry(e),
         \A q \in Writer \ {p}: wr'[q] = wr[q], Searched(p)'
  PROVE  ExactInv'
<1>1. Loose' /\ KeysUnique' /\ SizeExact'
  BY RemoveExact DEF ChainsInv, ExactInv
<1>2. ASSUME NEW q \in Writer PROVE Searched(q)'
  BY OthersWait
<1> QED
  BY <1>1, <1>2 DEF ExactInv

\* What a step of p leaves to the others, when its record is described.
LEMMA BecomesOthers ==
  ASSUME ChainsInv, NEW p \in Writer, NEW op, NEW step, NEW key, NEW new, NEW cur,
         Becomes(p, op, step, key, new, cur)
  PROVE  /\ \A q \in Writer \ {p}: wr'[q] = wr[q]
         /\ wr'[p].step = step /\ wr'[p].key = key /\ wr'[p].cur = cur
<1>1. wr \in [Writer -> OpRecord]
  BY DEF ChainsInv, ProcessTypes
<1> QED
  BY <1>1 DEF Becomes

\* The operations that remove entries of the slots.
LEMMA InsertReplaceExact ==
  ASSUME ChainsInv, ExactInv, NEW p \in Writer, InsertReplace(p)
  PROVE  ExactInv'
<1> DEFINE e == next[wr[p].cur]
<1>1. /\ wr[p].step = "insert" /\ e # Null /\ ent[e].key = wr[p].key /\ RemoveEntry(e)
      /\ SetStep(p, "link")
  BY DEF InsertReplace
<1>2. lock = p /\ e \in linked
  BY <1>1, Walk DEF Locked
<1>3. /\ \A q \in Writer \ {p}: wr'[q] = wr[q]
      /\ wr'[p].step = "link" /\ wr'[p].key = wr[p].key
  BY <1>1, SetStepBecomes, BecomesOthers DEF Steps
<1>4. /\ linked' = linked \ {e} /\ \A a \in linked': ent'[a] = ent[a]
  BY <1>1, <1>2, RemoveExact DEF RemoveEntry, ChainsInv, ExactInv
<1>5. \A a \in linked': ent'[a].key # wr'[p].key
  BY <1>1, <1>2, <1>3, <1>4 DEF ExactInv, KeysUnique
<1>6. Searched(p)'
  BY <1>3, <1>5 DEF Searched
<1> QED
  BY <1>1, <1>2, <1>3, <1>6, RemoveExactInv

LEMMA DeleteFoundExact ==
  ASSUME ChainsInv, ExactInv, NEW p \in Writer, DeleteFound(p)
  PROVE  ExactInv'
<1> DEFINE e == next[wr[p].cur]
<1>1. wr[p].step = "delete" /\ e # Null /\ RemoveEntry(e) /\ Finish(p)
  BY DEF DeleteFound
<1>2. lock = p /\ e \in linked
  BY <1>1, Walk DEF Locked
<1>3. (\A q \in Writer \ {p}: wr'[q] = wr[q]) /\ wr'[p].step = "idle"
  BY <1>1, FinishBecomes, BecomesOthers
<1>4. Searched(p)'
  BY <1>3 DEF Searched
<1> QED
  BY <1>1, <1>2, <1>3, <1>4, RemoveExactInv

LEMMA WipeEntryExact ==
  ASSUME ChainsInv, ExactInv, NEW p \in Writer, WipeEntry(p)
  PROVE  ExactInv'
<1> DEFINE e == next[wr[p].cur]
<1>1. wr[p].step = "wipe" /\ e # Null /\ RemoveEntry(e) /\ wr' = wr
  BY DEF WipeEntry
<1>2. lock = p /\ e \in linked
  BY <1>1, Walk DEF Locked
<1>3. Searched(p)'
  BY <1>1 DEF Searched
<1> QED
  BY <1>1, <1>2, <1>3, RemoveExactInv

\* An entry that is out of date goes; those passed stay where they are.
LEMMA InsertExpireExact ==
  ASSUME ChainsInv, ExactInv, NEW p \in Writer, InsertExpire(p)
  PROVE  ExactInv'
<1>0. PICK e: e = next[wr[p].cur]
  OBVIOUS
<1>1. /\ wr[p].step = "insert" /\ e # Null /\ ent[e].key # wr[p].key /\ RemoveEntry(e)
      /\ wr' = wr
  BY <1>0 DEF InsertExpire
<1>2. /\ lock = p /\ e \in linked /\ e \in Listed /\ e # wr[p].cur
      /\ wr[p].cur \in HeadCell \cup Listed /\ wr[p].key \in Key
  BY <1>0, <1>1, Walk DEF Locked, OpRecord
<1>3. Lists
  BY DEF ChainsInv
<1>4. /\ prev[e] = wr[p].cur
      /\ \A c \in HeadCell \cup Listed: next[c] = e => c = wr[p].cur
  BY <1>0, <1>1, <1>2, <1>3, ListsWellLinked DEF WellLinked
<1>5. PICK P \in SUBSET Cell: Passed(p, P)
  BY <1>1 DEF ExactInv, Searched
<1>6. /\ linked' = linked \ {e}
      /\ \A c \in (HeadCell \cup Listed) \ {e}:
              c \in HeadCell \cup Listed' /\ Home(c)' = Home(c)
  BY <1>1, <1>2, <1>3, RemoveEffect
<1>7. /\ \A a \in linked': ent'[a] = ent[a]
      /\ \A c \in Cell \ {prev[e], e, Gc}: next'[c] = next[c]
  BY <1>1, <1>2, RemoveExact DEF ChainsInv, ExactInv
<1>8. SlotHead(wr[p].key) \in HeadCell /\ SlotHead(wr[p].key) # Gc /\ e \notin HeadCell
  BY <1>2, CellFacts DEF Lists, Listed, ChainsInv
<1>9. Passed(p, P \ {e})'
  <2>1. P \ {e} \subseteq HeadCell \cup Listed'
    BY <1>5, <1>6 DEF Passed
  <2>2. SlotHead(wr[p].key) \in P \ {e} /\ wr[p].cur \in P \ {e}
    BY <1>2, <1>5, <1>8 DEF Passed
  <2>3. \A c \in P \ {e}: Home(c)' = SlotHead(wr[p].key)
    BY <1>5, <1>6 DEF Passed
  <2>4. ASSUME NEW c \in (P \ {e}) \ {wr[p].cur} PROVE next'[c] \in P \ {e}
    <3>1. c \in HeadCell \cup Listed /\ c \in Cell /\ next[c] \in P /\ Home(c) = SlotHead(wr[p].key)
      BY <1>5 DEF Passed
    <3>2. c # Gc
      BY <3>1, <1>8, CellFacts DEF Home
    <3>3. next[c] # e
      BY <3>1, <1>4
    <3>4. next'[c] = next[c]
      BY <3>1, <3>2, <1>4, <1>7
    <3> QED
      BY <3>1, <3>3, <3>4
  <2>5. \A a \in (P \ {e}) \cap linked': ent'[a].key # wr[p].key
    BY <1>5, <1>6, <1>7 DEF Passed
  <2>6. wr'[p].key = wr[p].key /\ wr'[p].cur = wr[p].cur
    BY <1>1
  <2>7. SlotHead(wr[p].key)' = SlotHead(wr[p].key)
    BY <2>6 DEF SlotHead
  <2> QED
    BY <2>1, <2>2, <2>3, <2>4, <2>5, <2>6, <2>7 DEF Passed
<1>10. Searched(p)'
  BY <1>1, <1>9 DEF Searched
<1> QED
  BY <1>1, <1>2, <1>10, RemoveExactInv

\* A collected entry is none of the slots'.
LEMMA GcFreeExact ==
  ASSUME ChainsInv, ExactInv, NEW p \in Writer, GcFree(p)
  PROVE  ExactInv'
<1>0. PICK e: e = next[wr[p].cur]
  OBVIOUS
<1>1. /\ wr[p].step = "gc" /\ e # Null /\ removed' = removed \ {e} /\ linked' = linked
      /\ memSize' = memSize /\ wr' = wr /\ ent' = [ent EXCEPT ![e] = Free]
      /\ next' = UnlinkNext(next, prev, e)
  BY <1>0 DEF GcFree, Unlink, FreeEntry
<1>2. /\ lock = p /\ e \in removed /\ Lists /\ Loose /\ KeysUnique /\ SizeExact
      /\ next \in [Cell -> Pointer]
  BY <1>0, <1>1, Walk DEF Locked, ChainsInv, ExactInv, Lists, PointersType
<1>3. /\ e \in Listed /\ e \notin linked /\ e \in Cell /\ e # Null
      /\ prev[e] \in HeadCell \cup Listed /\ next[prev[e]] = e
  BY <1>2, ListsWellLinked, CellFacts DEF WellLinked, Lists, Listed
<1>4. prev[e] # e /\ prev[e] \in Cell
  BY <1>2, <1>3, NextOnChain, CellFacts DEF Lists, Listed
<1>5. next'[e] = Null /\ \A c \in Cell \ {prev[e], e}: next'[c] = next[c]
  BY <1>1, <1>2, <1>3, <1>4 DEF UnlinkNext
<1>6. Loose'
  <2> SUFFICES ASSUME NEW a \in Addr \ Listed' PROVE next'[a] = Null
    BY DEF Loose
  <2>1. a # e => a \in Addr \ Listed /\ a \in Cell /\ a # prev[e]
    BY <1>1, <1>3, CellFacts DEF Listed
  <2> QED
    BY <2>1, <1>2, <1>5 DEF Loose
<1>7. \A a \in linked: ent'[a] = ent[a]
  BY <1>1, <1>2, <1>3 DEF Lists
<1>8. KeysUnique'
  BY <1>1, <1>2, <1>7 DEF KeysUnique
<1>9. SizeExact'
  <2>1. BytesIn(ent, linked) = BytesIn(ent', linked)
    BY <1>2, <1>7, LinkedWeigh, BytesFrame
  <2> QED
    BY <2>1, <1>1, <1>2, BytesAre DEF SizeExact
<1>10. ASSUME NEW q \in Writer PROVE Searched(q)'
  <2>1. CASE q = p
    BY <2>1, <1>1 DEF Searched
  <2>2. CASE q # p
    BY <2>2, <1>1, <1>2, OthersWait
  <2> QED
    BY <2>1, <2>2
<1> QED
  BY <1>6, <1>8, <1>9, <1>10 DEF ExactInv

\* A new entry is the only one of its key, and brings its bytes.
LEMMA InsertLinkExact ==
  ASSUME ChainsInv, ExactInv, NEW p \in Writer, InsertLink(p)
  PROVE  ExactInv'
<1>0. PICK e: e = wr[p].new
  OBVIOUS
<1>1. /\ wr[p].step = "link" /\ lock = p /\ wr[p].cur \in HeadCell \cup Listed /\ Lists
      /\ Control(p) /\ wr[p] \in OpRecord /\ Loose /\ KeysUnique /\ SizeExact /\ Searched(p)
      /\ next \in [Cell -> Pointer]
  BY Walk DEF InsertLink, Locked, ChainsInv, ExactInv, Lists, PointersType
<1>2. /\ e \in Addr \ Listed /\ ent[e] # Free /\ ent[e].key = wr[p].key /\ e \in Cell
      /\ ent[e] \in Entry
  BY <1>0, <1>1, CellFacts DEF Control, Storing, Lists
<1>3. /\ Link(wr[p].cur, e) /\ linked' = linked \cup {e} /\ ent' = ent /\ removed' = removed
      /\ wr' = [wr EXCEPT ![p] = [NoOp EXCEPT !.step = "release", !.new = e]]
      /\ memSize' = memSize + SizeOf[wr[p].key]
  BY <1>0 DEF InsertLink
<1>4. /\ Listed' = Listed \cup {e} /\ e \notin linked
  BY <1>2, <1>3 DEF Listed
<1>5. Loose'
  <2> SUFFICES ASSUME NEW a \in Addr \ Listed' PROVE next'[a] = Null
    BY DEF Loose
  <2>1. a \in Addr \ Listed /\ a \in Cell /\ a # e /\ a # wr[p].cur
    BY <1>1, <1>4, CellFacts
  <2>2. next'[a] = next[a]
    BY <2>1, <1>1, <1>3 DEF Link, LinkNext
  <2> QED
    BY <2>1, <2>2, <1>1 DEF Loose
<1>6. \A a \in linked: ent[a].key # ent[e].key
  BY <1>1, <1>2 DEF Searched
<1>7. KeysUnique'
  BY <1>1, <1>3, <1>6 DEF KeysUnique
<1>8. SizeExact'
  <2>1. IsFiniteSet(linked) /\ \A a \in linked: ent[a] \in Entry
    BY <1>1, LinkedWeigh
  <2>2. IsFiniteSet(linked') /\ \A a \in linked': ent[a] \in Entry
    BY <2>1, <1>2, <1>3, FS_AddElement
  <2>3. linked' \ {e} = linked /\ e \in linked'
    BY <1>3, <1>4
  <2>4. /\ SizeOf[ent[e].key] \in Nat \ {0} /\ BytesIn(ent, linked' \ {e}) \in Nat
        /\ BytesIn(ent, linked') = SizeOf[ent[e].key] + BytesIn(ent, linked' \ {e})
    BY <2>2, <2>3, BytesTakes
  <2>5. memSize = BytesIn(ent, linked)
    BY <1>1, BytesAre DEF SizeExact
  <2>6. memSize' = memSize + SizeOf[ent[e].key]
    BY <1>2, <1>3
  <2>7. BytesIn(ent', linked') = BytesIn(ent, linked')
    BY <1>3
  <2>8. memSize' = BytesIn(ent', linked')
    <3>1. PICK n: n = BytesIn(ent, linked)
      OBVIOUS
    <3>2. PICK size: size = SizeOf[ent[e].key]
      OBVIOUS
    <3>3. n \in Nat /\ size \in Nat /\ BytesIn(ent, linked') = size + n
      BY <2>3, <2>4, <3>1, <3>2
    <3>4. memSize = n /\ memSize' = memSize + size
      BY <2>5, <2>6, <3>1, <3>2
    <3>5. memSize' = size + n
      BY <3>3, <3>4
    <3> QED
      BY <2>7, <3>3, <3>5
  <2> QED
    BY <2>2, <2>8, BytesAre DEF SizeExact
<1>9. ASSUME NEW q \in Writer PROVE Searched(q)'
  <2>1. CASE q = p
    <3>1. wr'[p].step = "release"
      BY <1>3 DEF ChainsInv, ProcessTypes, NoOp
    <3> QED
      BY <2>1, <3>1 DEF Searched
  <2>2. CASE q # p
    BY <2>2, <1>1, <1>3, OthersWait
  <2> QED
    BY <2>1, <2>2
<1> QED
  BY <1>5, <1>7, <1>8, <1>9 DEF ExactInv

\* A block that moves takes its key with it.
LEMMA DefragmentExact ==
  ASSUME ChainsInv, ExactInv, Defragment
  PROVE  ExactInv'
<1>1. PICK old \in Addr, new \in Addr:
        /\ ent[old] # Free /\ Movable(ent[old]) /\ ent[new] = Free
        /\ next' = MoveNext(next, prev, old, new)
        /\ prev' = MovePrev(prev, next, old, new)
        /\ ent' = [ent EXCEPT ![new] = ent[old], ![old] = Free]
        /\ linked' = IF old \in linked THEN (linked \ {old}) \cup {new} ELSE linked
        /\ removed' = IF old \in removed THEN (removed \ {old}) \cup {new} ELSE removed
  BY DEF Defragment
<1>2. /\ lock = Nobody /\ wr' = wr /\ memSize' = memSize
      /\ Lists /\ ent \in [Addr -> Entry \cup {Free}] /\ next \in [Cell -> Pointer]
      /\ Loose /\ KeysUnique /\ SizeExact
  BY DEF Defragment, ChainsInv, Lists, ExactInv, PointersType
<1>3. old # new /\ ent[old].ref <= 0 /\ new \notin Listed /\ new \in Cell /\ old \in Cell
  BY <1>1, FreeUnheld, CellFacts DEF Movable
<1>4. \A q \in Writer: wr[q].new # old
  BY <1>1, <1>3, NobodyHolds DEF ChainsInv
<1>5. old \in Listed
  BY <1>1, <1>4 DEF ChainsInv, Owned
<1>6. Listed' = (Listed \ {old}) \cup {new}
  BY <1>1, <1>2, <1>5, MoveEffect
<1>7. prev[old] \in HeadCell \cup Listed /\ next[prev[old]] = old
  BY <1>2, <1>5, ListsWellLinked DEF WellLinked
<1>8. prev[old] # old /\ prev[old] \in Cell
  BY <1>1, <1>2, <1>7, NextOnChain, CellFacts DEF Lists, Listed
<1>9. next'[old] = Null /\ \A c \in Cell \ {prev[old], old, new}: next'[c] = next[c]
  BY <1>1, <1>2, <1>3, <1>8 DEF MoveNext
<1>10. Loose'
  <2> SUFFICES ASSUME NEW a \in Addr \ Listed' PROVE next'[a] = Null
    BY DEF Loose
  <2>1. a # old => a \in Addr \ Listed /\ a \in Cell /\ a # prev[old] /\ a # new
    BY <1>6, <1>7, CellFacts
  <2> QED
    BY <2>1, <1>2, <1>9 DEF Loose
<1>11. /\ ent'[new] = ent[old] /\ \A a \in Addr: a # old /\ a # new => ent'[a] = ent[a]
       /\ linked \in SUBSET Addr /\ new \notin linked
  BY <1>1, <1>2, <1>3 DEF Lists, Listed
<1>12. KeysUnique'
  BY <1>1, <1>2, <1>11 DEF KeysUnique
<1>13. IsFiniteSet(linked) /\ \A a \in linked: ent[a] \in Entry
  BY <1>2, LinkedWeigh
<1>14. IsFiniteSet(linked') /\ BytesIn(ent', linked') = BytesIn(ent, linked)
  <2>1. CASE old \notin linked
    <3>1. \A a \in linked: ent[a] \in Entry /\ ent'[a].key = ent[a].key
      BY <2>1, <1>11, <1>13
    <3>2. linked' = linked
      BY <2>1, <1>1
    <3>3. BytesIn(ent, linked) = BytesIn(ent', linked)
      BY <3>1, <1>13, BytesFrame
    <3> QED
      BY <3>2, <3>3, <1>13
  <2>2. CASE old \in linked
    <3> DEFINE D == linked \ {old}
    <3>0. IsFiniteSet(D)
      BY <1>13, FS_RemoveElement
    <3>1. /\ linked' = D \cup {new} /\ (D \cup {new}) \ {new} = D /\ IsFiniteSet(D)
          /\ \A a \in D: ent[a] \in Entry /\ ent'[a] = ent[a]
          /\ ent[old] \in Entry
      BY <2>2, <3>0, <1>1, <1>11, <1>13
    <3>2. IsFiniteSet(D \cup {new}) /\ \A a \in D \cup {new}: ent'[a] \in Entry
      BY <3>1, <1>11, FS_AddElement
    <3>3. BytesIn(ent, linked) = SizeOf[ent[old].key] + BytesIn(ent, D)
      BY <2>2, <1>13, BytesTakes
    <3> HIDE DEF D
    <3>4. BytesIn(ent', D \cup {new}) = SizeOf[ent'[new].key] + BytesIn(ent', (D \cup {new}) \ {new})
      BY <3>2, BytesTakes
    <3>5. BytesIn(ent, D) = BytesIn(ent', D)
      BY <3>1, BytesFrame
    <3> QED
      BY <3>1, <3>2, <3>3, <3>4, <3>5, <1>11
  <2> QED
    BY <2>1, <2>2
<1>15. SizeExact'
  BY <1>2, <1>14, BytesAre DEF SizeExact
<1>16. ASSUME NEW q \in Writer PROVE Searched(q)'
  BY <1>2, ProcessAssumption, OthersWait
<1> QED
  BY <1>10, <1>12, <1>15, <1>16 DEF ExactInv

\* The operations that change neither pointers nor keys, and are not searching after it.
LEMMA OutsideExact ==
  ASSUME ChainsInv, ExactInv, UNCHANGED <<next, linked, removed, memSize>>,
         \A a \in Listed: ent'[a].key = ent[a].key,
         NEW p \in Writer, NEW w, wr' = [wr EXCEPT ![p] = w], w.step \notin Searching
  PROVE  ExactInv'
<1>1. ASSUME NEW q \in Writer PROVE wr'[q] = wr[q] \/ Searched(q)'
  <2>1. CASE q = p
    <3>1. wr'[p] = w
      BY DEF ChainsInv, ProcessTypes
    <3> QED
      BY <2>1, <3>1 DEF Searched, Searching
  <2> QED
    BY <2>1
<1> QED
  BY <1>1, QuietExact

\* The same for what is left of an operation when its record is described.
LEMMA LeaveExact ==
  ASSUME ChainsInv, ExactInv, UNCHANGED chains, NEW p \in Writer,
         NEW op, NEW step, NEW key, NEW new, NEW cur, Becomes(p, op, step, key, new, cur),
         step \notin Searching
  PROVE  ExactInv'
<1>1. PICK w \in OpRecord: wr' = [wr EXCEPT ![p] = w] /\ w.step = step
  BY DEF Becomes
<1>2. w.step \notin Searching /\ ent' = ent /\ UNCHANGED <<next, linked, removed, memSize>>
  BY <1>1 DEF chains, pointers
<1> QED
  BY <1>1, <1>2, OutsideExact

\* A search starts at the head of a slot.
LEMMA StartExact ==
  ASSUME ChainsInv, ExactInv, UNCHANGED chains, NEW p \in Writer, NEW k \in Key,
         \A q \in Writer \ {p}: wr'[q] = wr[q],
         wr'[p].step \in {"insert", "delete"}, wr'[p].key = k, wr'[p].cur = SlotHead(k)
  PROVE  ExactInv'
<1>1. PICK h: h = SlotHead(k)
  OBVIOUS
<1>2. h \in HeadCell /\ h \in Cell /\ h \notin linked
  BY <1>1, CellFacts DEF ChainsInv, Lists
<1>3. SlotHead(wr[p].key)' = h /\ Home(h)' = h /\ linked' = linked
  BY <1>1, <1>2 DEF SlotHead, Home, chains
<1>4. Passed(p, {h})'
  BY <1>1, <1>2, <1>3 DEF Passed
<1>5. Searched(p)'
  BY <1>2, <1>4 DEF Searched
<1> QED
  BY <1>5, QuietExact DEF chains, pointers

\* Calls begin.
LEMMA BeginExact ==
  ASSUME ChainsInv, ExactInv, NEW p \in Writer,
         BeginStore(p) \/ BeginClear(p) \/ \E k \in Key: LockDelete(p, k)
  PROVE  ExactInv'
<1>1. CASE BeginStore(p)
  <2>1. PICK op \in {"store", "add"}, k \in Key, a \in Addr:
          /\ ent[a] = Free
          /\ ent' = [ent EXCEPT ![a] = [key |-> k, exp |-> Expiry(now, TtlOf[k]), ref |-> 1]]
          /\ wr' = [wr EXCEPT ![p] = [op |-> op, step |-> "wait", key |-> k, t |-> now,
                                      new |-> a, cur |-> Gc]]
    BY <1>1 DEF BeginStore
  <2>2. UNCHANGED <<next, linked, removed, memSize>>
    BY <1>1 DEF BeginStore, pointers
  <2>3. \A b \in Listed: ent'[b].key = ent[b].key
    <3>1. a \notin Listed
      BY <2>1, FreeUnheld
    <3> QED
      BY <2>1, <3>1 DEF ChainsInv, Lists, Listed
  <2>4. [op |-> op, step |-> "wait", key |-> k, t |-> now, new |-> a, cur |-> Gc].step
          \notin Searching
    BY DEF Searching
  <2> QED
    BY <2>1, <2>2, <2>3, <2>4, OutsideExact
<1>2. CASE BeginClear(p)
  <2>1. /\ wr' = [wr EXCEPT ![p] = [NoOp EXCEPT !.op = "clear", !.step = "wipe", !.cur = 0]]
        /\ UNCHANGED <<next, linked, removed, memSize>> /\ ent' = ent
    BY <1>2 DEF BeginClear, chains, pointers
  <2>2. [NoOp EXCEPT !.op = "clear", !.step = "wipe", !.cur = 0].step \notin Searching
    BY DEF NoOp, Searching
  <2> QED
    BY <2>1, <2>2, OutsideExact
<1>3. ASSUME NEW k \in Key, LockDelete(p, k) PROVE ExactInv'
  <2>1. /\ wr' = [wr EXCEPT ![p] = [NoOp EXCEPT !.op = "delete", !.step = "delete", !.key = k,
                                                 !.cur = SlotHead(k)]]
        /\ UNCHANGED chains
    BY <1>3 DEF LockDelete
  <2>2. /\ \A q \in Writer \ {p}: wr'[q] = wr[q]
        /\ wr'[p].step = "delete" /\ wr'[p].key = k /\ wr'[p].cur = SlotHead(k)
    BY <2>1 DEF ChainsInv, ProcessTypes, NoOp
  <2> QED
    BY <2>1, <2>2, StartExact
<1> QED
  BY <1>1, <1>2, <1>3

\* Steps of operations that do not search.
LEMMA WalkExact ==
  ASSUME ChainsInv, ExactInv, NEW p \in Writer,
         LockStore(p) \/ GcKeep(p) \/ DeleteMissing(p) \/ InsertRefuse(p) \/ WipeSlotEnd(p)
  PROVE  ExactInv'
<1>1. CASE LockStore(p)
  <2>1. UNCHANGED chains /\ SetStep(p, "gc") /\ "gc" \in Steps
    BY <1>1 DEF LockStore, Steps
  <2> QED
    BY <2>1, SetStepBecomes, LeaveExact DEF Searching
<1>2. CASE GcKeep(p)
  <2>1. /\ UNCHANGED chains /\ SetCur(p, next[wr[p].cur]) /\ wr[p].step = "gc"
        /\ next[wr[p].cur] # Null
    BY <1>2 DEF GcKeep
  <2>2. next[wr[p].cur] \in Cell
    BY <2>1, Walk, CellFacts DEF Locked, ChainsInv, Lists, Listed
  <2>3. wr[p].step \notin Searching
    BY <2>1 DEF Searching
  <2> QED
    BY <2>1, <2>2, <2>3, SetCurBecomes, LeaveExact
<1>3. CASE DeleteMissing(p)
  <2>1. UNCHANGED chains /\ Finish(p)
    BY <1>3 DEF DeleteMissing
  <2> QED
    BY <2>1, FinishBecomes, LeaveExact DEF Searching
<1>4. CASE InsertRefuse(p)
  <2>1. /\ wr' = [wr EXCEPT ![p] = [NoOp EXCEPT !.step = "drop", !.new = wr[p].new]]
        /\ UNCHANGED <<next, linked, removed, memSize>> /\ ent' = ent
    BY <1>4 DEF InsertRefuse, chains, pointers
  <2>2. [NoOp EXCEPT !.step = "drop", !.new = wr[p].new].step \notin Searching
    BY DEF NoOp, Searching
  <2> QED
    BY <2>1, <2>2, OutsideExact
<1>5. CASE WipeSlotEnd(p)
  <2>1. /\ wr' = [wr EXCEPT ![p].cur = @ + 1,
                            ![p].step = IF wr[p].cur + 1 < NSlots THEN "wipe" ELSE "gc"]
        /\ UNCHANGED <<next, linked, removed, memSize>> /\ ent' = ent
    BY <1>5 DEF WipeSlotEnd, chains, pointers
  <2>2. ASSUME NEW q \in Writer PROVE wr'[q] = wr[q] \/ wr'[q].step \in {"wipe", "gc"}
    BY <2>1 DEF ChainsInv, ProcessTypes, OpRecord
  <2>3. ASSUME NEW q \in Writer PROVE wr'[q] = wr[q] \/ Searched(q)'
    BY <2>2 DEF Searched
  <2> QED
    BY <2>1, <2>3, QuietExact
<1> QED
  BY <1>1, <1>2, <1>3, <1>4, <1>5

\* An insertion starts at the head of its slot.
LEMMA GcEndExact ==
  ASSUME ChainsInv, ExactInv, NEW p \in Writer, GcEnd(p)
  PROVE  ExactInv'
<1>1. UNCHANGED chains
  BY DEF GcEnd
<1>2. CASE wr[p].op = "clear"
  BY <1>1, <1>2, FinishBecomes, LeaveExact DEF GcEnd, Searching
<1>3. CASE wr[p].op # "clear"
  <2>1. wr' = [wr EXCEPT ![p].step = "insert", ![p].cur = SlotHead(wr[p].key)]
    BY <1>3 DEF GcEnd
  <2>2. wr[p].key \in Key /\ wr[p] \in OpRecord
    BY Walk DEF GcEnd, Locked, OpRecord
  <2>3. /\ \A q \in Writer \ {p}: wr'[q] = wr[q]
        /\ wr'[p].step = "insert" /\ wr'[p].key = wr[p].key
        /\ wr'[p].cur = SlotHead(wr[p].key)
    BY <2>1, <2>2 DEF ChainsInv, ProcessTypes, OpRecord
  <2> QED
    BY <1>1, <2>2, <2>3, StartExact
<1> QED
  BY <1>2, <1>3

\* A search passes an entry of another key.
LEMMA SkipExact ==
  ASSUME ChainsInv, ExactInv, NEW p \in Writer, InsertSkip(p) \/ DeleteSkip(p)
  PROVE  ExactInv'
<1>0. PICK e: e = next[wr[p].cur]
  OBVIOUS
<1>1. /\ wr[p].step \in {"insert", "delete"} /\ e # Null /\ ent[e].key # wr[p].key
      /\ SetCur(p, e) /\ UNCHANGED chains
  BY <1>0 DEF InsertSkip, DeleteSkip
<1>2. /\ e \in Listed /\ Home(e) = Home(wr[p].cur) /\ Home(wr[p].cur) = SlotHead(wr[p].key)
      /\ e \in Cell
  BY <1>0, <1>1, Walk, CellFacts DEF Locked, ChainsInv, Lists, Listed
<1>3. Becomes(p, wr[p].op, wr[p].step, wr[p].key, wr[p].new, e)
  BY <1>1, <1>2, SetCurBecomes
<1>4. /\ \A q \in Writer \ {p}: wr'[q] = wr[q]
      /\ wr'[p].step = wr[p].step /\ wr'[p].key = wr[p].key /\ wr'[p].cur = e
  BY <1>3, BecomesOthers
<1>5. PICK P \in SUBSET Cell: Passed(p, P)
  BY <1>1 DEF ExactInv, Searched
<1>6. /\ SlotHead(wr[p].key)' = SlotHead(wr[p].key) /\ Listed' = Listed /\ linked' = linked
      /\ ent' = ent /\ next' = next /\ \A c: Home(c)' = Home(c)
  BY <1>1, <1>4 DEF SlotHead, Listed, Home, chains, pointers
<1>7. \A c \in (P \cup {e}) \ {e}: next[c] \in P \cup {e}
  BY <1>0, <1>5 DEF Passed
<1>8. Passed(p, P \cup {e})'
  BY <1>1, <1>2, <1>4, <1>5, <1>6, <1>7 DEF Passed
<1>9. P \cup {e} \in SUBSET Cell
  BY <1>2
<1>10. Searched(p)'
  BY <1>1, <1>4, <1>8, <1>9 DEF Searched
<1> QED
  BY <1>1, <1>4, <1>10, QuietExact DEF chains, pointers

\* At the end of its slot a search has seen all the entries that can have its key.
LEMMA NotThere ==
  ASSUME ChainsInv, ExactInv, NEW p \in Writer, wr[p].step \in {"insert", "delete"},
         next[wr[p].cur] = Null
  PROVE  \A a \in linked: ent[a].key # wr[p].key
<1>1. PICK P \in SUBSET Cell: Passed(p, P)
  BY DEF ExactInv, Searched
<1>2. PICK h: h = SlotHead(wr[p].key)
  OBVIOUS
<1>3. wr[p].key \in Key /\ h \in HeadCell /\ h # Gc /\ Lists /\ Loose
  BY <1>2, Walk, CellFacts DEF Locked, OpRecord, ChainsInv, ExactInv
<1>4. \A c \in P: next[c] # Null => next[c] \in P
  BY <1>1 DEF Passed
<1>5. Members(h) \subseteq P
  BY <1>1, <1>2, <1>3, <1>4, MembersWithin DEF Passed
<1>6. Members(h) = {a \in linked: SlotHead(ent[a].key) = h}
  BY <1>3, ChainHolds
<1> QED
  BY <1>1, <1>2, <1>5, <1>6 DEF Passed

LEMMA InsertEndExact ==
  ASSUME ChainsInv, ExactInv, NEW p \in Writer, InsertEnd(p)
  PROVE  ExactInv'
<1>1. /\ wr[p].step = "insert" /\ next[wr[p].cur] = Null /\ SetStep(p, "link")
      /\ UNCHANGED chains
  BY DEF InsertEnd
<1>2. \A a \in linked: ent[a].key # wr[p].key
  BY <1>1, NotThere
<1>3. /\ \A q \in Writer \ {p}: wr'[q] = wr[q]
      /\ wr'[p].step = "link" /\ wr'[p].key = wr[p].key
  BY <1>1, SetStepBecomes, BecomesOthers DEF Steps
<1>4. Searched(p)'
  BY <1>1, <1>2, <1>3 DEF Searched, chains
<1> QED
  BY <1>1, <1>3, <1>4, QuietExact DEF chains, pointers

\* A store gives back its reference, or the block it did not link.
LEMMA GiveBackExact ==
  ASSUME ChainsInv, ExactInv, NEW p \in Writer, ReleaseNew(p) \/ DropNew(p)
  PROVE  ExactInv'
<1>1. UNCHANGED <<next, linked, removed, memSize>> /\ wr' = [wr EXCEPT ![p] = NoOp]
  BY DEF ReleaseNew, DropNew, Finish, pointers
<1>2. Control(p) /\ Lists /\ ent \in [Addr -> Entry \cup {Free}]
  BY DEF ChainsInv, Lists
<1>3. ASSUME NEW a \in Listed PROVE ent'[a].key = ent[a].key
  <2>1. a \in Addr /\ ent[a] \in Entry
    BY <1>2, ListedEntry
  <2>2. CASE ReleaseNew(p)
    <3>1. ent'[a] = ent[a] \/ \E n: ent'[a] = [ent[a] EXCEPT !.ref = n]
      BY <1>2, <2>1, <2>2 DEF ReleaseNew
    <3> QED
      BY <2>1, <3>1 DEF Entry
  <2>3. CASE DropNew(p)
    <3>1. wr[p].new \notin Listed
      BY <1>2, <2>3 DEF DropNew, Control, Storing
    <3> QED
      BY <2>1, <2>3, <3>1, <1>2 DEF DropNew, FreeEntry
  <2> QED
    BY <2>2, <2>3
<1>4. NoOp.step \notin Searching
  BY DEF NoOp, Searching
<1> QED
  BY <1>1, <1>3, <1>4, OutsideExact

\* Readers change counts only.
LEMMA CountsExact ==
  ASSUME ChainsInv, ExactInv, NEW r, NEW S, Pin(r, S) \/ Release(r, S)
  PROVE  ExactInv'
<1>1. UNCHANGED <<next, linked, removed, memSize, wr>>
  BY DEF Pin, Release, pointers
<1>2. ASSUME NEW a \in Listed PROVE ent'[a].key = ent[a].key
  <2>1. a \in Addr /\ ent[a] \in Entry
    BY ListedEntry DEF ChainsInv
  <2>2. ent'[a] = ent[a] \/ \E n: ent'[a] = [ent[a] EXCEPT !.ref = n]
    BY <2>1 DEF Pin, Release
  <2> QED
    BY <2>1, <2>2 DEF Entry
<1> QED
  BY <1>1, <1>2, QuietExact

\* A step of the cache, or of apcu_delete for an item of an iterator.
ChainsStep ==
  \/ ChainsNext
  \/ \E p \in Writer, k \in Key: Idle(p) /\ LockDelete(p, k)

LEMMA ExactNext == ChainsInv /\ ExactInv /\ [ChainsStep]_chainVars => ExactInv'
<1> SUFFICES ASSUME ChainsInv, ExactInv, [ChainsStep]_chainVars PROVE ExactInv'
  OBVIOUS
<1>1. ASSUME NEW p \in Writer, Begin(p) PROVE ExactInv'
  BY <1>1, BeginExact DEF Begin, BeginDelete
<1>2. ASSUME NEW p \in Writer, Continue(p) PROVE ExactInv'
  <2>1. CASE GcFree(p) \/ InsertReplace(p) \/ InsertExpire(p) \/ InsertLink(p)
    BY <2>1, GcFreeExact, InsertReplaceExact, InsertExpireExact, InsertLinkExact
  <2>2. CASE DeleteFound(p) \/ WipeEntry(p)
    BY <2>2, DeleteFoundExact, WipeEntryExact
  <2>3. CASE LockStore(p) \/ GcKeep(p) \/ DeleteMissing(p) \/ InsertRefuse(p) \/ WipeSlotEnd(p)
    BY <2>3, WalkExact
  <2>4. CASE GcEnd(p) \/ InsertSkip(p) \/ DeleteSkip(p) \/ InsertEnd(p)
    BY <2>4, GcEndExact, SkipExact, InsertEndExact
  <2>5. CASE ReleaseNew(p) \/ DropNew(p)
    BY <2>5, GiveBackExact
  <2> QED
    BY <1>2, <2>1, <2>2, <2>3, <2>4, <2>5 DEF Continue
<1>3. ASSUME NEW r \in Reader, NEW S \in SUBSET Addr, Pin(r, S) \/ Release(r, S)
      PROVE  ExactInv'
  BY <1>3, CountsExact
<1>4. CASE Tick \/ UNCHANGED chainVars
  <2>1. UNCHANGED <<next, linked, removed, memSize, wr>> /\ ent' = ent
    BY <1>4 DEF Tick, chainVars, chains, pointers
  <2> QED
    BY <2>1, QuietExact
<1>5. ASSUME NEW p \in Writer, NEW k \in Key, LockDelete(p, k) PROVE ExactInv'
  BY <1>5, BeginExact
<1> QED
  BY <1>1, <1>2, <1>3, <1>4, <1>5, DefragmentExact DEF ChainsStep, ChainsNext

\* An empty cache.
LEMMA ExactInit == ChainsInit => ExactInv
<1> SUFFICES ASSUME ChainsInit PROVE ExactInv
  OBVIOUS
<1>1. linked = {} /\ memSize = 0 /\ next = [c \in Cell |-> Null]
      /\ \A p \in Writer: wr[p].step = "idle"
  BY DEF ChainsInit, NoOp
<1>2. IsFiniteSet({})
  BY FS_EmptySet
<1>3. SizeExact
  BY <1>1, <1>2, BytesAre, BytesTakes DEF SizeExact
<1>4. Loose
  BY <1>1, CellFacts DEF Loose
<1> QED
  BY <1>1, <1>3, <1>4 DEF ExactInv, KeysUnique, Searched

\* The slots and the gc list hold exactly what the cache holds, each entry once and no key
\* twice, and mem_size is the sum of their sizes, between any two steps of any number of
\* processes: apc_cache_wlocked_insert (apc_cache.c:366-413) never links a key twice, and
\* apc_cache_wlocked_remove_entry (:199-223) never loses an entry or its size.
THEOREM ChainsAreExact == ChainsSpec => []ChainsExact
<1>1. ChainsInit => ChainsInv /\ ExactInv
  BY ChainsInvInit, ExactInit
<1>2. ChainsInv /\ ExactInv /\ [ChainsNext]_chainVars => (ChainsInv /\ ExactInv)'
  BY ChainsInvNext, StutterInv, ExactNext DEF ChainsStep
<1>3. ChainsInv /\ ExactInv => ChainsExact
  BY ExactHolds
<1> QED
  BY <1>1, <1>2, <1>3, PTL DEF ChainsSpec

-----------------------------------------------------------------------------
(* What is pinned stays *)

\* An entry that a reader holds is neither freed, nor moved, nor replaced by another in
\* its place.
Stays(a) == ent'[a] # Free /\ ent'[a].key = ent[a].key

\* What a reader holds is on a chain and has a reference.
LEMMA HeldEntry ==
  ASSUME ChainsInv, NEW r \in Reader, NEW a \in held[r]
  PROVE  a \in Addr /\ a \in Listed /\ ent[a] # Free /\ ent[a] \in Entry /\ ~(ent[a].ref <= 0)
<1>1. a \in Listed /\ Lists
  BY DEF ChainsInv, PinsExact
<1>2. a \in Addr /\ ent[a] # Free /\ ent[a] \in Entry
  BY <1>1, ListedEntry DEF Lists
<1> QED
  BY <1>1, <1>2, NobodyHolds DEF ChainsInv

\* A removal leaves an entry in use in its block.
LEMMA RemoveStays ==
  ASSUME ChainsInv, NEW r \in Reader, NEW a \in held[r], NEW e, RemoveEntry(e)
  PROVE  Stays(a)
<1>1. a \in Addr /\ ent[a] # Free /\ ~(ent[a].ref <= 0) /\ ent \in [Addr -> Entry \cup {Free}]
  BY HeldEntry DEF ChainsInv, Lists
<1>2. CASE RemoveUnused(e)
  <2>1. ent[e].ref <= 0 /\ ent' = [ent EXCEPT ![e] = Free]
    BY <1>2 DEF RemoveUnused, FreeEntry
  <2>2. a # e
    BY <1>1, <2>1
  <2> QED
    BY <1>1, <2>1, <2>2 DEF Stays
<1>3. CASE RemoveUsed(e)
  BY <1>1, <1>3 DEF RemoveUsed, Stays
<1> QED
  BY <1>2, <1>3 DEF RemoveEntry

\* Pins and releases leave an entry in its block.
LEMMA CountsStay ==
  ASSUME ChainsInv, NEW r \in Reader, NEW a \in held[r], NEW q, NEW S,
         Pin(q, S) \/ Release(q, S)
  PROVE  Stays(a)
<1>1. a \in Addr /\ ent[a] # Free /\ ent[a] \in Entry
  BY HeldEntry
<1>2. ent[a].ref + 1 \in Int /\ ent[a].ref - 1 \in Int
  BY <1>1 DEF Entry
<1>3. ent'[a] = ent[a] \/ \E n \in Int: ent'[a] = [ent[a] EXCEPT !.ref = n]
  BY <1>1, <1>2 DEF Pin, Release
<1>4. CASE ent'[a] = ent[a]
  BY <1>1, <1>4 DEF Stays
<1>5. ASSUME NEW n \in Int, ent'[a] = [ent[a] EXCEPT !.ref = n] PROVE Stays(a)
  <2>1. ent'[a] \in Entry /\ ent'[a].key = ent[a].key
    BY <1>1, <1>5 DEF Entry
  <2> QED
    BY <2>1, FreeAssumption DEF Stays
<1> QED
  BY <1>3, <1>4, <1>5

\* A step of the chains leaves a held entry what it is.
LEMMA HeldStays ==
  ASSUME ChainsInv, NEW r \in Reader, NEW a \in held[r], ChainsNext
  PROVE  Stays(a)
<1>1. /\ a \in Addr /\ a \in Listed /\ ent[a] # Free /\ ent[a] \in Entry /\ ~(ent[a].ref <= 0)
      /\ ent \in [Addr -> Entry \cup {Free}]
  BY HeldEntry DEF ChainsInv, Lists
<1>2. ent'[a] = ent[a] => Stays(a)
  BY <1>1 DEF Stays
<1>3. chains' = chains => Stays(a)
  BY <1>2 DEF chains
<1>4. ASSUME NEW p \in Writer, BeginStore(p) PROVE Stays(a)
  <2>1. PICK b \in Addr: \E e: ent[b] = Free /\ ent' = [ent EXCEPT ![b] = e]
    BY <1>4 DEF BeginStore
  <2> QED
    BY <1>1, <1>2, <2>1
<1>5. ASSUME NEW p \in Writer, ReleaseNew(p) PROVE Stays(a)
  <2>1. PICK b: b = wr[p].new
    OBVIOUS
  <2>2. ent' = [ent EXCEPT ![b].ref = @ - 1]
    BY <1>5, <2>1 DEF ReleaseNew
  <2>3. CASE a # b
    BY <1>1, <1>2, <2>2, <2>3
  <2>4. CASE a = b
    <3>1. ent'[a] = [ent[a] EXCEPT !.ref = @ - 1]
      BY <1>1, <2>2, <2>4
    <3>2. ent'[a] \in Entry /\ ent'[a].key = ent[a].key
      BY <1>1, <3>1 DEF Entry
    <3> QED
      BY <3>2, FreeAssumption DEF Stays
  <2> QED
    BY <2>3, <2>4
<1>6. ASSUME NEW p \in Writer, DropNew(p) PROVE Stays(a)
  <2>1. PICK b: b = wr[p].new
    OBVIOUS
  <2>2. ent' = [ent EXCEPT ![b] = Free] /\ b \notin Listed
    BY <1>6, <2>1 DEF DropNew, FreeEntry, ChainsInv, Control, Storing
  <2> QED
    BY <1>1, <1>2, <2>2
<1>7. ASSUME NEW p \in Writer, GcFree(p) PROVE Stays(a)
  <2>1. PICK e: ent[e].ref <= 0 /\ ent' = [ent EXCEPT ![e] = Free]
    BY <1>7 DEF GcFree, FreeEntry
  <2> QED
    BY <1>1, <1>2, <2>1
<1>8. ASSUME NEW p \in Writer,
             InsertReplace(p) \/ InsertExpire(p) \/ DeleteFound(p) \/ WipeEntry(p)
      PROVE  Stays(a)
  <2>1. \E e: RemoveEntry(e)
    BY <1>8 DEF InsertReplace, InsertExpire, DeleteFound, WipeEntry
  <2> QED
    BY <2>1, RemoveStays
<1>9. ASSUME NEW p \in Writer, InsertLink(p) PROVE Stays(a)
  BY <1>2, <1>9 DEF InsertLink
<1>10. ASSUME NEW p \in Writer,
              \/ LockStore(p) \/ GcKeep(p) \/ GcEnd(p) \/ InsertRefuse(p) \/ InsertSkip(p)
              \/ InsertEnd(p) \/ DeleteSkip(p) \/ DeleteMissing(p) \/ WipeSlotEnd(p)
              \/ BeginDelete(p) \/ BeginClear(p)
       PROVE  Stays(a)
  BY <1>3, <1>10 DEF LockStore, GcKeep, GcEnd, InsertRefuse, InsertSkip, InsertEnd, DeleteSkip,
                     DeleteMissing, WipeSlotEnd, BeginDelete, LockDelete, BeginClear
<1>11. CASE Defragment
  <2>1. PICK old \in Addr, new \in Addr:
          /\ Movable(ent[old]) /\ ent[new] = Free
          /\ ent' = [ent EXCEPT ![new] = ent[old], ![old] = Free]
    BY <1>11 DEF Defragment
  <2>2. a # old /\ a # new
    BY <1>1, <2>1 DEF Movable
  <2> QED
    BY <1>1, <1>2, <2>1, <2>2
<1>12. CASE Tick
  BY <1>3, <1>12 DEF Tick
<1> QED
  BY <1>4, <1>5, <1>6, <1>7, <1>8, <1>9, <1>10, <1>11, <1>12, CountsStay
  DEF ChainsNext, Begin, Continue
=============================================================================

-------------------------- MODULE ApcPersistProofs --------------------------
(***************************************************************************)
(* Theorems about what ApcPersist stores and fetches, for every value,     *)
(* every address and every serializer: a block leads nowhere but into      *)
(* itself, it is read with the serializer that wrote it, and what is       *)
(* fetched is the value that was stored, with its sharing and its cycles.  *)
(*                                                                         *)
(* The invariant of the passes (ApcCopyProofs) goes on with                *)
(*   Whole     a copy of all of the value, at any address (StoredInv);     *)
(*   Fetched1  request memory has a copy of a part of the block, counted   *)
(*             for its links (FetchInv).                                   *)
(***************************************************************************)
EXTENDS ApcCopyProofs

-----------------------------------------------------------------------------
(* The stored block *)

\* All of the block is inside the len words behind base.
Inside1(s, base, n) == \A a \in DOMAIN s: base <= a /\ a < base + n
\* The block of a value, and of a serialized one.
Whole(m, s, base, at) ==
  Block(m, s, base, at, {}, {}) /\ s[base].len \in Nat /\ Inside1(s, base, s[base].len)
SerialStored(s, base) ==
  \E str: /\ Serialized(s, base, str) /\ s[base].len = EntrySize + StrSize(SerLen)
          /\ str.of = Top /\ (~early => str.by = Format)
StoredInv ==
  phase \in {"stored", "fetch"} =>
    (\E at: Whole(input.mem, shm, alloc, at)) \/ SerialStored(shm, alloc)

\* The size is written into the entry.
LEMMA LengthSet ==
  ASSUME NEW m, IsValue(m), NEW s, NEW base, NEW at, Block(m, s, base, at, {}, {}), NEW n \in Nat, NEW s2,
         s2 = [s EXCEPT ![base].len = n], Inside1(s, base, n)
  PROVE  Whole(m, s2, base, at)
<1>1. Frame(m, s, base, at) /\ Copied(m, s, base, at, {}, {}) /\ Flags(m, s, at, {})
  BY DEF Block
<1>2. /\ Places(m, base, at) /\ Shaped(s) /\ Known(m, s, at) /\ 0 \in DOMAIN at /\ at[0] = base
      /\ \A p \in DOMAIN at: Header(m, s, base, at, p)
  BY <1>1 DEF Frame, Places
<1>3. /\ base \in DOMAIN s /\ m[0].kind = "zval" /\ 0 \in DOMAIN m /\ IsStruct(s[base]) /\ s[base].kind = "entry"
  <2>1. m[0].kind = "zval" /\ 0 \in DOMAIN m
    BY ValueFacts
  <2> QED
    BY <2>1, <1>2 DEF Header, Shaped, KindOf
<1>4. /\ DOMAIN s2 = DOMAIN s /\ s2[base] = [s[base] EXCEPT !.len = n]
      /\ \A a \in DOMAIN s: a # base => s2[a] = s[a]
  BY <1>3
<1>5. /\ s2[base] = [kind |-> s[base].kind, rc |-> s[base].rc, len |-> n, text |-> s[base].text,
                     packed |-> s[base].packed, next |-> s[base].next, pos |-> s[base].pos,
                     static |-> s[base].static, data |-> s[base].data, els |-> s[base].els]
  BY <1>3, <1>4 DEF IsStruct
<1>6. IsStruct(s2[base]) /\ s2[base].len = n /\ s2[base].kind = s[base].kind /\ s2[base].els = s[base].els
      /\ s2[base].pos = s[base].pos /\ s2[base].next = s[base].next /\ s2[base].data = s[base].data
      /\ s2[base].text = s[base].text
  BY <1>5 DEF IsStruct
<1>7. s2[base].static = s[base].static
  BY <1>5
<1>8. s2[base].packed = s[base].packed
  BY <1>5
<1> HIDE <1>5
<1>9. \A a \in DOMAIN s: /\ IsStruct(s2[a]) /\ s2[a].kind = s[a].kind /\ s2[a].els = s[a].els
                         /\ s2[a].text = s[a].text /\ s2[a].data = s[a].data /\ s2[a].pos = s[a].pos
                         /\ s2[a].next = s[a].next
                         /\ a # base => s2[a].len = s[a].len
  BY <1>2, <1>4, <1>6 DEF Shaped
<1>10. \A a \in DOMAIN s: s2[a].static = s[a].static /\ s2[a].packed = s[a].packed
  <2>1. \A a \in DOMAIN s: s2[a].static = s[a].static
    BY <1>4, <1>7
  <2>2. \A a \in DOMAIN s: s2[a].packed = s[a].packed
    BY <1>4, <1>8
  <2> QED
    BY <2>1, <2>2
<1>11. Shaped(s2)
  BY <1>2, <1>4, <1>9, <1>10 DEF Shaped
<1>12. Known(m, s2, at)
  BY <1>2, <1>4, <1>9 DEF Known
<1>13. ASSUME NEW p \in DOMAIN at
       PROVE  Header(m, s2, base, at, p)
  <2>1. /\ Header(m, s, base, at, p) /\ at[p] \in DOMAIN s /\ Body(m, at, p) \in DOMAIN s
        /\ m[p].kind = "str" => at[p] # base
    <3>1. Header(m, s, base, at, p)
      BY <1>2
    <3>2. m[p].kind = "str" => p # 0
      BY <1>3
    <3> QED
      BY <3>1, <3>2, <1>2 DEF Places, Header
  <2> QED
    BY <2>1, <1>4, <1>9, <1>10 DEF Header
<1>14. Copied(m, s2, base, at, {}, {})
  <2>1. ASSUME NEW x \in Slots(m, DOMAIN at)
        PROVE  Cell(m, s2, at, x) = Cell(m, s, at, x)
    BY <1>1, <1>9, CellFacts DEF Cell
  <2>2. \A key, off: KeyCopied(s, base, key, off) => KeyCopied(s2, base, key, off)
    BY <1>4, <1>9 DEF KeyCopied
  <2> QED
    BY <1>1, <2>1, <2>2 DEF Copied
<1>15. Flags(m, s2, at, {})
  <2>1. ASSUME NEW p \in DOMAIN at, m[p].kind = "arr"
        PROVE  FlagsRight(m, p, s2[at[p]], Finished(m, p, {}))
    <3>1. at[p] \in DOMAIN s
      BY <1>2 DEF Header
    <3>2. FlagsRight(m, p, s[at[p]], Finished(m, p, {}))
      BY <1>1, <2>1 DEF Flags
    <3> DEFINE E == Finished(m, p, {})
               x == s[at[p]]
               y == s2[at[p]]
    <3>3. y.pos = x.pos /\ y.next = x.next
      BY <1>9, <3>1
    <3>4. y.static = x.static
      BY <1>10, <3>1
    <3> HIDE DEF x, y, E
    <3>5. FlagsRight(m, p, x, E)
      BY <3>2 DEF x, E
    <3>6. FlagsRight(m, p, y, E)
      BY <3>3, <3>4, <3>5 DEF FlagsRight
    <3> QED
      BY <3>6 DEF y, E
  <2> QED
    BY <2>1 DEF Flags
<1>16. Block(m, s2, base, at, {}, {})
  BY <1>2, <1>11, <1>12, <1>13, <1>14, <1>15 DEF Block, Frame
<1>17. Inside1(s2, base, s2[base].len) /\ s2[base].len \in Nat
  BY <1>4, <1>6 DEF Inside1
<1> QED
  BY <1>16, <1>17 DEF Whole

\* And into the entry of a serialized value.
LengthIn(s, s2, base, n) == s2 = [s EXCEPT ![base].len = n]

\* The length is written into the entry of a serialized value.
LEMMA SerialLengthSet ==
  ASSUME NEW s, NEW base, NEW str, Serialized(s, base, str), NEW n, NEW s2, LengthIn(s, s2, base, n),
         base \in Nat
  PROVE  Serialized(s2, base, str) /\ s2[base].len = n
<1>1. /\ DOMAIN s2 = DOMAIN s /\ s2[base] = [s[base] EXCEPT !.len = n] /\ IsStruct(s[base])
      /\ \A a \in DOMAIN s: a # base => s2[a] = s[a]
  BY DEF Serialized, LengthIn
<1>2. /\ s2[base] = [kind |-> s[base].kind, rc |-> s[base].rc, len |-> n, text |-> s[base].text,
                     packed |-> s[base].packed, next |-> s[base].next, pos |-> s[base].pos,
                     static |-> s[base].static, data |-> s[base].data, els |-> s[base].els]
  BY <1>1 DEF IsStruct
<1>3. /\ IsStruct(s2[base]) /\ s2[base].len = n /\ s2[base].kind = s[base].kind
      /\ s2[base].els = s[base].els
  BY <1>2 DEF IsStruct
<1>4. base + EntrySize # base
  BY SizeAssumption
<1> HIDE <1>2
<1> QED
  BY <1>1, <1>3, <1>4 DEF Serialized

\* The words of the block at another address.
Moved(s, base, s2, base2) ==
  s2 = [a \in {b + base2 - base: b \in DOMAIN s} |-> s[a - base2 + base]]
\* The same with their distance d.
Shifted(s, s2, d) ==
  /\ \A a \in DOMAIN s: a + d \in DOMAIN s2 /\ s2[a + d] = s[a] /\ a + d \in Nat
  /\ \A c \in DOMAIN s2: c \in Nat /\ c - d \in DOMAIN s /\ s2[c] = s[c - d]

\* A move shifts each word by the same distance.
LEMMA MovedShifts ==
  ASSUME NEW s, NEW base \in Nat, NEW s2, NEW base2 \in Nat, Moved(s, base, s2, base2),
         DOMAIN s \subseteq Nat, \A a \in DOMAIN s: base <= a
  PROVE  Shifted(s, s2, base2 - base)
<1> DEFINE d == base2 - base
<1>1. d \in Int /\ \A a \in DOMAIN s: a + d \in Nat /\ a + base2 - base = a + d
  OBVIOUS
<1>2. DOMAIN s2 = {a + d: a \in DOMAIN s}
  BY <1>1 DEF Moved
<1>3. ASSUME NEW c \in DOMAIN s2
      PROVE  c \in Nat /\ c - d \in DOMAIN s /\ s2[c] = s[c - d]
  <2>1. PICK a \in DOMAIN s: c = a + d
    BY <1>2
  <2>2. c \in Nat /\ c - d = a /\ c - base2 + base = a
    BY <1>1, <2>1
  <2>3. s2[c] = s[c - base2 + base]
    BY <1>3 DEF Moved
  <2> QED
    BY <2>2, <2>3
<1>4. ASSUME NEW a \in DOMAIN s
      PROVE  a + d \in DOMAIN s2 /\ s2[a + d] = s[a] /\ a + d \in Nat
  <2>1. a + d \in DOMAIN s2
    BY <1>2
  <2>2. a + d - d = a
    BY <1>1
  <2> QED
    BY <1>1, <1>3, <2>1, <2>2
<1> QED
  BY <1>3, <1>4 DEF Shifted

\* The copies are where they were, as seen from the entry.
LEMMA MovedPlaces ==
  ASSUME NEW m, IsValue(m), NEW s, NEW base, NEW at, Frame(m, s, base, at), NEW d \in Int, NEW s2,
         Shifted(s, s2, d), NEW at2, at2 = [p \in DOMAIN at |-> at[p] + d]
  PROVE  /\ base \in Nat /\ base + d \in Nat /\ DOMAIN at2 = DOMAIN at /\ 0 \in DOMAIN at /\ at[0] = base
         /\ at2[0] = base + d
         /\ \A p \in DOMAIN at: /\ at2[p] = at[p] + d /\ at2[p] \in Nat /\ at[p] \in Nat
                                /\ Body(m, at2, p) = Body(m, at, p) + d
                                /\ s2[at2[p]] = s[at[p]] /\ s2[Body(m, at2, p)] = s[Body(m, at, p)]
                                /\ at2[p] \in DOMAIN s2 /\ Body(m, at2, p) \in DOMAIN s2
                                /\ m[p].kind = "arr" => at2[p] + HtSize \in DOMAIN s2
                                /\ s2[at2[p] + HtSize] = s[at[p] + HtSize] \/ m[p].kind # "arr"
<1>1. base \in Nat /\ 0 \in DOMAIN at /\ at[0] = base
  BY DEF Frame, Places
<1>2. ASSUME NEW p \in DOMAIN at
      PROVE  /\ at2[p] = at[p] + d /\ at[p] \in Nat /\ at[p] \in DOMAIN s
             /\ Body(m, at, p) \in DOMAIN s /\ Body(m, at2, p) = Body(m, at, p) + d
  <2>1. at2[p] = at[p] + d /\ at[p] \in Nat /\ at[p] \in DOMAIN s /\ Body(m, at, p) \in DOMAIN s
    BY Places1
  <2>2. Body(m, at2, p) = Body(m, at, p) + d
    BY <2>1, SizeNumbers DEF Body
  <2> QED
    BY <2>1, <2>2
<1>3. ASSUME NEW p \in DOMAIN at
      PROVE  /\ at2[p] \in Nat /\ s2[at2[p]] = s[at[p]] /\ s2[Body(m, at2, p)] = s[Body(m, at, p)]
             /\ at2[p] \in DOMAIN s2 /\ Body(m, at2, p) \in DOMAIN s2
             /\ m[p].kind = "arr" => at2[p] + HtSize \in DOMAIN s2
             /\ s2[at2[p] + HtSize] = s[at[p] + HtSize] \/ m[p].kind # "arr"
  BY <1>2 DEF Shifted, Body
<1>4. base + d \in Nat /\ at2[0] = base + d
  BY <1>1, <1>2, <1>3
<1> QED
  BY <1>1, <1>2, <1>3, <1>4

\* A whole block is one wherever it is moved.
LEMMA WholeMoved ==
  ASSUME NEW m, IsValue(m), NEW s, NEW base, NEW at, Whole(m, s, base, at), NEW s2, NEW base2 \in Nat,
         Moved(s, base, s2, base2)
  PROVE  \E at2: Whole(m, s2, base2, at2)
<1> DEFINE d == base2 - base
           at2 == [p \in DOMAIN at |-> at[p] + d]
<1>1. /\ Frame(m, s, base, at) /\ Copied(m, s, base, at, {}, {}) /\ Flags(m, s, at, {})
      /\ s[base].len \in Nat /\ \A a \in DOMAIN s: base <= a /\ a < base + s[base].len
  BY DEF Whole, Block, Inside1
<1>2. Places(m, base, at) /\ Shaped(s) /\ Known(m, s, at) /\ base \in Nat /\ DOMAIN s \subseteq Nat
  BY <1>1 DEF Frame, Places, Shaped
<1>3. d \in Int /\ base + d = base2 /\ Shifted(s, s2, d)
  BY <1>1, <1>2, MovedShifts
<1>4. at2 = [p \in DOMAIN at |-> at[p] + d]
  OBVIOUS
<1> HIDE DEF d, at2
<1>5. /\ DOMAIN at2 = DOMAIN at /\ 0 \in DOMAIN at /\ at[0] = base /\ at2[0] = base + d
      /\ \A p \in DOMAIN at: /\ at2[p] = at[p] + d /\ at2[p] \in Nat /\ at[p] \in Nat
                             /\ Body(m, at2, p) = Body(m, at, p) + d
                             /\ s2[at2[p]] = s[at[p]] /\ s2[Body(m, at2, p)] = s[Body(m, at, p)]
                             /\ at2[p] \in DOMAIN s2 /\ Body(m, at2, p) \in DOMAIN s2
                             /\ m[p].kind = "arr" => at2[p] + HtSize \in DOMAIN s2
                             /\ s2[at2[p] + HtSize] = s[at[p] + HtSize] \/ m[p].kind # "arr"
  BY <1>1, <1>3, <1>4, MovedPlaces
<1>6. Places(m, base2, at2)
  <2>1. \A p, q \in DOMAIN at: at2[p] = at2[q] => p = q
    <3>1. SUFFICES ASSUME NEW p \in DOMAIN at, NEW q \in DOMAIN at, at2[p] = at2[q]
                   PROVE  p = q
      OBVIOUS
    <3>2. at[p] = at[q]
      BY <1>3, <1>5, <3>1
    <3> QED
      BY <3>2, <1>2 DEF Places
  <2> QED
    BY <2>1, <1>2, <1>3, <1>5 DEF Places
<1>7. Shaped(s2)
  BY <1>2, <1>3 DEF Shaped, Shifted
<1>8. Known(m, s2, at2)
  <2> SUFFICES ASSUME NEW c \in DOMAIN s2
               PROVE  s2[c].kind = "str" \/ \E p \in DOMAIN at2: c \in {at2[p], Body(m, at2, p)}
    BY DEF Known
  <2>1. c \in Nat /\ c - d \in DOMAIN s /\ s2[c] = s[c - d]
    BY <1>3 DEF Shifted
  <2>2. CASE s[c - d].kind = "str"
    BY <2>1, <2>2
  <2>3. CASE \E p \in DOMAIN at: c - d \in {at[p], Body(m, at, p)}
    <3>1. PICK p \in DOMAIN at: c - d \in {at[p], Body(m, at, p)}
      BY <2>3
    <3>2. c = at[p] + d \/ c = Body(m, at, p) + d
      BY <2>1, <3>1, <1>3
    <3> QED
      BY <3>1, <3>2, <1>5
  <2> QED
    BY <2>1, <2>2, <2>3, <1>2 DEF Known
<1>9. ASSUME NEW p \in DOMAIN at
      PROVE  Header(m, s2, base2, at2, p)
  <2>1. Header(m, s, base, at, p)
    BY <1>1 DEF Frame
  <2>2. at[p] + HtSize - base = at2[p] + HtSize - base2
    BY <1>2, <1>3, <1>5, SizeNumbers
  <2> QED
    BY <2>1, <2>2, <1>5 DEF Header
<1>10. Frame(m, s2, base2, at2)
  BY <1>5, <1>6, <1>7, <1>8, <1>9 DEF Frame
<1>11. Copied(m, s2, base2, at2, {}, {})
  <2>1. \A x \in Slots(m, DOMAIN at): Cell(m, s2, at2, x) = Cell(m, s, at, x)
    BY <1>1, <1>5, CellFacts DEF Cell
  <2>2. ASSUME NEW key, NEW off, KeyCopied(s, base, key, off)
        PROVE  KeyCopied(s2, base2, key, off)
    <3>1. CASE key = None
      BY <2>2, <3>1 DEF KeyCopied
    <3>2. CASE key # None
      <4>1. off \in Nat /\ base + off \in DOMAIN s /\ s[base + off].kind = "str" /\ s[base + off].text = key
        BY <2>2, <3>2 DEF KeyCopied
      <4>2. base2 + off = base + off + d
        BY <4>1, <1>2, <1>3
      <4>3. base2 + off \in DOMAIN s2 /\ s2[base2 + off] = s[base + off]
        BY <4>1, <4>2, <1>3 DEF Shifted
      <4> QED
        BY <4>1, <4>3, <3>2 DEF KeyCopied
    <3> QED
      BY <3>1, <3>2
  <2>3. ASSUME NEW y, NEW z, ValCopied(m, base, at, y, z)
        PROVE  ValCopied(m, base2, at2, y, z)
    <3>1. \A p \in DOMAIN at: at[p] - base = at2[p] - base2
      BY <1>2, <1>3, <1>5
    <3> QED
      BY <2>3, <3>1, <1>5 DEF ValCopied
  <2> QED
    BY <1>1, <1>5, <2>1, <2>2, <2>3 DEF Copied
<1>12. Flags(m, s2, at2, {})
  BY <1>1, <1>5 DEF Flags
<1>13. Inside1(s2, base2, s2[base2].len) /\ s2[base2].len \in Nat
  <2>1. s2[base2] = s[base]
    BY <1>3, <1>5
  <2> SUFFICES ASSUME NEW c \in DOMAIN s2
               PROVE  base2 <= c /\ c < base2 + s[base].len
    BY <2>1, <1>1 DEF Inside1
  <2>2. c \in Nat /\ c - d \in DOMAIN s
    BY <1>3 DEF Shifted
  <2>3. base <= c - d /\ c - d < base + s[base].len
    BY <1>1, <2>2
  <2>4. base2 <= c
    BY <2>2, <2>3, <1>2, <1>3
  <2> DEFINE n == s[base].len
  <2>5. n \in Nat
    BY <1>1
  <2> HIDE DEF n
  <2>6. c - d < base + n
    BY <2>3 DEF n
  <2>7. c < base2 + n
    BY <2>2, <2>5, <1>2, <1>3, <2>6
  <2> QED
    BY <2>4, <2>7 DEF n
<1> QED
  BY <1>10, <1>11, <1>12, <1>13 DEF Whole, Block

\* A serialized value's block at another address.
LEMMA SerializedMoved ==
  ASSUME NEW s, NEW base \in Nat, NEW str, Serialized(s, base, str), NEW s2, NEW base2 \in Nat,
         Moved(s, base, s2, base2)
  PROVE  Serialized(s2, base2, str) /\ s2[base2] = s[base]
<1>1. DOMAIN s = {base, base + EntrySize} /\ EntrySize \in Nat /\ EntrySize > 0
  BY SizeAssumption DEF Serialized
<1>2. Shifted(s, s2, base2 - base)
  <2>1. DOMAIN s \subseteq Nat /\ \A a \in DOMAIN s: base <= a
    BY <1>1
  <2> QED
    BY <2>1, MovedShifts
<1>3. /\ s2[base2] = s[base] /\ s2[base2 + EntrySize] = s[base + EntrySize]
      /\ base2 \in DOMAIN s2 /\ base2 + EntrySize \in DOMAIN s2
  <2>1. base + (base2 - base) = base2 /\ base + EntrySize + (base2 - base) = base2 + EntrySize
    BY <1>1
  <2>2. \A a \in DOMAIN s: a + (base2 - base) \in DOMAIN s2 /\ s2[a + (base2 - base)] = s[a]
    BY <1>2 DEF Shifted
  <2>3. base + (base2 - base) \in DOMAIN s2 /\ s2[base + (base2 - base)] = s[base]
    BY <1>1, <2>2
  <2>4. /\ base + EntrySize + (base2 - base) \in DOMAIN s2
        /\ s2[base + EntrySize + (base2 - base)] = s[base + EntrySize]
    BY <1>1, <2>2
  <2> QED
    BY <2>1, <2>3, <2>4
<1>4. DOMAIN s2 \subseteq {base2, base2 + EntrySize}
  <2> SUFFICES ASSUME NEW c \in DOMAIN s2
               PROVE  c \in {base2, base2 + EntrySize}
    OBVIOUS
  <2>1. c \in Nat /\ c - (base2 - base) \in DOMAIN s
    BY <1>2 DEF Shifted
  <2>2. c - (base2 - base) = base \/ c - (base2 - base) = base + EntrySize
    BY <1>1, <2>1
  <2> QED
    BY <2>1, <2>2, <1>1
<1> QED
  BY <1>3, <1>4 DEF Serialized

\* At the end of the copy the block is whole.
LEMMA PersistEndStored ==
  ASSUME CopyingInv, PersistEnd
  PROVE  StoredInv'
<1>1. /\ phase = "copy" /\ todo = << >> /\ shm' = [shm EXCEPT ![alloc].len = ctx.size]
      /\ phase' = "stored" /\ alloc' = alloc /\ UNCHANGED setup
  BY DEF PersistEnd
<1>2. IsValue(input.mem) /\ alloc \in Nat
  BY <1>1, InputIsValue, BaseAssumption DEF CopyingInv, StartInv, SetupInv, InBlock
<1>3. CASE ctx.ser
  <2>1. /\ ctx.size = EntrySize + StrSize(SerLen) /\ ctx.str = [by |-> Format, of |-> Top]
    BY <1>1, <1>3 DEF CopyingInv, SerialInv
  <2>2. Serialized(shm, alloc, ctx.str)
    <3>1. todo # <<<<alloc, 1>>>>
      BY <1>1
    <3> QED
      BY <3>1, <1>1, <1>3 DEF CopyingInv, SerialInv
  <2>3. Serialized(shm', alloc', ctx.str) /\ shm'[alloc'].len = EntrySize + StrSize(SerLen)
    <3>1. Serialized(shm', alloc, ctx.str) /\ shm'[alloc].len = ctx.size
      <4> DEFINE s2 == shm'
                 n == ctx.size
                 str == ctx.str
      <4>1. Serialized(shm, alloc, str) /\ LengthIn(shm, s2, alloc, n) /\ alloc \in Nat
        BY <1>1, <1>2, <2>2 DEF LengthIn
      <4> HIDE DEF s2, n, str
      <4>2. Serialized(s2, alloc, str) /\ s2[alloc].len = n
        BY <4>1, SerialLengthSet
      <4> QED
        BY <4>2 DEF s2, n, str
    <3> QED
      BY <3>1, <1>1, <2>1
  <2>4. Top' = Top /\ Format' = Format /\ early' = early
    BY <1>1 DEF Top, Format, setup
  <2>5. ctx.str.of = Top' /\ ctx.str.by = Format'
    BY <2>1, <2>4
  <2>6. SerialStored(shm, alloc)'
    BY <2>3, <2>5 DEF SerialStored
  <2> QED
    BY <2>6 DEF StoredInv
<1>4. CASE ~ctx.ser
  <2> DEFINE m == input.mem
             at == At(alloc, ctx.done)
  <2>1. Goal(m, ctx.counted, ctx.size, ctx.done, ctx.memo)
    BY <1>1, <1>4 DEF CopyingInv, CopyInv
  <2>2. PICK raw, rk: Half(m, alloc, shm, ctx.done, ctx.cur, raw, rk) /\ Lists(m, at, todo, raw)
    BY <1>1, <1>4 DEF CopyingInv, CopyInv
  <2> HIDE DEF m, at
  <2>3. raw = {}
    <3>1. Lists(m, at, << >>, raw)
      BY <1>1, <2>2
    <3> QED
      BY <3>1, NothingListed
  <2>4. IsValue(m)
    BY <1>2 DEF m
  <2>5. rk = {}
    BY <2>2, <2>3 DEF Half
  <2>6. ctx.cur = alloc + ctx.size /\ ctx.size \in Nat
    BY <2>1, <2>2, <2>3, <2>4, CopyEnds
  <2>7. Block(m, shm, alloc, at, {}, {}) /\ Inside1(shm, alloc, ctx.size)
    BY <2>2, <2>3, <2>5, <2>6 DEF Half, Inside1, at
  <2>8. Whole(m, shm', alloc, at)
    BY <1>1, <2>4, <2>6, <2>7, LengthSet
  <2>9. m = input.mem'
    BY <1>1 DEF m, setup
  <2>10. \E a: Whole(input.mem, shm, alloc, a)'
    BY <2>8, <2>9, <1>1
  <2> QED
    BY <2>10 DEF StoredInv
<1> QED
  BY <1>3, <1>4

\* It stays so when it is moved, or mapped elsewhere.
LEMMA RelocateStored ==
  ASSUME StartInv, StoredInv, Relocate
  PROVE  StoredInv'
<1>1. PICK base \in Bases:
        /\ phase = "stored" /\ alloc' = base /\ Moved(shm, alloc, shm', base) /\ UNCHANGED setup
  BY DEF Relocate, Moved
<1>2. IsValue(input.mem) /\ alloc \in Nat /\ base \in Nat
  BY <1>1, InputIsValue, BaseAssumption DEF StartInv, SetupInv, InBlock
<1>3. Top' = Top /\ Format' = Format /\ early' = early /\ input' = input
  BY <1>1 DEF Top, Format, setup
<1>4. CASE \E at: Whole(input.mem, shm, alloc, at)
  <2>1. PICK at: Whole(input.mem, shm, alloc, at)
    BY <1>4
  <2>2. \E at2: Whole(input.mem, shm', base, at2)
    BY <1>1, <1>2, <2>1, WholeMoved
  <2>3. \E a: Whole(input.mem, shm, alloc, a)'
    BY <2>2, <1>1, <1>3
  <2> QED
    BY <2>3 DEF StoredInv
<1>5. CASE SerialStored(shm, alloc)
  <2>1. PICK str: /\ Serialized(shm, alloc, str) /\ shm[alloc].len = EntrySize + StrSize(SerLen)
                  /\ str.of = Top /\ (~early => str.by = Format)
    BY <1>5 DEF SerialStored
  <2>2. Serialized(shm', base, str) /\ shm'[base] = shm[alloc]
    BY <1>1, <1>2, <2>1, SerializedMoved
  <2>3. SerialStored(shm, alloc)'
    BY <2>1, <2>2, <1>1, <1>3 DEF SerialStored
  <2> QED
    BY <2>3 DEF StoredInv
<1> QED
  BY <1>1, <1>4, <1>5 DEF StoredInv

\* Nothing else touches the block, and its serializer stays the one that wrote it.
LEMMA StoredNext ==
  ASSUME CopyingInv, StoredInv, [Next]_vars
  PROVE  StoredInv'
<1> SUFFICES ASSUME phase' \in {"stored", "fetch"}
             PROVE  StoredInv'
  BY DEF StoredInv
<1>1. StartInv
  BY DEF CopyingInv
<1>2. CASE PersistEnd
  BY <1>2, PersistEndStored
<1>3. CASE Relocate
  BY <1>1, <1>3, RelocateStored
<1>4. ASSUME phase \in {"stored", "fetch"}, UNCHANGED <<input, alloc, shm, early>>,
             ~early => serializer' = serializer
      PROVE  StoredInv'
  <2>1. Top' = Top /\ (~early => Format' = Format) /\ early' = early
    BY <1>4 DEF Top, Format
  <2>2. SerialStored(shm, alloc) => SerialStored(shm, alloc)'
    BY <1>4, <2>1 DEF SerialStored
  <2>3. (\E at: Whole(input.mem, shm, alloc, at)) => (\E at: Whole(input.mem, shm, alloc, at))'
    BY <1>4
  <2> QED
    BY <1>4, <2>2, <2>3 DEF StoredInv
<1>5. CASE RegisterExternal
  BY <1>4, <1>5 DEF RegisterExternal
<1>6. CASE Rinit
  <2>1. early /\ phase \in {"stored", "fetch"}
    BY <1>1, <1>6 DEF Rinit, StartInv, SetupInv
  <2> QED
    BY <1>4, <1>6, <2>1 DEF Rinit
<1>7. CASE FetchStart \/ FetchSerialized
  BY <1>4, <1>7 DEF FetchStart, FetchSerialized, setup
<1>8. CASE Fetch
  <2>1. Fetching /\ UNCHANGED <<setup, alloc, shm>>
    BY <1>1, <1>8, FetchQuietSteps
  <2> QED
    BY <1>4, <2>1 DEF Fetching, setup
<1>9. CASE Continue
  BY <1>4, <1>9 DEF Continue, setup
<1>10. CASE UNCHANGED vars
  BY <1>4, <1>10 DEF vars
<1>11. CASE Copy
  BY <1>1, <1>11, CopyQuietSteps
<1>12. CASE Calc
  BY <1>1, <1>12, CalcDone
<1>13. CASE Minit \/ PersistCalc \/ PersistRetry \/ PersistAlloc \/ PersistNoMemory
  BY <1>13 DEF Minit, PersistCalc, PersistRetry, PersistAlloc, PersistNoMemory
<1> QED
  BY <1>2, <1>3, <1>5, <1>6, <1>7, <1>8, <1>9, <1>10, <1>11, <1>12, <1>13 DEF Next

\* The invariant of a stored value: the block is a whole copy of the value, or has its serialized
\* string, in every process that maps it and after every defragmentation (apc_persist, apc_sma.c:513).
THEOREM StoredHolds == Spec => [](CopyingInv /\ StoredInv)
<1>1. Init => CopyingInv /\ StoredInv
  BY CopyingInit DEF Init, StoredInv
<1>2. CopyingInv /\ StoredInv /\ [Next]_vars => (CopyingInv /\ StoredInv)'
  BY CopyingNext, StoredNext
<1> QED
  BY <1>1, <1>2, PTL DEF Spec

\* What a whole block's zvals lead to.
LEMMA WholeLeads ==
  ASSUME NEW m, IsValue(m), NEW at, Whole(m, shm, alloc, at), NEW a \in DOMAIN shm
  PROVE  /\ shm[a].kind = "arr" => LeadsTo(shm[a].data, "data")
         /\ \A i \in Elements(shm[a].els):
              LET e == shm[a].els[i] IN
              /\ e.key # None => LeadsTo(e.key, "str")
              /\ Flat(e.val) \/ LeadsTo(e.val.p, IF e.val.type = "ptr" THEN "str" ELSE e.val.type)
                             \/ (e.val.type = "arr" /\ e.val.p = 0)
<1> DEFINE n == shm[alloc].len
<1>1. /\ Frame(m, shm, alloc, at) /\ Copied(m, shm, alloc, at, {}, {})
      /\ n \in Nat /\ \A b \in DOMAIN shm: alloc <= b /\ b < alloc + n
  BY DEF Whole, Block, Inside1
<1>2. Places(m, alloc, at) /\ Shaped(shm) /\ Known(m, shm, at) /\ alloc \in Nat /\ DOMAIN shm \subseteq Nat
  BY <1>1 DEF Frame, Places, Shaped
<1> HIDE DEF n
<1>3. ASSUME NEW b \in DOMAIN shm
      PROVE  LeadsTo(b - alloc, shm[b].kind)
  <2>1. b \in Nat /\ alloc <= b /\ b < alloc + n
    BY <1>1, <1>2
  <2>2. b - alloc \in 0..(n - 1) /\ alloc + (b - alloc) = b
    BY <2>1, <1>1, <1>2
  <2> QED
    BY <2>2 DEF LeadsTo, ToPtr, n
<1>4. ASSUME shm[a].kind = "arr"
      PROVE  LeadsTo(shm[a].data, "data")
  <2>1. PICK p \in DOMAIN at: a \in {at[p], Body(m, at, p)}
    BY <1>2, <1>4 DEF Known
  <2>2. /\ p \in DOMAIN m /\ Header(m, shm, alloc, at, p)
        /\ shm[Body(m, at, p)].kind = IF m[p].kind = "arr" THEN "data" ELSE KindOf(m, p)
    BY <1>1, Places1 DEF Frame
  <2>3. m[p].kind = "arr" /\ a = at[p]
    BY <2>1, <2>2, <1>4 DEF Header, KindOf, Body
  <2>4. /\ shm[a].data = at[p] + HtSize - alloc /\ at[p] + HtSize \in DOMAIN shm
        /\ shm[at[p] + HtSize].kind = "data"
    BY <2>2, <2>3 DEF Header
  <2> DEFINE b == at[p] + HtSize
  <2>5. b \in DOMAIN shm /\ shm[b].kind = "data" /\ shm[a].data = b - alloc
    <3>1. at[p] \in Nat /\ HtSize \in Nat
      BY <1>1, Places1, SizeNumbers
    <3> QED
      BY <2>4, <3>1, <1>2
  <2> HIDE DEF b
  <2>6. LeadsTo(b - alloc, shm[b].kind)
    BY <2>5, <1>3
  <2> QED
    BY <2>5, <2>6
<1>5. ASSUME NEW i \in Elements(shm[a].els)
      PROVE  LET e == shm[a].els[i] IN
             /\ e.key # None => LeadsTo(e.key, "str")
             /\ Flat(e.val) \/ LeadsTo(e.val.p, IF e.val.type = "ptr" THEN "str" ELSE e.val.type)
                            \/ (e.val.type = "arr" /\ e.val.p = 0)
  <2>1. i \in DOMAIN shm[a].els /\ shm[a].els[i].val.type # "undef"
    BY DEF Elements
  <2>2. PICK p \in DOMAIN at: a \in {at[p], Body(m, at, p)}
    BY <1>2, <2>1 DEF Known, Shaped
  <2>3. p \in DOMAIN m /\ Header(m, shm, alloc, at, p) /\ DOMAIN at \subseteq DOMAIN m
    BY <1>1, <1>2, Places1 DEF Frame, Places
  <2>4. a = Body(m, at, p) /\ i \in DOMAIN m[p].els
    BY <2>1, <2>2, <2>3 DEF Header, Body
  <2> DEFINE x == <<p, i>>
             y == m[p].els[i]
             e == shm[a].els[i]
  <2>5. x \in Slots(m, DOMAIN at) /\ x[1] = p /\ x[2] = i /\ Cell(m, shm, at, x) = e
    BY <2>3, <2>4, SlotIn DEF Cell
  <2>6. /\ ValCopied(m, alloc, at, y.val, e.val)
        /\ y.val.type # "undef" => KeyCopied(shm, alloc, y.key, e.key)
    BY <1>1, <2>5 DEF Copied
  <2>7. /\ ~Flat(y.val) => y.val.type = "indirect" \/ (y.val.p \in DOMAIN m \ {0} /\ m[y.val.p].kind = y.val.type)
    BY <2>3, <2>4, SlotFacts
  <2>8. e.val.type = y.val.type
    BY <2>6 DEF ValCopied
  <2>9. KeyCopied(shm, alloc, y.key, e.key)
    BY <2>1, <2>6, <2>8
  <2> HIDE DEF e, y
  <2>10. e.key # None => LeadsTo(e.key, "str")
    <3> SUFFICES ASSUME e.key # None
                 PROVE  LeadsTo(e.key, "str")
      OBVIOUS
    <3>1. e.key \in Nat /\ alloc + e.key \in DOMAIN shm /\ shm[alloc + e.key].kind = "str"
      BY <2>9 DEF KeyCopied
    <3> DEFINE b == alloc + e.key
    <3>2. b \in DOMAIN shm /\ shm[b].kind = "str" /\ b - alloc = e.key
      BY <3>1, <1>2
    <3> HIDE DEF b
    <3>3. LeadsTo(b - alloc, shm[b].kind)
      BY <3>2, <1>3
    <3> QED
      BY <3>2, <3>3
  <2>11. Flat(e.val) \/ LeadsTo(e.val.p, IF e.val.type = "ptr" THEN "str" ELSE e.val.type)
                     \/ (e.val.type = "arr" /\ e.val.p = 0)
    <3>1. CASE Flat(y.val)
      BY <2>8, <3>1 DEF Flat
    <3>2. CASE ~Flat(y.val) /\ IsEmpty(m[y.val.p])
      <4>1. e.val.p = 0 /\ y.val.type \in Storable
        BY <2>6, <3>2 DEF ValCopied
      <4>2. y.val.type = "arr"
        BY <2>7, <3>2, <4>1 DEF Storable, IsEmpty
      <4> QED
        BY <2>8, <4>1, <4>2
    <3>3. CASE ~Flat(y.val) /\ ~IsEmpty(m[y.val.p])
      <4>1. /\ y.val.type \in Storable /\ y.val.p \in DOMAIN at \ {0} /\ e.val.p = at[y.val.p] - alloc
        BY <2>6, <3>3 DEF ValCopied
      <4>2. m[y.val.p].kind = y.val.type /\ y.val.type # "ptr"
        BY <2>7, <3>3, <4>1 DEF Storable
      <4>3. at[y.val.p] \in DOMAIN shm /\ shm[at[y.val.p]].kind = y.val.type
        BY <1>1, <4>1, <4>2 DEF Frame, Header, KindOf
      <4>4. LeadsTo(e.val.p, y.val.type)
        BY <4>1, <4>3, <1>3
      <4> QED
        BY <2>8, <4>2, <4>4
    <3> QED
      BY <3>1, <3>2, <3>3
  <2> QED
    BY <2>10, <2>11 DEF e
<1> QED
  BY <1>4, <1>5

\* What a serialized value's block leads to.
LEMMA SerializedLeads ==
  ASSUME SerialStored(shm, alloc), alloc \in Nat, NEW a \in DOMAIN shm
  PROVE  /\ shm[a].kind = "arr" => LeadsTo(shm[a].data, "data")
         /\ \A i \in Elements(shm[a].els):
              LET e == shm[a].els[i] IN
              /\ e.key # None => LeadsTo(e.key, "str")
              /\ Flat(e.val) \/ LeadsTo(e.val.p, IF e.val.type = "ptr" THEN "str" ELSE e.val.type)
                             \/ (e.val.type = "arr" /\ e.val.p = 0)
<1>1. PICK str: Serialized(shm, alloc, str) /\ shm[alloc].len = EntrySize + StrSize(SerLen)
  BY DEF SerialStored
<1>2. StrSize(SerLen) \in Nat /\ StrSize(SerLen) > 0
  BY SizeNumbers
<1>3. LeadsTo(EntrySize, "str")
  <2> DEFINE n == shm[alloc].len
             w == StrSize(SerLen)
  <2>1. n = EntrySize + w /\ w \in Nat /\ w > 0
    BY <1>1, <1>2
  <2>2. alloc + EntrySize \in DOMAIN shm /\ shm[alloc + EntrySize].kind = "str"
    BY <1>1 DEF Serialized
  <2> HIDE DEF n, w
  <2>3. EntrySize \in 0..(n - 1)
    BY <2>1, SizeAssumption
  <2> QED
    BY <2>2, <2>3 DEF LeadsTo, ToPtr, n
<1>4. CASE a = alloc
  <2>1. /\ shm[a].kind = "entry" /\ DOMAIN shm[a].els = {1} /\ shm[a].els[1].key = None
        /\ shm[a].els[1].val = [type |-> "ptr", p |-> EntrySize]
    BY <1>1, <1>4 DEF Serialized
  <2> QED
    BY <2>1, <1>3 DEF Elements
<1>5. CASE a = alloc + EntrySize
  BY <1>1, <1>5 DEF Serialized, Elements
<1> QED
  BY <1>1, <1>4, <1>5 DEF Serialized

\* TO_OFF and TO_PTR: whatever the value and wherever the block is mapped, each offset in it leads to
\* a structure of its own type inside the block.
THEOREM OffsetsInsideHolds == Spec => []OffsetsInside
<1>1. CopyingInv /\ StoredInv => OffsetsInside
  <2> SUFFICES ASSUME CopyingInv, StoredInv, phase = "stored"
               PROVE  OffsetsInside
    BY DEF OffsetsInside
  <2>1. IsValue(input.mem) /\ alloc \in Nat
    BY InputIsValue, BaseAssumption DEF CopyingInv, StartInv, SetupInv, InBlock
  <2>2. CASE SerialStored(shm, alloc)
    BY <2>1, <2>2, SerializedLeads DEF OffsetsInside
  <2>3. CASE \E at: Whole(input.mem, shm, alloc, at)
    <3>1. PICK at: Whole(input.mem, shm, alloc, at)
      BY <2>3
    <3> QED
      BY <2>1, <3>1, WholeLeads DEF OffsetsInside
  <2> QED
    BY <2>2, <2>3 DEF StoredInv
<1> QED
  BY <1>1, StoredHolds, PTL

\* What the entry of a whole block has.
LEMMA StoredTop ==
  ASSUME NEW m, IsValue(m), m = input.mem, NEW at, Whole(m, shm, alloc, at)
  PROVE  /\ ValCopied(m, alloc, at, Top, Stored) /\ Stored.type = Top.type /\ Stored.type # "ptr"
         /\ 0 \in DOMAIN at /\ at[0] = alloc /\ alloc \in DOMAIN shm /\ Body(m, at, 0) = alloc
         /\ DOMAIN shm[alloc].els = {1}
<1>1. /\ Frame(m, shm, alloc, at) /\ Copied(m, shm, alloc, at, {}, {})
  BY DEF Whole, Block
<1>2. 0 \in DOMAIN at /\ at[0] = alloc /\ DOMAIN at \subseteq DOMAIN m
  BY <1>1 DEF Frame, Places
<1>3. 0 \in DOMAIN m /\ m[0].kind = "zval" /\ DOMAIN m[0].els = {1} /\ m[0].els[1].val = Top
  BY ValueFacts DEF Top
<1>4. Body(m, at, 0) = alloc
  BY <1>2, <1>3 DEF Body
<1>5. alloc \in DOMAIN shm /\ DOMAIN shm[alloc].els = {1}
  BY <1>1, <1>2, <1>3, <1>4 DEF Frame, Header
<1>6. <<0, 1>> \in Slots(m, DOMAIN at)
  BY <1>2, <1>3, SlotIn
<1>7. Cell(m, shm, at, <<0, 1>>).val = Stored
  BY <1>4 DEF Cell, Stored
<1>8. ValCopied(m, alloc, at, Top, Stored)
  <2>1. ValCopied(m, alloc, at, m[0].els[1].val, Cell(m, shm, at, <<0, 1>>).val)
    BY <1>1, <1>6 DEF Copied
  <2> QED
    BY <2>1, <1>3, <1>7
<1>9. Stored.type = Top.type
  BY <1>8 DEF ValCopied
<1>10. Top.type # "ptr"
  BY <1>3, SlotFacts
<1> QED
  BY <1>2, <1>4, <1>5, <1>8, <1>9, <1>10

\* The entry of a serialized value.
LEMMA SerialTop ==
  ASSUME SerialStored(shm, alloc)
  PROVE  /\ Stored = [type |-> "ptr", p |-> EntrySize] /\ Stored.type = "ptr"
         /\ shm[ToPtr(Stored.p)].text.of = Top /\ (~early => shm[ToPtr(Stored.p)].text.by = Format)
BY DEF SerialStored, Serialized, Stored, ToPtr

\* php_apc.c:340: what a request has serialized is read with the serializer that wrote it, and with
\* the configured one if an extension has registered it.
THEOREM SameFormatHolds == Spec => []SameFormat
<1>1. CopyingInv /\ StoredInv => SameFormat
  <2> SUFFICES ASSUME CopyingInv, StoredInv, phase = "stored", Stored.type = "ptr", ~early
               PROVE  /\ shm[ToPtr(Stored.p)].text.by = Format
                      /\ External \in registered /\ input.name = External => Format = External
    BY DEF SameFormat
  <2>1. IsValue(input.mem)
    BY InputIsValue DEF CopyingInv, StartInv
  <2>2. SerialStored(shm, alloc)
    BY <2>1, StoredTop DEF StoredInv
  <2>3. shm[ToPtr(Stored.p)].text.by = Format
    BY <2>2, SerialTop
  <2>4. serializer = Find(input.name, registered)
    BY DEF CopyingInv, StartInv, SetupInv
  <2>5. External # None
    BY NothingElse
  <2> QED
    BY <2>3, <2>4, <2>5 DEF Find, Format
<1> QED
  BY <1>1, StoredHolds, PTL

-----------------------------------------------------------------------------
(* What is fetched *)

\* from tells what each structure of request memory is a copy of; done has the others' addresses.
Names(at, from, r, done) ==
  /\ DOMAIN from = DOMAIN r /\ 0 \in DOMAIN r /\ from[0] = 0
  /\ \E n \in Nat: DOMAIN r = 0..n
  /\ \A q \in DOMAIN r: from[q] \in DOMAIN at /\ (from[q] = 0 => q = 0)
  /\ \A p, q \in DOMAIN r: from[p] = from[q] => p = q
  /\ DOMAIN done = {at[from[q]]: q \in DOMAIN r \ {0}}
  /\ \A q \in DOMAIN r \ {0}: done[at[from[q]]] = q
\* x is like the structure p of the value, apart from its zvals.
Alike(m, p, x) ==
  /\ x.kind = m[p].kind /\ x.packed = m[p].packed /\ DOMAIN x.els = DOMAIN m[p].els
  /\ m[p].kind = "str" => x.len = m[p].len /\ x.text = m[p].text
  /\ m[p].kind = "arr" => FlagsRight(m, p, x, Elements(m[p].els))
ValFetched(m, from, y, z) ==
  /\ z = [type |-> y.type, p |-> z.p]
  /\ Flat(y) => z.p = 0
  /\ ~Flat(y) => /\ y.type \in Storable
                 /\ IF IsEmpty(m[y.p]) THEN z.p = EmptyArray
                    ELSE z.p \in DOMAIN from \ {0} /\ from[z.p] = y.p
CellFetched(m, from, e, z) ==
  z.h = e.h /\ (e.val.type # "undef" => z.key = e.key) /\ ValFetched(m, from, e.val, z.val)
\* The zvals raw are as they are in the block.
Cells(m, s, at, from, r, raw) ==
  \A q \in DOMAIN r: \A i \in DOMAIN r[q].els:
    IF <<q, i>> \in raw THEN r[q].els[i] = s[Body(m, at, from[q])].els[i]
    ELSE CellFetched(m, from, m[from[q]].els[i], r[q].els[i])
Fetched1(m, s, at, from, r, done, raw) ==
  /\ Names(at, from, r, done) /\ Shaped(r) /\ (\A q \in DOMAIN r: Alike(m, from[q], r[q]))
  /\ Cells(m, s, at, from, r, raw) /\ raw \subseteq Slots(r, DOMAIN r)

\* The zvals that lead to q.
Linked(r, raw, q) == {x \in Slots(r, DOMAIN r): x \notin raw /\ r[x[1]].els[x[2]].val.p = q}

\* The zvals of what was fetched, by address and index.
LEMMA FetchSlots ==
  ASSUME NEW m, IsValue(m), NEW s, NEW base, NEW at, Frame(m, s, base, at), NEW from, NEW r, NEW done, NEW raw,
         Fetched1(m, s, at, from, r, done, raw)
  PROVE  /\ \A q \in DOMAIN r: /\ q \in Nat /\ from[q] \in DOMAIN at /\ from[q] \in DOMAIN m
                               /\ DOMAIN r[q].els = DOMAIN m[from[q]].els
                               /\ \A i \in DOMAIN r[q].els: i \in Nat /\ i \in 1..MaxLong
         /\ \A q, i: <<q, i>> \in Slots(r, DOMAIN r) <=> q \in DOMAIN r /\ i \in DOMAIN r[q].els
         /\ \A x \in Slots(r, DOMAIN r): x = <<x[1], x[2]>> /\ x[1] \in DOMAIN r /\ x[2] \in DOMAIN r[x[1]].els
         /\ IsFiniteSet(Slots(r, DOMAIN r)) /\ IsFiniteSet(DOMAIN r)
<1>1. Names(at, from, r, done) /\ DOMAIN at \subseteq DOMAIN m /\ MaxLong \in Nat
  BY SizeAssumption DEF Fetched1, Frame, Places
<1>2. PICK n \in Nat: DOMAIN r = 0..n
  BY <1>1 DEF Names
<1>3. ASSUME NEW q \in DOMAIN r
      PROVE  /\ q \in Nat /\ from[q] \in DOMAIN at /\ from[q] \in DOMAIN m
             /\ DOMAIN r[q].els = DOMAIN m[from[q]].els
             /\ \A i \in DOMAIN r[q].els: i \in Nat /\ i \in 1..MaxLong
  <2>1. q \in Nat /\ from[q] \in DOMAIN at /\ from[q] \in DOMAIN m /\ DOMAIN r[q].els = DOMAIN m[from[q]].els
    BY <1>1, <1>2 DEF Names, Fetched1, Alike
  <2> DEFINE k == Len(m[from[q]].els)
  <2>2. k \in Nat /\ k <= MaxLong /\ DOMAIN m[from[q]].els = 1..k
    BY <2>1, ValueFacts
  <2> HIDE DEF k
  <2>3. \A i \in 1..k: i \in Nat /\ i \in 1..MaxLong
    BY <2>2, <1>1
  <2> QED
    BY <2>1, <2>2, <2>3
<1>4. \A q, i: <<q, i>> \in Slots(r, DOMAIN r) <=> q \in DOMAIN r /\ i \in DOMAIN r[q].els
  BY <1>3 DEF Slots
<1>5. \A x \in Slots(r, DOMAIN r): x = <<x[1], x[2]>> /\ x[1] \in DOMAIN r /\ x[2] \in DOMAIN r[x[1]].els
  BY DEF Slots
<1>6. IsFiniteSet(0..n) /\ IsFiniteSet(1..MaxLong)
  BY <1>1, FS_Interval
<1>7. IsFiniteSet((0..n) \X (1..MaxLong))
  BY <1>6, FS_Product
<1>8. Slots(r, DOMAIN r) \subseteq (0..n) \X (1..MaxLong)
  BY <1>2, <1>3, <1>5
<1> QED
  BY <1>2, <1>3, <1>4, <1>5, <1>6, <1>7, <1>8, FS_Subset

\* The zval x of raw becomes e.
Writes(m, from, r, raw, x, e, r2) ==
  /\ x \in raw /\ Rewritten(r, r2, x[1], x[2], e) /\ IsBucket(e)
  /\ CellFetched(m, from, m[from[x[1]]].els[x[2]], e)
\* It leads to p.
LinksMore(r, r2, raw, x, p) ==
  \A q: Linked(r2, raw \ {x}, q) = IF p = q THEN Linked(r, raw, q) \cup {x} ELSE Linked(r, raw, q)

\* A zval is written.
LEMMA FetchWritten ==
  ASSUME NEW m, IsValue(m), NEW s, NEW base, NEW at, Frame(m, s, base, at), NEW from, NEW r, NEW done, NEW raw,
         Fetched1(m, s, at, from, r, done, raw), NEW x, NEW r2, NEW e, Writes(m, from, r, raw, x, e, r2)
  PROVE  Fetched1(m, s, at, from, r2, done, raw \ {x}) /\ LinksMore(r, r2, raw, x, e.val.p)
<1>0. /\ x \in raw /\ Rewritten(r, r2, x[1], x[2], e) /\ IsBucket(e)
      /\ CellFetched(m, from, m[from[x[1]]].els[x[2]], e)
  BY DEF Writes
<1>1. /\ Names(at, from, r, done) /\ Shaped(r) /\ (\A q \in DOMAIN r: Alike(m, from[q], r[q]))
      /\ Cells(m, s, at, from, r, raw) /\ raw \subseteq Slots(r, DOMAIN r)
  BY DEF Fetched1
<1>2. /\ \A q, i: <<q, i>> \in Slots(r, DOMAIN r) <=> q \in DOMAIN r /\ i \in DOMAIN r[q].els
      /\ \A y \in Slots(r, DOMAIN r): y = <<y[1], y[2]>> /\ y[1] \in DOMAIN r /\ y[2] \in DOMAIN r[y[1]].els
  BY FetchSlots
<1>3. x \in Slots(r, DOMAIN r) /\ x = <<x[1], x[2]>> /\ x[1] \in DOMAIN r /\ x[2] \in DOMAIN r[x[1]].els
  BY <1>0, <1>1, <1>2
<1>4. /\ DOMAIN r2 = DOMAIN r
      /\ \A q \in DOMAIN r: /\ SameHead(r2[q], r[q]) /\ DOMAIN r2[q].els = DOMAIN r[q].els
                            /\ \A i \in DOMAIN r[q].els:
                                 r2[q].els[i] = IF q = x[1] /\ i = x[2] THEN e ELSE r[q].els[i]
  BY <1>0 DEF Rewritten
<1>5. Slots(r2, DOMAIN r2) = Slots(r, DOMAIN r)
  BY <1>4 DEF Slots
<1>6. Names(at, from, r2, done)
  BY <1>1, <1>4 DEF Names
<1>7. Shaped(r2)
  BY <1>0, <1>1, RewrittenShaped
<1>8. ASSUME NEW q \in DOMAIN r2
      PROVE  Alike(m, from[q], r2[q])
  <2>1. Alike(m, from[q], r[q]) /\ SameHead(r2[q], r[q]) /\ DOMAIN r2[q].els = DOMAIN r[q].els
    BY <1>1, <1>4
  <2>2. FlagsRight(m, from[q], r[q], Elements(m[from[q]].els)) => FlagsRight(m, from[q], r2[q], Elements(m[from[q]].els))
    BY <2>1 DEF SameHead, SameFixed, FlagsRight
  <2> QED
    BY <2>1, <2>2 DEF Alike, SameHead, SameFixed
<1>9. Cells(m, s, at, from, r2, raw \ {x})
  <2> SUFFICES ASSUME NEW q \in DOMAIN r, NEW i \in DOMAIN r[q].els
               PROVE  IF <<q, i>> \in raw \ {x} THEN r2[q].els[i] = s[Body(m, at, from[q])].els[i]
                      ELSE CellFetched(m, from, m[from[q]].els[i], r2[q].els[i])
    BY <1>4 DEF Cells
  <2>1. IF <<q, i>> \in raw THEN r[q].els[i] = s[Body(m, at, from[q])].els[i]
        ELSE CellFetched(m, from, m[from[q]].els[i], r[q].els[i])
    BY <1>1 DEF Cells
  <2>2. CASE <<q, i>> = x
    <3>1. q = x[1] /\ i = x[2] /\ <<q, i>> \notin raw \ {x}
      BY <2>2, <1>3
    <3>2. r2[q].els[i] = e
      BY <3>1, <1>4
    <3> QED
      BY <3>1, <3>2, <1>0
  <2>3. CASE <<q, i>> # x
    <3>1. ~(q = x[1] /\ i = x[2])
      BY <2>3, <1>3
    <3>2. r2[q].els[i] = r[q].els[i]
      BY <3>1, <1>4
    <3> QED
      BY <2>1, <2>3, <3>2
  <2> QED
    BY <2>2, <2>3
<1>10. Fetched1(m, s, at, from, r2, done, raw \ {x})
  BY <1>1, <1>5, <1>6, <1>7, <1>8, <1>9 DEF Fetched1
<1>11. ASSUME NEW q
       PROVE  Linked(r2, raw \ {x}, q) = IF e.val.p = q THEN Linked(r, raw, q) \cup {x} ELSE Linked(r, raw, q)
  <2>1. \A y \in Slots(r, DOMAIN r): y # x => r2[y[1]].els[y[2]] = r[y[1]].els[y[2]]
    <3> SUFFICES ASSUME NEW y \in Slots(r, DOMAIN r), y # x
                 PROVE  r2[y[1]].els[y[2]] = r[y[1]].els[y[2]]
      OBVIOUS
    <3>1. y[1] \in DOMAIN r /\ y[2] \in DOMAIN r[y[1]].els /\ y = <<y[1], y[2]>>
      BY <1>2
    <3>2. ~(y[1] = x[1] /\ y[2] = x[2])
      BY <3>1, <1>3
    <3> QED
      BY <3>1, <3>2, <1>4
  <2>2. r2[x[1]].els[x[2]] = e
    BY <1>3, <1>4
  <2>3. \A y: y \in Linked(r2, raw \ {x}, q) <=>
              \/ y = x /\ e.val.p = q
              \/ y \in Linked(r, raw, q)
    <3> SUFFICES ASSUME NEW y
                 PROVE  y \in Linked(r2, raw \ {x}, q) <=> (y = x /\ e.val.p = q) \/ y \in Linked(r, raw, q)
      OBVIOUS
    <3>1. CASE y = x
      BY <1>0, <1>3, <1>5, <2>2, <3>1 DEF Linked
    <3>2. CASE y # x
      BY <1>5, <2>1, <3>2 DEF Linked
    <3> QED
      BY <3>1, <3>2
  <2> QED
    BY <2>3
<1> QED
  BY <1>10, <1>11 DEF LinksMore

\* The structure p is added as x at new, with the zvals more in it.
Adds(m, s, at, p, r, done, new, x, more) ==
  /\ p \in DOMAIN at /\ p # 0 /\ at[p] \notin DOMAIN done /\ new = Cardinality(DOMAIN r)
  /\ IsStruct(x) /\ x.static \in BOOLEAN /\ (x.kind = "str" => DOMAIN x.els = {})
  /\ Alike(m, p, x) /\ x.els = s[Body(m, at, p)].els /\ more = {<<new, i>>: i \in DOMAIN x.els}
\* Nothing leads to it yet.
LinksKept(r, r2, raw, raw2, new) ==
  (\A q \in Nat \ {0}: Linked(r2, raw2, q) = Linked(r, raw, q)) /\ Linked(r, raw, new) = {}

\* A structure is added to request memory, with its zvals as the block has them.
LEMMA FetchAdds ==
  ASSUME NEW m, IsValue(m), NEW s, NEW base, NEW at, Frame(m, s, base, at), NEW from, NEW r, NEW done, NEW raw,
         Fetched1(m, s, at, from, r, done, raw), NEW p, NEW new, NEW x, NEW more,
         Adds(m, s, at, p, r, done, new, x, more)
  PROVE  /\ new \in Nat \ {0} /\ new \notin DOMAIN r
         /\ Fetched1(m, s, at, Put(from, new, p), Put(r, new, x), Put(done, at[p], new), raw \cup more)
         /\ LinksKept(r, Put(r, new, x), raw, raw \cup more, new)
<1> DEFINE r2 == Put(r, new, x)
           f2 == Put(from, new, p)
           d2 == Put(done, at[p], new)
<1>0. /\ p \in DOMAIN at /\ p # 0 /\ at[p] \notin DOMAIN done /\ new = Cardinality(DOMAIN r)
      /\ IsStruct(x) /\ x.static \in BOOLEAN /\ (x.kind = "str" => DOMAIN x.els = {})
      /\ Alike(m, p, x) /\ x.els = s[Body(m, at, p)].els /\ more = {<<new, i>>: i \in DOMAIN x.els}
      /\ Added(r, r2, new, x)
  BY PutAdds DEF Adds
<1> USE <1>0
<1> HIDE DEF r2
<1>1. /\ Names(at, from, r, done) /\ Shaped(r) /\ (\A q \in DOMAIN r: Alike(m, from[q], r[q]))
      /\ Cells(m, s, at, from, r, raw) /\ raw \subseteq Slots(r, DOMAIN r)
  BY DEF Fetched1
<1>2. PICK n \in Nat: DOMAIN r = 0..n
  BY <1>1 DEF Names
<1>3. new = n + 1
  <2>1. Cardinality(0..n) = n - 0 + 1
    BY FS_Interval
  <2> QED
    BY <2>1, <1>2
<1>4. new \in Nat \ {0} /\ new \notin DOMAIN r /\ DOMAIN r \cup {new} = 0..(n + 1) /\ n + 1 \in Nat
  BY <1>2, <1>3
<1>5. /\ \A q, i: <<q, i>> \in Slots(r, DOMAIN r) <=> q \in DOMAIN r /\ i \in DOMAIN r[q].els
      /\ \A y \in Slots(r, DOMAIN r): y = <<y[1], y[2]>> /\ y[1] \in DOMAIN r /\ y[2] \in DOMAIN r[y[1]].els
      /\ \A q \in DOMAIN r: \A i \in DOMAIN r[q].els: i \in Nat
  BY FetchSlots
<1>6. /\ DOMAIN r2 = DOMAIN r \cup {new} /\ r2[new] = x /\ \A q \in DOMAIN r: r2[q] = r[q]
  BY <1>4 DEF Added
<1>7. /\ DOMAIN f2 = DOMAIN from \cup {new} /\ f2[new] = p /\ \A q \in DOMAIN from: f2[q] = from[q]
  BY <1>1, <1>4 DEF Put, Names
<1>8. /\ DOMAIN d2 = DOMAIN done \cup {at[p]} /\ d2[at[p]] = new
      /\ \A a \in DOMAIN done: d2[a] = done[a]
  BY DEF Put
<1>9. /\ Slots(r2, DOMAIN r2) = Slots(r, DOMAIN r) \cup more
      /\ raw \cap more = {} /\ \A y \in more: y \notin Slots(r, DOMAIN r)
  <2>1. DOMAIN x.els \subseteq Nat
    <3>1. DOMAIN x.els = DOMAIN m[p].els /\ p \in DOMAIN m
      BY DEF Alike, Frame, Places
    <3>2. DOMAIN m[p].els = 1..Len(m[p].els) /\ Len(m[p].els) \in Nat
      BY <3>1, ValueFacts
    <3> QED
      BY <3>1, <3>2
  <2>2. \A y \in more: y \notin Slots(r, DOMAIN r)
    BY <1>4, <1>5
  <2>3. \A y: y \in Slots(r2, DOMAIN r2) <=> y \in Slots(r, DOMAIN r) \/ y \in more
    <3> SUFFICES ASSUME NEW y
                 PROVE  y \in Slots(r2, DOMAIN r2) <=> y \in Slots(r, DOMAIN r) \/ y \in more
      OBVIOUS
    <3>1. ASSUME y \in Slots(r2, DOMAIN r2)
          PROVE  y \in Slots(r, DOMAIN r) \/ y \in more
      <4>1. y = <<y[1], y[2]>> /\ y[1] \in DOMAIN r2 /\ y[2] \in DOMAIN r2[y[1]].els /\ y[2] \in Nat
        BY <3>1 DEF Slots
      <4>2. CASE y[1] = new
        BY <4>1, <4>2, <1>6
      <4>3. CASE y[1] # new
        <5>1. y[1] \in DOMAIN r /\ y[2] \in DOMAIN r[y[1]].els
          BY <4>1, <4>3, <1>6
        <5>2. <<y[1], y[2]>> \in Slots(r, DOMAIN r)
          BY <5>1, <1>5
        <5> QED
          BY <5>2, <4>1
      <4> QED
        BY <4>2, <4>3
    <3>2. ASSUME y \in Slots(r, DOMAIN r)
          PROVE  y \in Slots(r2, DOMAIN r2)
      <4>1. y = <<y[1], y[2]>> /\ y[1] \in DOMAIN r /\ y[2] \in DOMAIN r[y[1]].els /\ y[2] \in Nat
        BY <3>2, <1>5
      <4>2. y[1] \in DOMAIN r2 /\ y[2] \in DOMAIN r2[y[1]].els
        BY <4>1, <1>6
      <4> QED
        BY <4>1, <4>2 DEF Slots
    <3>3. ASSUME y \in more
          PROVE  y \in Slots(r2, DOMAIN r2)
      BY <3>3, <2>1, <1>6 DEF Slots
    <3> QED
      BY <3>1, <3>2, <3>3
  <2> QED
    BY <2>2, <2>3, <1>1
<1> HIDE DEF f2, d2
<1>10. Names(at, f2, r2, d2)
  <2>1. DOMAIN f2 = DOMAIN r2 /\ 0 \in DOMAIN r2 /\ f2[0] = 0 /\ \E k \in Nat: DOMAIN r2 = 0..k
    BY <1>1, <1>4, <1>6, <1>7 DEF Names
  <2>2. \A q \in DOMAIN r2: f2[q] \in DOMAIN at /\ (f2[q] = 0 => q = 0)
    BY <1>1, <1>6, <1>7 DEF Names
  <2>3. \A q \in DOMAIN r: from[q] # p
    <3> SUFFICES ASSUME NEW q \in DOMAIN r, from[q] = p
                 PROVE  FALSE
      OBVIOUS
    <3>1. q # 0
      BY <1>1 DEF Names
    <3> QED
      BY <3>1, <1>1 DEF Names
  <2>4. \A q, t \in DOMAIN r2: f2[q] = f2[t] => q = t
    BY <2>3, <1>1, <1>6, <1>7 DEF Names
  <2>5. DOMAIN d2 = {at[f2[q]]: q \in DOMAIN r2 \ {0}}
    <3>1. DOMAIN d2 = {at[from[q]]: q \in DOMAIN r \ {0}} \cup {at[p]}
      BY <1>1, <1>8 DEF Names
    <3>2. DOMAIN r2 \ {0} = (DOMAIN r \ {0}) \cup {new}
      BY <1>4, <1>6
    <3>3. DOMAIN from = DOMAIN r
      BY <1>1 DEF Names
    <3> QED
      BY <3>1, <3>2, <3>3, <1>7
  <2>6. \A q \in DOMAIN r2 \ {0}: d2[at[f2[q]]] = q
    <3> SUFFICES ASSUME NEW q \in DOMAIN r2 \ {0}
                 PROVE  d2[at[f2[q]]] = q
      OBVIOUS
    <3>1. CASE q = new
      BY <3>1, <1>7, <1>8
    <3>2. CASE q # new
      <4>1. q \in DOMAIN r \ {0} /\ f2[q] = from[q]
        BY <3>2, <1>1, <1>6, <1>7 DEF Names
      <4>2. at[from[q]] \in DOMAIN done /\ done[at[from[q]]] = q
        BY <4>1, <1>1 DEF Names
      <4> QED
        BY <4>1, <4>2, <1>8
    <3> QED
      BY <3>1, <3>2
  <2> QED
    BY <2>1, <2>2, <2>4, <2>5, <2>6 DEF Names
<1>11. Shaped(r2)
  <2>1. Shaped(s) /\ Body(m, at, p) \in DOMAIN s
    BY Places1 DEF Frame
  <2>2. \A i \in DOMAIN x.els: IsBucket(x.els[i])
    BY <2>1 DEF Shaped
  <2> QED
    BY <2>2, <1>1, <1>4, <1>6 DEF Shaped
<1>12. \A q \in DOMAIN r2: Alike(m, f2[q], r2[q])
  <2>1. DOMAIN from = DOMAIN r
    BY <1>1 DEF Names
  <2>2. Alike(m, f2[new], r2[new])
    BY <1>6, <1>7
  <2>3. \A q \in DOMAIN r: Alike(m, f2[q], r2[q])
    BY <2>1, <1>1, <1>6, <1>7
  <2> QED
    BY <2>2, <2>3, <1>6
<1>13. Cells(m, s, at, f2, r2, raw \cup more)
  <2> SUFFICES ASSUME NEW q \in DOMAIN r2, NEW i \in DOMAIN r2[q].els
               PROVE  IF <<q, i>> \in raw \cup more THEN r2[q].els[i] = s[Body(m, at, f2[q])].els[i]
                      ELSE CellFetched(m, f2, m[f2[q]].els[i], r2[q].els[i])
    BY DEF Cells
  <2>1. CASE q = new
    <3>1. <<q, i>> \in more /\ r2[q] = x /\ f2[q] = p
      BY <2>1, <1>6, <1>7 
    <3> QED
      BY <3>1
  <2>2. CASE q # new
    <3>1. /\ q \in DOMAIN r /\ r2[q] = r[q] /\ f2[q] = from[q] /\ i \in DOMAIN r[q].els
          /\ DOMAIN from = DOMAIN r
      BY <2>2, <1>1, <1>6, <1>7 DEF Names
    <3>2. <<q, i>> \notin more
      BY <3>1, <1>5, <1>9
    <3>3. IF <<q, i>> \in raw THEN r[q].els[i] = s[Body(m, at, from[q])].els[i]
          ELSE CellFetched(m, from, m[from[q]].els[i], r[q].els[i])
      BY <3>1, <1>1 DEF Cells
    <3>4. ASSUME NEW e, NEW z, CellFetched(m, from, e, z)
          PROVE  CellFetched(m, f2, e, z)
      BY <3>4, <3>1, <1>7 DEF CellFetched, ValFetched
    <3> QED
      BY <3>1, <3>2, <3>3, <3>4
  <2> QED
    BY <2>1, <2>2
<1>14. Fetched1(m, s, at, f2, r2, d2, raw \cup more)
  <2>1. raw \cup more \subseteq Slots(r2, DOMAIN r2)
    BY <1>1, <1>9
  <2> QED
    BY <2>1, <1>10, <1>11, <1>12, <1>13 DEF Fetched1
<1>15. ASSUME NEW q
       PROVE  Linked(r2, raw \cup more, q) = Linked(r, raw, q)
  <2>1. \A y \in Slots(r, DOMAIN r): r2[y[1]].els[y[2]] = r[y[1]].els[y[2]]
    BY <1>5, <1>6
  <2> QED
    BY <2>1, <1>9 DEF Linked
<1>16. Linked(r, raw, new) = {}
  <2> SUFFICES ASSUME NEW y \in Linked(r, raw, new)
               PROVE  FALSE
    OBVIOUS
  <2>1. /\ y \in Slots(r, DOMAIN r) /\ y \notin raw /\ r[y[1]].els[y[2]].val.p = new
        /\ y = <<y[1], y[2]>> /\ y[1] \in DOMAIN r /\ y[2] \in DOMAIN r[y[1]].els
    BY <1>5 DEF Linked
  <2> DEFINE z == r[y[1]].els[y[2]].val
             t == m[from[y[1]]].els[y[2]].val
  <2>2. ValFetched(m, from, t, z)
    BY <2>1, <1>1 DEF Cells, CellFetched
  <2>3. z.p \in {0, EmptyArray} \cup DOMAIN from
    BY <2>2 DEF ValFetched
  <2>4. z.p = new /\ DOMAIN from = DOMAIN r
    BY <2>1, <1>1 DEF Names
  <2> HIDE DEF z
  <2> QED
    BY <2>3, <2>4, <1>4 DEF EmptyArray
<1> QED
  BY <1>4, <1>14, <1>15, <1>16 DEF LinksKept, r2, f2, d2

\* Only the count of p changes, by one.
CountsMore(r, r2, p) ==
  /\ DOMAIN r2 = DOMAIN r /\ r2[p].rc = r[p].rc + 1
  /\ \A q \in DOMAIN r: q # p => r2[q].rc = r[q].rc

\* One more link to a structure is counted.
LEMMA LinkAdded ==
  ASSUME NEW m, NEW s, NEW at, NEW from, NEW r, NEW done, NEW raw,
         Fetched1(m, s, at, from, r, done, raw), NEW p \in DOMAIN r
  PROVE  /\ Fetched1(m, s, at, from, AnotherLink(r, p), done, raw) /\ CountsMore(r, AnotherLink(r, p), p)
         /\ \A q: Linked(AnotherLink(r, p), raw, q) = Linked(r, raw, q)
<1> DEFINE r2 == AnotherLink(r, p)
<1>1. /\ Names(at, from, r, done) /\ Shaped(r) /\ (\A q \in DOMAIN r: Alike(m, from[q], r[q]))
      /\ Cells(m, s, at, from, r, raw) /\ raw \subseteq Slots(r, DOMAIN r)
  BY DEF Fetched1
<1>2. /\ DOMAIN r2 = DOMAIN r /\ r2[p] = [r[p] EXCEPT !.rc = @ + 1] /\ \A q \in DOMAIN r: q # p => r2[q] = r[q]
  BY DEF AnotherLink
<1>3. IsStruct(r[p])
  BY <1>1 DEF Shaped
<1> HIDE DEF r2
<1>4. r2[p] = [kind |-> r[p].kind, rc |-> r[p].rc + 1, len |-> r[p].len, text |-> r[p].text,
               packed |-> r[p].packed, next |-> r[p].next, pos |-> r[p].pos, static |-> r[p].static,
               data |-> r[p].data, els |-> r[p].els]
  BY <1>2, <1>3 DEF IsStruct
<1>5. /\ IsStruct(r2[p]) /\ r2[p].kind = r[p].kind /\ r2[p].rc = r[p].rc + 1 /\ r2[p].len = r[p].len
      /\ r2[p].text = r[p].text /\ r2[p].next = r[p].next /\ r2[p].pos = r[p].pos /\ r2[p].els = r[p].els
  BY <1>4 DEF IsStruct
<1>6. r2[p].packed = r[p].packed
  BY <1>4
<1>7. r2[p].static = r[p].static
  BY <1>4
<1> HIDE <1>4
<1>8. \A q \in DOMAIN r: /\ IsStruct(r2[q]) /\ r2[q].kind = r[q].kind /\ r2[q].len = r[q].len
                         /\ r2[q].text = r[q].text /\ r2[q].next = r[q].next /\ r2[q].pos = r[q].pos
                         /\ r2[q].els = r[q].els
  BY <1>1, <1>2, <1>5 DEF Shaped
<1>9. \A q \in DOMAIN r: r2[q].packed = r[q].packed
  BY <1>2, <1>6
<1>10. \A q \in DOMAIN r: r2[q].static = r[q].static
  BY <1>2, <1>7
<1>11. Names(at, from, r2, done)
  BY <1>1, <1>2 DEF Names
<1>12. Shaped(r2)
  BY <1>1, <1>2, <1>8, <1>10 DEF Shaped
<1>13. ASSUME NEW q \in DOMAIN r
       PROVE  Alike(m, from[q], r2[q])
  <2> DEFINE E == Elements(m[from[q]].els)
             x == r[q]
             y == r2[q]
  <2>1. Alike(m, from[q], x) /\ y.pos = x.pos /\ y.next = x.next /\ y.kind = x.kind /\ y.els = x.els
        /\ y.len = x.len /\ y.text = x.text
    BY <1>1, <1>8
  <2>2. y.static = x.static
    BY <1>10
  <2>3. y.packed = x.packed
    BY <1>9
  <2> HIDE DEF E, x, y
  <2>4. FlagsRight(m, from[q], x, E) => FlagsRight(m, from[q], y, E)
    BY <2>1, <2>2 DEF FlagsRight
  <2>5. Alike(m, from[q], y)
    BY <2>1, <2>3, <2>4 DEF Alike, E
  <2> QED
    BY <2>5 DEF y
<1>14. Cells(m, s, at, from, r2, raw)
  <2> SUFFICES ASSUME NEW q \in DOMAIN r2, NEW i \in DOMAIN r2[q].els
               PROVE  IF <<q, i>> \in raw THEN r2[q].els[i] = s[Body(m, at, from[q])].els[i]
                      ELSE CellFetched(m, from, m[from[q]].els[i], r2[q].els[i])
    BY DEF Cells
  <2>1. q \in DOMAIN r /\ r2[q].els = r[q].els
    BY <1>2, <1>8
  <2>2. IF <<q, i>> \in raw THEN r[q].els[i] = s[Body(m, at, from[q])].els[i]
        ELSE CellFetched(m, from, m[from[q]].els[i], r[q].els[i])
    BY <1>1, <2>1 DEF Cells
  <2> QED
    BY <2>1, <2>2
<1>15. Slots(r2, DOMAIN r2) = Slots(r, DOMAIN r)
  BY <1>2, <1>8 DEF Slots
<1>16. Fetched1(m, s, at, from, r2, done, raw)
  BY <1>1, <1>2, <1>11, <1>12, <1>13, <1>14, <1>15 DEF Fetched1
<1>17. ASSUME NEW q
       PROVE  Linked(r2, raw, q) = Linked(r, raw, q)
  <2>1. \A y \in Slots(r, DOMAIN r): r2[y[1]].els = r[y[1]].els
    BY <1>8 DEF Slots
  <2> QED
    BY <2>1, <1>15 DEF Linked
<1>18. \A q \in DOMAIN r: q # p => r2[q].rc = r[q].rc
  BY <1>2
<1> QED
  BY <1>2, <1>5, <1>16, <1>17, <1>18 DEF CountsMore, r2

-----------------------------------------------------------------------------
(* The fetch step by step *)

\* Each structure of request memory is counted for the zvals that lead to it.
Counting(r, raw) == \A q \in DOMAIN r \ {0}: r[q].rc = Cardinality(Linked(r, raw, q))
\* A fetch of the value m.
FetchAt(m, at, from, raw) ==
  /\ m = input.mem /\ IsValue(m) /\ Whole(m, shm, alloc, at)
  /\ Fetched1(m, shm, at, from, mem, ctx.done, raw)
  /\ todo \in Seq(Nat \X Nat) /\ Once(todo) /\ raw = Members(todo)
  /\ Counting(mem, raw)
  /\ ~ctx.memo => Top.type # "arr" /\ (todo = << >> \/ ctx.done = Nothing)
\* The fetch of a serialized one takes one step.
FetchSerial ==
  /\ SerialStored(shm, alloc) /\ todo = << >> /\ DOMAIN mem = {0} /\ mem[0].els = <<Bucket(Result)>>
  /\ Result \in {Top, [type |-> "long", p |-> 0]}
FetchInv ==
  phase = "fetch" => FetchSerial \/ \E at, from: FetchAt(input.mem, at, from, Members(todo))

\* The zval e of the value and its copy z in the block.
CellStored(m, s, base, at, e, z) ==
  /\ IsBucket(z) /\ z.h = e.h /\ ValCopied(m, base, at, e.val, z.val)
  /\ IF e.val.type = "undef" THEN z.key = e.key ELSE KeyCopied(s, base, e.key, z.key)

\* A zval of request memory that is yet to be fetched is what the block has.
LEMMA RawStored ==
  ASSUME NEW m, IsValue(m), NEW s, NEW base, NEW at, Whole(m, s, base, at), NEW from, NEW r, NEW done, NEW raw,
         Fetched1(m, s, at, from, r, done, raw), NEW x \in raw
  PROVE  /\ x = <<x[1], x[2]>> /\ x[1] \in DOMAIN r /\ x[2] \in DOMAIN r[x[1]].els
         /\ from[x[1]] \in DOMAIN at /\ from[x[1]] \in DOMAIN m /\ x[2] \in DOMAIN m[from[x[1]]].els
         /\ CellStored(m, s, base, at, m[from[x[1]]].els[x[2]], r[x[1]].els[x[2]])
<1> DEFINE q == x[1]
           i == x[2]
           p == from[x[1]]
           y == <<p, i>>
<1>1. Frame(m, s, base, at) /\ Copied(m, s, base, at, {}, {})
  BY DEF Whole, Block
<1>2. raw \subseteq Slots(r, DOMAIN r) /\ Cells(m, s, at, from, r, raw)
  BY DEF Fetched1
<1>3. /\ x = <<q, i>> /\ q \in DOMAIN r /\ i \in DOMAIN r[q].els /\ i \in Nat
      /\ p \in DOMAIN at /\ p \in DOMAIN m /\ DOMAIN r[q].els = DOMAIN m[p].els
  BY <1>1, <1>2, FetchSlots
<1>4. r[q].els[i] = s[Body(m, at, p)].els[i]
  BY <1>2, <1>3 DEF Cells
<1>5. y \in Slots(m, DOMAIN at) /\ y[1] = p /\ y[2] = i
  BY <1>3 DEF Slots
<1> HIDE DEF y
<1>6. Cell(m, s, at, y) = r[q].els[i]
  BY <1>4, <1>5 DEF Cell
<1>7. IsBucket(Cell(m, s, at, y))
  BY <1>1, <1>5, CellFacts
<1>8. CellStored(m, s, base, at, m[p].els[i], Cell(m, s, at, y))
  BY <1>1, <1>5, <1>7 DEF Copied, CellStored
<1> QED
  BY <1>3, <1>6, <1>8

\* Where a fetch is.
LEMMA FetchPlace ==
  ASSUME NEW m, NEW at, NEW from, NEW raw, FetchAt(m, at, from, raw), todo # << >>
  PROVE  /\ Item \in raw /\ Item = <<Item[1], Item[2]>> /\ Item = Head(todo)
         /\ Item[1] \in DOMAIN mem /\ Item[2] \in DOMAIN mem[Item[1]].els
         /\ from[Item[1]] \in DOMAIN at /\ from[Item[1]] \in DOMAIN m
         /\ Item[2] \in DOMAIN m[from[Item[1]]].els
         /\ Here(mem) = mem[Item[1]].els[Item[2]]
         /\ CellStored(m, shm, alloc, at, m[from[Item[1]]].els[Item[2]], Here(mem))
<1>1. Item \in raw /\ Item = Head(todo)
  BY TailMembers DEF FetchAt, Item
<1>2. Here(mem) = mem[Item[1]].els[Item[2]]
  BY DEF Here
<1> QED
  BY <1>1, <1>2, RawStored DEF FetchAt

\* A copied zval has the type of the original.
LEMMA CopyKeepsType ==
  ASSUME NEW m, NEW base, NEW at, NEW y, NEW z, ValCopied(m, base, at, y, z)
  PROVE  z.type = y.type
<1>1. z = [type |-> y.type, p |-> z.p]
  BY DEF ValCopied
<1> QED
  BY <1>1

\* The key a fetched zval gets.
LEMMA KeyFetched ==
  ASSUME NEW m, NEW at, NEW from, NEW raw, FetchAt(m, at, from, raw), todo # << >>,
         NEW e, e = m[from[Item[1]]].els[Item[2]], e.val.type # "undef"
  PROVE  FetchedKey(Here(mem)) = e.key
<1> DEFINE q == Item[1]
           i == Item[2]
           p == from[q]
           z == Here(mem)
<1>1. /\ q \in DOMAIN mem /\ p \in DOMAIN m /\ i \in DOMAIN m[p].els
      /\ CellStored(m, shm, alloc, at, e, z)
  BY FetchPlace
<1>2. KeyCopied(shm, alloc, e.key, z.key) /\ z.val.type = e.val.type
  <2> HIDE DEF z, p, q, i
  <2>1. KeyCopied(shm, alloc, e.key, z.key)
    BY <1>1 DEF CellStored
  <2>2. ValCopied(m, alloc, at, e.val, z.val)
    BY <1>1 DEF CellStored
  <2>3. z.val.type = e.val.type
    BY <2>2, CopyKeepsType
  <2> QED
    BY <2>1, <2>3
<1>3. mem[q].static => e.key = None
  <2>1. CASE m[p].kind = "arr"
    <3>1. FlagsRight(m, p, mem[q], Elements(m[p].els))
      BY <1>1, <2>1 DEF FetchAt, Fetched1, Alike
    <3>2. i \in Elements(m[p].els)
      BY <1>1 DEF Elements
    <3> QED
      BY <3>1, <3>2 DEF FlagsRight
  <2>2. CASE m[p].kind # "arr"
    BY <1>1, <2>2, ArrayKeys DEF FetchAt
  <2> QED
    BY <2>1, <2>2
<1> HIDE DEF z
<1> DEFINE k == FetchedKey(z)
<1>4. k = IF mem[q].static THEN z.key
          ELSE IF z.key = None \/ z.val.type = "undef" THEN None ELSE shm[alloc + z.key].text
  BY DEF FetchedKey, ToPtr
<1> HIDE DEF k
<1>5. CASE e.key = None
  <2>1. z.key = None
    BY <1>2, <1>5 DEF KeyCopied
  <2>2. k = None
    BY <1>4, <2>1
  <2> QED
    BY <1>5, <2>2 DEF k, z
<1>6. CASE e.key # None
  <2>1. z.key \in Nat /\ shm[alloc + z.key].text = e.key
    BY <1>2, <1>6 DEF KeyCopied
  <2>2. z.key # None
    BY <2>1, NameAssumption
  <2>3. k = shm[alloc + z.key].text
    BY <1>2, <1>3, <1>4, <1>6, <2>2
  <2> QED
    BY <2>1, <2>3 DEF k, z
<1> QED
  BY <1>5, <1>6 DEF z

\* What is assigned to the zval.
NewBucket(type, ptr) ==
  [h |-> Here(mem).h, key |-> FetchedKey(Here(mem)), val |-> [type |-> type, p |-> ptr]]

\* What a fetch writes into a zval.
LEMMA FetchWrites ==
  ASSUME NEW m, NEW at, NEW from, NEW raw, FetchAt(m, at, from, raw), todo # << >>, NEW type, NEW ptr
  PROVE  /\ Rewritten(mem, Fetched(type, ptr), Item[1], Item[2], NewBucket(type, ptr))
         /\ IsBucket(NewBucket(type, ptr)) /\ NewBucket(type, ptr).val = [type |-> type, p |-> ptr]
         /\ NewBucket(type, ptr).val.p = ptr
         /\ \A f: ValFetched(m, f, m[from[Item[1]]].els[Item[2]].val, [type |-> type, p |-> ptr]) =>
                  CellFetched(m, f, m[from[Item[1]]].els[Item[2]], NewBucket(type, ptr))
<1> DEFINE e == m[from[Item[1]]].els[Item[2]]
           b == NewBucket(type, ptr)
<1>1. /\ Item[1] \in DOMAIN mem /\ Item[2] \in DOMAIN mem[Item[1]].els
      /\ Here(mem) = mem[Item[1]].els[Item[2]] /\ Here(mem).h = e.h
  BY FetchPlace DEF CellStored
<1>2. Fetched(type, ptr) = [mem EXCEPT ![Item[1]].els[Item[2]] = b]
  BY <1>1 DEF Fetched, NewBucket
<1>3. Shaped(mem)
  BY DEF FetchAt, Fetched1
<1>4. b.h = e.h /\ b.val = [type |-> type, p |-> ptr] /\ b.val.p = ptr /\ IsBucket(b)
      /\ b.key = FetchedKey(Here(mem))
  BY <1>1 DEF NewBucket, IsBucket
<1> HIDE DEF b
<1>8. Rewritten(mem, [mem EXCEPT ![Item[1]].els[Item[2]] = b], Item[1], Item[2], b)
  BY <1>1, <1>3, SlotWritten
<1>5. Rewritten(mem, Fetched(type, ptr), Item[1], Item[2], b)
  BY <1>2, <1>8
<1>6. e.val.type # "undef" => b.key = e.key
  BY <1>4, KeyFetched
<1> HIDE DEF e
<1>7. \A f: ValFetched(m, f, e.val, [type |-> type, p |-> ptr]) => CellFetched(m, f, e, b)
  BY <1>4, <1>6 DEF CellFetched
<1> QED
  BY <1>4, <1>5, <1>7 DEF b, e

\* The address in a zval of the block that leads to a structure.
LEMMA StoredLeads ==
  ASSUME NEW m, NEW base, NEW at, Places(m, base, at), NEW y, NEW z, ValCopied(m, base, at, y, z), ~Flat(z)
  PROVE  /\ y.type = z.type /\ ~Flat(y) /\ y.type \in Storable /\ 0 \in DOMAIN at
         /\ IsEmpty(m[y.p]) => base + z.p = at[0]
         /\ ~IsEmpty(m[y.p]) => y.p \in DOMAIN at \ {0} /\ base + z.p = at[y.p]
         /\ base = at[0]
<1>1. base \in Nat /\ 0 \in DOMAIN at /\ at[0] = base /\ \A p \in DOMAIN at: at[p] \in Nat
  BY DEF Places
<1>2. y.type = z.type
  BY DEF ValCopied
<1>3. ~Flat(y) /\ y.type \in Storable
  BY <1>2 DEF ValCopied, Flat
<1>4. IsEmpty(m[y.p]) => base + z.p = at[0]
  BY <1>1, <1>3 DEF ValCopied
<1>5. ASSUME ~IsEmpty(m[y.p])
      PROVE  y.p \in DOMAIN at \ {0} /\ base + z.p = at[y.p]
  <2>1. y.p \in DOMAIN at \ {0} /\ z.p = at[y.p] - base
    BY <1>3, <1>5 DEF ValCopied
  <2>2. at[y.p] \in Nat
    BY <2>1, <1>1
  <2> QED
    BY <2>1, <2>2, <1>1
<1> QED
  BY <1>1, <1>2, <1>3, <1>4, <1>5

\* The list when nothing is put in front.
LEMMA TailListed ==
  ASSUME NEW t \in Seq(Nat \X Nat), Once(t), t # << >>
  PROVE  /\ << >> \o Tail(t) \in Seq(Nat \X Nat) /\ Once(<< >> \o Tail(t))
         /\ Members(<< >> \o Tail(t)) = Members(t) \ {Head(t)}
<1>1. << >> \in Seq(Nat \X Nat) /\ Once(<< >>) /\ Members(<< >>) = {}
  BY NoMembers
<1>2. Members(<< >>) \cap Members(t) = {}
  BY <1>1
<1> QED
  BY <1>1, <1>2, NextMembers

\* A step of the fetch.
LEMMA FetchGoesOn ==
  ASSUME NEW m, NEW at, NEW from, NEW raw, FetchAt(m, at, from, raw), NEW from2, NEW raw2, raw2 = Members(todo'),
         UNCHANGED <<input, shm, alloc>>, Fetched1(m, shm, at, from2, mem', ctx'.done, raw2),
         todo' \in Seq(Nat \X Nat), Once(todo'), Counting(mem', raw2), ctx'.memo = ctx.memo,
         ~ctx.memo => todo' = << >> \/ ctx'.done = Nothing
  PROVE  FetchInv'
<1>1. FetchAt(m, at, from2, raw2)'
  BY DEF FetchAt, Top
<1>2. (m = input.mem)' /\ (raw2 = Members(todo))'
  BY DEF FetchAt
<1> QED
  BY <1>1, <1>2 DEF FetchInv

\* A zval that leads to no structure of request memory is fetched.
LEMMA FetchPlain ==
  ASSUME NEW m, NEW at, NEW from, NEW raw, FetchAt(m, at, from, raw), todo # << >>,
         NEW type, NEW ptr, ptr \in {0, EmptyArray},
         ValFetched(m, from, m[from[Item[1]]].els[Item[2]].val, [type |-> type, p |-> ptr]),
         FetchNext(Fetched(type, ptr), ctx, << >>)
  PROVE  FetchInv'
<1> DEFINE F == Fetched(type, ptr)
           b == NewBucket(type, ptr)
<1>1. /\ IsValue(m) /\ Frame(m, shm, alloc, at) /\ Fetched1(m, shm, at, from, mem, ctx.done, raw)
      /\ todo \in Seq(Nat \X Nat) /\ Once(todo) /\ raw = Members(todo) /\ Counting(mem, raw)
      /\ (~ctx.memo => todo = << >> \/ ctx.done = Nothing) /\ Names(at, from, mem, ctx.done)
  BY DEF FetchAt, Whole, Block, Fetched1
<1>2. /\ mem' = F /\ ctx' = ctx /\ todo' = << >> \o Tail(todo) /\ UNCHANGED <<input, shm, alloc>>
  BY DEF FetchNext, setup
<1>3. Item \in raw /\ Item = Head(todo)
  BY FetchPlace
<1>4. /\ Rewritten(mem, F, Item[1], Item[2], b) /\ IsBucket(b) /\ b.val.p = ptr
      /\ CellFetched(m, from, m[from[Item[1]]].els[Item[2]], b)
  BY FetchWrites
<1> HIDE DEF F, b
<1>8. Writes(m, from, mem, raw, Item, b, F)
  BY <1>3, <1>4 DEF Writes
<1>5. Fetched1(m, shm, at, from, F, ctx.done, raw \ {Item}) /\ LinksMore(mem, F, raw, Item, ptr)
  BY <1>1, <1>4, <1>8, FetchWritten
<1>6. /\ todo' \in Seq(Nat \X Nat) /\ Once(todo') /\ Members(todo') = raw \ {Item}
  BY <1>1, <1>2, <1>3, TailListed
<1>7. Counting(F, raw \ {Item})
  <2> SUFFICES ASSUME NEW q \in DOMAIN F \ {0}
               PROVE  F[q].rc = Cardinality(Linked(F, raw \ {Item}, q))
    BY DEF Counting
  <2>1. q \in DOMAIN mem \ {0} /\ F[q].rc = mem[q].rc
    BY <1>4 DEF Rewritten, SameHead, SameFixed
  <2>2. q # ptr
    <3>1. q \in Nat
      BY <2>1, <1>1, FetchSlots
    <3> QED
      BY <2>1, <3>1 DEF EmptyArray
  <2> QED
    BY <2>1, <2>2, <1>1, <1>5 DEF Counting, LinksMore
<1> QED
  BY <1>1, <1>2, <1>5, <1>6, <1>7, FetchGoesOn

\* The steps that make no structure.
LEMMA FetchFlatStep ==
  ASSUME NEW m, NEW at, NEW from, NEW raw, FetchAt(m, at, from, raw), FetchFlat
  PROVE  FetchInv'
<1> DEFINE e == m[from[Item[1]]].els[Item[2]]
           z == Here(mem)
<1>1. /\ todo # << >> /\ Flat(z.val) /\ FetchNext(Fetched(z.val.type, 0), ctx, << >>)
  BY DEF FetchFlat, Fetching
<1>2. CellStored(m, shm, alloc, at, e, z)
  BY <1>1, FetchPlace
<1> HIDE DEF e
<1>3. z.val.type = e.val.type
  BY <1>2 DEF CellStored, ValCopied
<1>4. Flat(e.val)
  BY <1>1, <1>3 DEF Flat
<1>5. ValFetched(m, from, e.val, [type |-> z.val.type, p |-> 0])
  BY <1>3, <1>4 DEF ValFetched
<1> QED
  BY <1>1, <1>5, FetchPlain DEF e
\* An empty array becomes the immutable one.
LEMMA FetchEmptyStep ==
  ASSUME NEW m, NEW at, NEW from, NEW raw, FetchAt(m, at, from, raw), FetchEmpty
  PROVE  FetchInv'
<1> DEFINE e == m[from[Item[1]]].els[Item[2]]
           z == Here(mem)
<1>1. /\ todo # << >> /\ z.val.type = "arr" /\ ToPtr(z.val.p) = alloc
      /\ FetchNext(Fetched("arr", EmptyArray), ctx, << >>)
  BY DEF FetchEmpty, Fetching
<1>2. CellStored(m, shm, alloc, at, e, z) /\ Frame(m, shm, alloc, at)
  BY <1>1, FetchPlace DEF FetchAt, Whole, Block
<1> HIDE DEF e
<1>3. ValCopied(m, alloc, at, e.val, z.val) /\ Places(m, alloc, at)
  BY <1>2 DEF CellStored, Frame
<1>4. z.val.type = e.val.type /\ ~Flat(e.val) /\ e.val.type \in Storable
  BY <1>1, <1>3 DEF ValCopied, Flat
<1>5. IsEmpty(m[e.val.p])
  <2> SUFFICES ASSUME ~IsEmpty(m[e.val.p])
               PROVE  FALSE
    OBVIOUS
  <2>1. e.val.p \in DOMAIN at \ {0} /\ z.val.p = at[e.val.p] - alloc
    BY <1>3, <1>4 DEF ValCopied
  <2>2. at[e.val.p] \in Nat /\ alloc \in Nat /\ at[0] = alloc /\ 0 \in DOMAIN at
    BY <2>1, <1>3 DEF Places
  <2>3. at[e.val.p] = at[0]
    BY <2>1, <2>2, <1>1 DEF ToPtr
  <2> QED
    BY <2>1, <2>2, <2>3, <1>3 DEF Places
<1>6. ValFetched(m, from, e.val, [type |-> "arr", p |-> EmptyArray])
  BY <1>1, <1>4, <1>5 DEF ValFetched
<1> QED
  BY <1>1, <1>6, FetchPlain DEF e

\* A zval that leads to a structure that was copied before.
LEMMA FetchAgainStep ==
  ASSUME NEW m, NEW at, NEW from, NEW raw, FetchAt(m, at, from, raw), FetchAgain
  PROVE  FetchInv'
<1> DEFINE e == m[from[Item[1]]].els[Item[2]]
           z == Here(mem)
           a == ToPtr(z.val.p)
           d == ctx.done[a]
           F == Fetched(z.val.type, d)
           G == AnotherLink(F, d)
           b == NewBucket(z.val.type, d)
<1>1. /\ todo # << >> /\ ~Flat(z.val) /\ ctx.memo /\ a \in DOMAIN ctx.done /\ FetchNext(G, ctx, << >>)
  BY DEF FetchAgain, Fetching, AlreadyCopied
<1>2. /\ IsValue(m) /\ Frame(m, shm, alloc, at) /\ Fetched1(m, shm, at, from, mem, ctx.done, raw)
      /\ todo \in Seq(Nat \X Nat) /\ Once(todo) /\ raw = Members(todo) /\ Counting(mem, raw)
      /\ Names(at, from, mem, ctx.done) /\ Places(m, alloc, at)
  BY DEF FetchAt, Whole, Block, Fetched1, Frame
<1>3. /\ mem' = G /\ ctx' = ctx /\ todo' = << >> \o Tail(todo) /\ UNCHANGED <<input, shm, alloc>>
  BY <1>1 DEF FetchNext, setup
<1>4. Item \in raw /\ Item = Head(todo) /\ CellStored(m, shm, alloc, at, e, z)
  BY <1>1, FetchPlace
<1>5. ValCopied(m, alloc, at, e.val, z.val)
  BY <1>4 DEF CellStored
<1>19. a = alloc + z.val.p
  BY DEF ToPtr
<1> HIDE DEF a, e, z
<1>6. /\ e.val.type = z.val.type /\ ~Flat(e.val) /\ e.val.type \in Storable /\ 0 \in DOMAIN at
      /\ IsEmpty(m[e.val.p]) => a = at[0]
      /\ ~IsEmpty(m[e.val.p]) => e.val.p \in DOMAIN at \ {0} /\ a = at[e.val.p]
  BY <1>1, <1>2, <1>5, <1>19, StoredLeads
<1>7. PICK q \in DOMAIN mem \ {0}: a = at[from[q]] /\ d = q
  BY <1>1, <1>2 DEF Names
<1>8. from[q] \in DOMAIN at \ {0} /\ \A p, t \in DOMAIN at: at[p] = at[t] => p = t
  BY <1>2, <1>7 DEF Names, Places
<1>9. ~IsEmpty(m[e.val.p]) /\ from[q] = e.val.p
  BY <1>6, <1>7, <1>8
<1>10. ValFetched(m, from, e.val, [type |-> z.val.type, p |-> d])
  <2>1. d \in DOMAIN from \ {0} /\ from[d] = e.val.p
    BY <1>2, <1>7, <1>9 DEF Names
  <2> HIDE DEF d
  <2> QED
    BY <2>1, <1>6, <1>9 DEF ValFetched
<1>11. /\ Rewritten(mem, F, Item[1], Item[2], b) /\ IsBucket(b) /\ b.val.p = d
       /\ CellFetched(m, from, m[from[Item[1]]].els[Item[2]], b)
  BY <1>1, <1>10, FetchWrites DEF e
<1> HIDE DEF F, b, d
<1>17. Writes(m, from, mem, raw, Item, b, F)
  BY <1>4, <1>11 DEF Writes
<1>12. Fetched1(m, shm, at, from, F, ctx.done, raw \ {Item}) /\ LinksMore(mem, F, raw, Item, d)
  BY <1>2, <1>11, <1>17, FetchWritten
<1>13. d \in DOMAIN F /\ DOMAIN F = DOMAIN mem /\ \A t \in DOMAIN mem: F[t].rc = mem[t].rc
  BY <1>7, <1>11 DEF Rewritten, SameHead, SameFixed
<1>18. /\ Fetched1(m, shm, at, from, G, ctx.done, raw \ {Item}) /\ CountsMore(F, G, d)
       /\ \A t: Linked(G, raw \ {Item}, t) = Linked(F, raw \ {Item}, t)
  BY <1>12, <1>13, LinkAdded
<1> HIDE DEF G
<1>14. DOMAIN G = DOMAIN F /\ G[d].rc = F[d].rc + 1 /\ \A t \in DOMAIN F: t # d => G[t].rc = F[t].rc
  BY <1>18 DEF CountsMore
<1>15. /\ todo' \in Seq(Nat \X Nat) /\ Once(todo') /\ Members(todo') = raw \ {Item}
  BY <1>1, <1>2, <1>3, <1>4, TailListed
<1>16. Counting(G, raw \ {Item})
  <2> SUFFICES ASSUME NEW t \in DOMAIN G \ {0}
               PROVE  G[t].rc = Cardinality(Linked(G, raw \ {Item}, t))
    BY DEF Counting
  <2>1. t \in DOMAIN mem \ {0} /\ mem[t].rc = Cardinality(Linked(mem, raw, t))
    BY <1>2, <1>13, <1>14 DEF Counting
  <2>2. CASE t # d
    <3>1. Linked(G, raw \ {Item}, t) = Linked(mem, raw, t) /\ G[t].rc = mem[t].rc
      BY <2>1, <2>2, <1>12, <1>13, <1>14, <1>18 DEF LinksMore
    <3> QED
      BY <2>1, <3>1
  <2>3. CASE t = d
    <3>1. Linked(G, raw \ {Item}, t) = Linked(mem, raw, t) \cup {Item} /\ G[t].rc = mem[t].rc + 1
      BY <2>1, <2>3, <1>12, <1>13, <1>14, <1>18 DEF LinksMore
    <3>2. IsFiniteSet(Linked(mem, raw, t)) /\ Item \notin Linked(mem, raw, t)
      <4>1. Linked(mem, raw, t) \subseteq Slots(mem, DOMAIN mem) /\ Item \notin Linked(mem, raw, t)
        BY <1>4 DEF Linked
      <4>2. IsFiniteSet(Slots(mem, DOMAIN mem))
        BY <1>2, FetchSlots
      <4> QED
        BY <4>1, <4>2, FS_Subset
    <3> QED
      BY <2>1, <3>1, <3>2, FS_AddElement
  <2> QED
    BY <2>2, <2>3
<1> QED
  BY <1>1, <1>3, <1>15, <1>16, <1>18, FetchGoesOn

\* Without memoization only a string is fetched, and nothing has been before.
LEMMA FetchAlone ==
  ASSUME NEW m, NEW at, NEW from, NEW raw, FetchAt(m, at, from, raw), todo # << >>, ~ctx.memo
  PROVE  /\ ctx.done = Nothing /\ Item = <<0, 1>> /\ m[from[Item[1]]].els[Item[2]].val = Top
         /\ Top.type \notin {"arr", "ref"} /\ Tail(todo) = << >>
<1>1. /\ IsValue(m) /\ m = input.mem /\ Names(at, from, mem, ctx.done) /\ raw \subseteq Slots(mem, DOMAIN mem)
      /\ Frame(m, shm, alloc, at) /\ Fetched1(m, shm, at, from, mem, ctx.done, raw)
      /\ ctx.done = Nothing /\ Top.type # "arr" /\ todo \in Seq(Nat \X Nat) /\ Once(todo) /\ raw = Members(todo)
  BY DEF FetchAt, Whole, Block, Fetched1
<1>2. Item \in raw /\ Item = Head(todo)
  BY FetchPlace
<1>3. DOMAIN mem = {0} /\ from[0] = 0
  <2>1. 0 \in DOMAIN mem /\ from[0] = 0 /\ DOMAIN ctx.done = {at[from[q]]: q \in DOMAIN mem \ {0}}
    BY <1>1 DEF Names
  <2>2. DOMAIN ctx.done = {}
    BY <1>1 DEF Nothing
  <2>3. \A q \in DOMAIN mem \ {0}: at[from[q]] \in DOMAIN ctx.done
    BY <2>1
  <2> QED
    BY <2>1, <2>2, <2>3
<1>4. DOMAIN mem[0].els = {1}
  <2>1. DOMAIN mem[0].els = DOMAIN m[0].els
    BY <1>1, <1>3, FetchSlots
  <2> QED
    BY <2>1, <1>1, ValueFacts
<1>5. raw \subseteq {<<0, 1>>}
  BY <1>1, <1>3, <1>4 DEF Slots
<1>6. Tail(todo) = << >> /\ Item = <<0, 1>>
  BY <1>1, <1>2, <1>5, OnlyMember
<1>7. Top.type # "ref"
  <2>1. 0 \in DOMAIN m /\ 1 \in DOMAIN m[0].els /\ m[0].kind # "arr"
    BY <1>1, ValueFacts
  <2> QED
    BY <2>1, <1>1, SlotFacts DEF Top
<1> QED
  BY <1>1, <1>3, <1>6, <1>7 DEF Top

\* What is put into request memory for a structure of the block.
Structure(x, y, els) ==
  /\ IsStruct(x) /\ x.rc = 1 /\ x.els = els /\ x.kind = y.kind /\ x.len = y.len /\ x.text = y.text
  /\ x.packed = y.packed /\ x.next = y.next /\ x.pos = y.pos /\ x.static = y.static
\* The fields of a copy with another reference count and other elements.
LEMMA StructureFields ==
  ASSUME NEW y, IsStruct(y), NEW els, NEW x, x = [y EXCEPT !.rc = 1, !.els = els]
  PROVE  Structure(x, y, els)
<1> DEFINE r == [kind |-> y.kind, rc |-> 1, len |-> y.len, text |-> y.text, packed |-> y.packed,
                 next |-> y.next, pos |-> y.pos, static |-> y.static, data |-> y.data, els |-> els]
<1>1. x = r
  BY DEF IsStruct
<1>2. /\ r.rc = 1 /\ r.els = els /\ r.kind = y.kind /\ r.len = y.len /\ r.text = y.text
      /\ r.next = y.next /\ r.pos = y.pos /\ r.data = y.data
  OBVIOUS
<1>3. r.packed = y.packed
  OBVIOUS
<1>4. r.static = y.static
  OBVIOUS
<1>5. IsStruct(r)
  BY DEF IsStruct
<1> HIDE DEF r
<1> QED
  BY <1>1, <1>2, <1>3, <1>4, <1>5 DEF Structure

\* There is the new structure x, and the others' counts are as they were.
Beside(r, G, new, x) ==
  DOMAIN G = DOMAIN r \cup {new} /\ G[new] = x /\ \A q \in DOMAIN r: G[q].rc = r[q].rc

\* An assignment to a zval, after a new structure was put beside it.
LEMMA WrittenBeside ==
  ASSUME NEW r, NEW F, NEW a, NEW i, NEW e, Rewritten(r, F, a, i, e), a \in DOMAIN r,
         NEW new, new \notin DOMAIN r, NEW x, IsStruct(x)
  PROVE  Rewritten(Put(r, new, x), Put(F, new, x), a, i, e) /\ Beside(r, Put(F, new, x), new, x)
<1>1. /\ DOMAIN F = DOMAIN r
      /\ \A b \in DOMAIN r:
           /\ IsStruct(F[b]) /\ SameHead(F[b], r[b]) /\ DOMAIN F[b].els = DOMAIN r[b].els
           /\ \A j \in DOMAIN r[b].els: F[b].els[j] = IF b = a /\ j = i THEN e ELSE r[b].els[j]
  BY DEF Rewritten
<1> DEFINE R == Put(r, new, x)
           G == Put(F, new, x)
<1>2. /\ DOMAIN R = DOMAIN r \cup {new} /\ R[new] = x /\ \A b \in DOMAIN r: R[b] = r[b]
      /\ DOMAIN G = DOMAIN r \cup {new} /\ G[new] = x /\ \A b \in DOMAIN r: G[b] = F[b]
  BY <1>1 DEF Put
<1> HIDE DEF R, G
<1>3. SameHead(x, x) /\ new # a
  BY DEF SameHead, SameFixed
<1>4. Rewritten(R, G, a, i, e)
  <2> SUFFICES ASSUME NEW b \in DOMAIN R
               PROVE  /\ IsStruct(G[b]) /\ SameHead(G[b], R[b]) /\ DOMAIN G[b].els = DOMAIN R[b].els
                      /\ \A j \in DOMAIN R[b].els: G[b].els[j] = IF b = a /\ j = i THEN e ELSE R[b].els[j]
    BY <1>2 DEF Rewritten
  <2>1. CASE b = new
    BY <2>1, <1>2, <1>3
  <2>2. CASE b # new
    <3>1. b \in DOMAIN r /\ R[b] = r[b] /\ G[b] = F[b]
      BY <2>2, <1>2
    <3> QED
      BY <3>1, <1>1
  <2> QED
    BY <2>1, <2>2
<1>5. \A q \in DOMAIN r: G[q].rc = r[q].rc
  BY <1>1, <1>2 DEF SameHead, SameFixed
<1> QED
  BY <1>2, <1>4, <1>5 DEF R, G, Beside

\* The structure the block has at at[p].
LEMMA StructureAlike ==
  ASSUME NEW m, IsValue(m), NEW s, NEW base, NEW at, Whole(m, s, base, at), NEW p \in DOMAIN at, p # 0, NEW x,
         Structure(x, s[at[p]], s[Body(m, at, p)].els)
  PROVE  Alike(m, p, x) /\ x.static \in BOOLEAN /\ (x.kind = "str" => DOMAIN x.els = {})
<1>1. Frame(m, s, base, at) /\ Flags(m, s, at, {}) /\ Header(m, s, base, at, p) /\ Shaped(s)
  BY DEF Whole, Block, Frame
<1>2. at[p] \in DOMAIN s /\ p \in DOMAIN m /\ DOMAIN s[Body(m, at, p)].els = DOMAIN m[p].els
  BY <1>1, Places1
<1>3. /\ s[at[p]].kind = m[p].kind
      /\ m[p].kind = "str" => s[at[p]].len = m[p].len /\ s[at[p]].text = m[p].text
  BY <1>1 DEF Header, KindOf
<1>4. s[at[p]].packed = m[p].packed
  BY <1>1 DEF Header
<1>5. ASSUME m[p].kind = "arr"
      PROVE  FlagsRight(m, p, x, Elements(m[p].els))
  <2>1. Finished(m, p, {}) = Elements(m[p].els)
    BY DEF Finished
  <2>2. FlagsRight(m, p, s[at[p]], Elements(m[p].els))
    BY <1>1, <1>5, <2>1 DEF Flags
  <2>3. x.pos = s[at[p]].pos /\ x.next = s[at[p]].next
    BY DEF Structure
  <2>4. x.static = s[at[p]].static
    BY DEF Structure
  <2> QED
    BY <2>2, <2>3, <2>4 DEF FlagsRight
<1>6. x.kind = m[p].kind /\ x.len = s[at[p]].len /\ x.text = s[at[p]].text /\ x.els = s[Body(m, at, p)].els
  BY <1>3 DEF Structure
<1>7. x.packed = m[p].packed
  BY <1>4 DEF Structure
<1>8. Alike(m, p, x)
  BY <1>2, <1>3, <1>5, <1>6, <1>7 DEF Alike
<1>9. s[at[p]].static \in BOOLEAN
  BY <1>1, <1>2 DEF Shaped
<1>10. x.static = s[at[p]].static
  BY DEF Structure
<1>11. x.kind = "str" => DOMAIN x.els = {}
  <2> SUFFICES ASSUME x.kind = "str"
               PROVE  DOMAIN x.els = {}
    OBVIOUS
  <2>1. DOMAIN m[p].els = {}
    BY <1>2, <1>6, ValueFacts
  <2> QED
    BY <2>1, <1>2, <1>6
<1> QED
  BY <1>8, <1>9, <1>10, <1>11

\* What the zval leads to.
NewFetched(m, at, from, p, z, a) ==
  /\ p \in DOMAIN at /\ p # 0 /\ p \in DOMAIN m /\ a = at[p] /\ at[p] \notin DOMAIN ctx.done
  /\ z.val.type = m[p].kind /\ ~IsEmpty(m[p]) /\ m[p].kind \in Storable
  /\ p = m[from[Item[1]]].els[Item[2]].val.p /\ m[from[Item[1]]].els[Item[2]].val.type = m[p].kind
  /\ ~Flat(m[from[Item[1]]].els[Item[2]].val)
\* A zval that leads to a structure which is not yet in request memory.
LEMMA FetchLeads ==
  ASSUME NEW m, NEW at, NEW from, NEW raw, FetchAt(m, at, from, raw), todo # << >>, NEW a, NEW z, z = Here(mem),
         a = alloc + z.val.p, ~Flat(z.val), a # alloc, ~AlreadyCopied(a)
  PROVE  /\ NewFetched(m, at, from, m[from[Item[1]]].els[Item[2]].val.p, z, a)
         /\ ~ctx.memo => z.val.type = "str"
<1> DEFINE e == m[from[Item[1]]].els[Item[2]]
           p == e.val.p
<1>1. /\ IsValue(m) /\ Frame(m, shm, alloc, at)  /\ Places(m, alloc, at)
  BY DEF FetchAt, Whole, Block, Frame
<1>2. /\ from[Item[1]] \in DOMAIN m /\ Item[2] \in DOMAIN m[from[Item[1]]].els
      /\ ValCopied(m, alloc, at, e.val, z.val)
  BY FetchPlace DEF CellStored
<1>3. ~Flat(e.val) => e.val.type = "indirect" \/ (p \in DOMAIN m \ {0} /\ m[p].kind = e.val.type)
  BY <1>1, <1>2, SlotFacts
<1>4. ~ctx.memo => ctx.done = Nothing /\ e.val.type \notin {"arr", "ref"}
  BY FetchAlone
<1> HIDE DEF e
<1>5. /\ e.val.type = z.val.type /\ ~Flat(e.val) /\ e.val.type \in Storable
      /\ IsEmpty(m[p]) => a = at[0]
      /\ ~IsEmpty(m[p]) => p \in DOMAIN at \ {0} /\ a = at[p]
      /\ alloc = at[0]
  BY <1>1, <1>2, StoredLeads
<1>6. p \in DOMAIN m \ {0} /\ m[p].kind = e.val.type
  BY <1>3, <1>5 DEF Storable
<1>7. a \notin DOMAIN ctx.done
  BY <1>4 DEF AlreadyCopied, Nothing
<1> QED
  BY <1>4, <1>5, <1>6, <1>7 DEF NewFetched, e, Storable

\* Counts after the zval Item leads to the new structure.
LEMMA NewCounted ==
  ASSUME NEW r, NEW R, NEW G, NEW raw, NEW raw2, NEW new \in Nat \ {0}, NEW x, new \notin DOMAIN r, DOMAIN r \subseteq Nat,
         LinksKept(r, R, raw, raw2, new), LinksMore(R, G, raw2, x, new), Counting(r, raw),
         DOMAIN G = DOMAIN r \cup {new}, \A q \in DOMAIN r: G[q].rc = r[q].rc, G[new].rc = 1
  PROVE  Counting(G, raw2 \ {x})
<1> SUFFICES ASSUME NEW q \in DOMAIN G \ {0}
             PROVE  G[q].rc = Cardinality(Linked(G, raw2 \ {x}, q))
  BY DEF Counting
<1>1. q \in Nat \ {0} /\ Linked(R, raw2, q) = Linked(r, raw, q)
  BY DEF LinksKept
<1>2. Linked(G, raw2 \ {x}, q) = IF new = q THEN Linked(R, raw2, q) \cup {x} ELSE Linked(R, raw2, q)
  BY DEF LinksMore
<1>3. CASE q = new
  <2>1. Linked(G, raw2 \ {x}, q) = {x}
    BY <1>1, <1>2, <1>3 DEF LinksKept
  <2> QED
    BY <1>3, <2>1, FS_Singleton
<1>4. CASE q # new
  BY <1>1, <1>2, <1>4 DEF Counting
<1> QED
  BY <1>3, <1>4

\* A structure is fetched for the first time.
LEMMA FetchStructureStep ==
  ASSUME NEW m, NEW at, NEW from, NEW raw, FetchAt(m, at, from, raw), FetchStructure, IsContext(ctx)
  PROVE  FetchInv'
<1> DEFINE z == Here(mem)
           a == ToPtr(z.val.p)
           els == IF z.val.type = "arr" THEN shm[ToPtr(shm[a].data)].els ELSE shm[a].els
           new == Cardinality(DOMAIN mem)
           x == [shm[a] EXCEPT !.rc = 1, !.els = els]
           F == Fetched(z.val.type, new)
           G == Put(F, new, x)
           d2 == Put(ctx.done, a, new)
           p == m[from[Item[1]]].els[Item[2]].val.p
           from2 == Put(from, new, p)
           b == NewBucket(z.val.type, new)
           t == Each(new, els)
           more == {<<new, i>>: i \in DOMAIN els}
           R == Put(mem, new, x)
<1>1. /\ todo # << >> /\ ~Flat(z.val) /\ ~AlreadyCopied(a) /\ a # alloc
      /\ FetchNext(G, [ctx EXCEPT !.done = d2], t)
  BY DEF FetchStructure, Fetching
<1>2. /\ IsValue(m) /\ Frame(m, shm, alloc, at) /\ Fetched1(m, shm, at, from, mem, ctx.done, raw)
      /\ todo \in Seq(Nat \X Nat) /\ Once(todo) /\ raw = Members(todo) /\ Counting(mem, raw)
      /\ Whole(m, shm, alloc, at) /\ m = input.mem /\ Names(at, from, mem, ctx.done) /\ Shaped(shm)
  BY DEF FetchAt, Whole, Block, Fetched1, Frame
<1>3. /\ mem' = G /\ ctx' = [ctx EXCEPT !.done = d2] /\ todo' = t \o Tail(todo)
      /\ UNCHANGED <<input, shm, alloc>>
  BY <1>1 DEF FetchNext, setup
<1>4. a = alloc + z.val.p
  BY DEF ToPtr
<1>5. NewFetched(m, at, from, p, z, a) /\ (~ctx.memo => z.val.type = "str")
  BY <1>1, <1>4, FetchLeads
<1>6. /\ p \in DOMAIN at /\ p # 0 /\ p \in DOMAIN m /\ a = at[p] /\ at[p] \notin DOMAIN ctx.done
      /\ z.val.type = m[p].kind /\ ~IsEmpty(m[p]) /\ m[p].kind \in Storable
  BY <1>5 DEF NewFetched
<1>7. a \in DOMAIN shm /\ IsStruct(shm[a]) /\ els = shm[Body(m, at, p)].els
  <2>1. Header(m, shm, alloc, at, p) /\ at[p] \in DOMAIN shm /\ at[p] \in Nat /\ Places(m, alloc, at)
    BY <1>2, <1>6, Places1 DEF Frame
  <2>2. alloc \in Nat /\ IsStruct(shm[a])
    BY <2>1, <1>2, <1>6 DEF Places, Shaped
  <2>3. CASE m[p].kind = "arr"
    <3>1. shm[a].data = at[p] + HtSize - alloc
      BY <2>1, <2>3, <1>6 DEF Header
    <3>2. ToPtr(shm[a].data) = at[p] + HtSize
      <4> DEFINE d == shm[a].data
      <4>1. d = at[p] + HtSize - alloc
        BY <3>1
      <4>2. at[p] \in Nat /\ alloc \in Nat
        BY <2>1, <2>2
      <4> HIDE DEF d, p
      <4>3. ToPtr(d) = at[p] + HtSize
        BY <4>1, <4>2 DEF ToPtr, HtSize
      <4> QED
        BY <4>3 DEF d
    <3> QED
      BY <2>1, <2>2, <2>3, <3>2, <1>6 DEF Body
  <2>4. CASE m[p].kind # "arr"
    BY <2>1, <2>2, <2>4, <1>6 DEF Body
  <2> QED
    BY <2>3, <2>4
<1> HIDE DEF els
<1>8. Structure(x, shm[a], els)
  BY <1>7, StructureFields
<1>9. x.els = els /\ x.rc = 1 /\ IsStruct(x)
  BY <1>8 DEF Structure
<1> HIDE DEF x, a
<1>10. Alike(m, p, x) /\ x.static \in BOOLEAN /\ (x.kind = "str" => DOMAIN x.els = {})
  BY <1>2, <1>6, <1>7, <1>8, StructureAlike
<1> HIDE DEF new
<1>11. Adds(m, shm, at, p, mem, ctx.done, new, x, more)
  BY <1>6, <1>7, <1>9, <1>10 DEF Adds, new
<1> HIDE DEF more, p
<1>12. /\ new \in Nat \ {0} /\ new \notin DOMAIN mem
       /\ Fetched1(m, shm, at, from2, R, d2, raw \cup more)
       /\ LinksKept(mem, R, raw, raw \cup more, new)
  <2>1. /\ new \in Nat \ {0} /\ new \notin DOMAIN mem
        /\ Fetched1(m, shm, at, Put(from, new, p), Put(mem, new, x), Put(ctx.done, at[p], new), raw \cup more)
        /\ LinksKept(mem, Put(mem, new, x), raw, raw \cup more, new)
    BY <1>2, <1>11, FetchAdds
  <2> QED
    BY <2>1, <1>6
<1>13. /\ Item \in raw /\ Item = Head(todo) /\ Item[1] \in DOMAIN mem /\ Item[2] \in DOMAIN mem[Item[1]].els
  BY <1>1, FetchPlace
<1> DEFINE val == [type |-> z.val.type, p |-> new]
<1>14. DOMAIN from = DOMAIN mem /\ DOMAIN from2 = DOMAIN from \cup {new} /\ from2[new] = p
       /\ from2[Item[1]] = from[Item[1]]
  BY <1>2, <1>12, <1>13 DEF Names, Put
<1>15. ValFetched(m, from2, m[from[Item[1]]].els[Item[2]].val, val)
  <2> DEFINE y == m[from[Item[1]]].els[Item[2]].val
  <2>1. y.p = p /\ y.type = m[p].kind /\ ~Flat(y) /\ z.val.type = m[p].kind
    BY <1>5 DEF NewFetched, p
  <2> HIDE DEF y, from2, z
  <2> QED
    BY <2>1, <1>6, <1>12, <1>14 DEF ValFetched, y
<1>16. /\ Rewritten(mem, F, Item[1], Item[2], b) /\ IsBucket(b) /\ b.val.p = new
       /\ CellFetched(m, from2, m[from[Item[1]]].els[Item[2]], b)
  BY <1>1, <1>15, FetchWrites
<1> HIDE DEF F, b, from2, val
<1>17. Rewritten(R, G, Item[1], Item[2], b) /\ Beside(mem, G, new, x)
  BY <1>9, <1>12, <1>13, <1>16, WrittenBeside
<1>18. Writes(m, from2, R, raw \cup more, Item, b, G)
  BY <1>13, <1>14, <1>16, <1>17 DEF Writes
<1> HIDE DEF R, G, d2
<1>19. /\ Fetched1(m, shm, at, from2, G, d2, (raw \cup more) \ {Item})
       /\ LinksMore(R, G, raw \cup more, Item, new)
  <2>1. /\ Fetched1(m, shm, at, from2, G, d2, (raw \cup more) \ {Item})
        /\ LinksMore(R, G, raw \cup more, Item, b.val.p)
    BY <1>2, <1>12, <1>18, FetchWritten
  <2> QED
    BY <2>1, <1>16
<1>20. Counting(G, (raw \cup more) \ {Item})
  <2>1. DOMAIN mem \subseteq Nat
    BY <1>2, FetchSlots
  <2> QED
    BY <2>1, <1>2, <1>9, <1>12, <1>17, <1>19, NewCounted DEF Beside
<1>21. t \in Seq(Nat \X Nat) /\ Once(t) /\ Members(t) = more
  <2>1. DOMAIN els = DOMAIN m[p].els
    BY <1>2, <1>6, <1>7, Places1
  <2>2. DOMAIN m[p].els = 1..Len(m[p].els) /\ Len(m[p].els) \in Nat
    BY <1>2, <1>6, ValueFacts
  <2> HIDE DEF t
  <2>3. DOMAIN els = 1..Len(m[p].els)
    BY <2>1, <2>2
  <2>4. Each(new, els) \in Seq(Nat \X Nat) /\ Once(Each(new, els)) /\ Members(Each(new, els)) = {<<new, i>>: i \in DOMAIN els}
    BY <2>2, <2>3, <1>12, EachMembers
  <2> QED
    BY <2>4 DEF t, more
<1> HIDE DEF t
<1>22. todo' \in Seq(Nat \X Nat) /\ Once(todo') /\ Members(todo') = (raw \cup more) \ {Item}
  <2>1. more \cap raw = {}
    <3>1. raw \subseteq Slots(mem, DOMAIN mem)
      BY <1>2 DEF Fetched1
    <3> QED
      BY <3>1, <1>12 DEF Slots, more
  <2>2. /\ t \o Tail(todo) \in Seq(Nat \X Nat) /\ Once(t \o Tail(todo))
        /\ Members(t \o Tail(todo)) = Members(t) \cup (Members(todo) \ {Head(todo)})
    BY <2>1, <1>1, <1>2, <1>21, NextMembers
  <2> QED
    BY <2>1, <2>2, <1>2, <1>3, <1>13, <1>21
<1>23. ctx'.done = d2 /\ ctx'.memo = ctx.memo
  BY <1>3, CopyFields
<1>24. ~ctx.memo => todo' = << >>
  <2> SUFFICES ASSUME ~ctx.memo
               PROVE  todo' = << >>
    OBVIOUS
  <2>1. Tail(todo) = << >>
    BY <1>1, FetchAlone
  <2>2. m[p].kind = "str"
    BY <1>5, <1>6
  <2>3. more = {}
    <3>1. DOMAIN els = {}
      BY <2>2, <1>2, <1>6, <1>7, Places1, ValueFacts
    <3> QED
      BY <3>1 DEF more
  <2>4. t = << >>
    BY <2>3, <1>21, NoMembers
  <2> QED
    BY <2>1, <2>4, <1>3
<1>25. /\ UNCHANGED <<input, shm, alloc>> /\ (raw \cup more) \ {Item} = Members(todo')
       /\ todo' \in Seq(Nat \X Nat) /\ Once(todo')
  BY <1>3, <1>22
<1>26. /\ Fetched1(m, shm, at, from2, mem', ctx'.done, (raw \cup more) \ {Item})
       /\ Counting(mem', (raw \cup more) \ {Item})
  BY <1>3, <1>19, <1>20, <1>23
<1>27. ~ctx.memo => todo' = << >> \/ ctx'.done = Nothing
  BY <1>24
<1> HIDE DEF more
<1> QED
  BY <1>25, <1>26, <1>27, <1>23, FetchGoesOn

\* A fetch begins with the zval of the entry.
LEMMA FetchBegins ==
  ASSUME StartInv, StoredInv, FetchStart
  PROVE  FetchInv'
<1> DEFINE x == [Blank EXCEPT !.els = shm[alloc].els]
           r == Put(Nothing, 0, x)
           from == Put(Nothing, 0, 0)
           raw == {<<0, 1>>}
           m == input.mem
<1>1. /\ phase = "stored" /\ Stored.type # "ptr" /\ mem' = r /\ ctx' = Context(Stored.type = "arr", FALSE)
      /\ todo' = <<<<0, 1>>>> /\ UNCHANGED <<input, shm, alloc>>
  BY DEF FetchStart, setup
<1>2. IsValue(m)
  BY InputIsValue DEF StartInv
<1>3. PICK at: Whole(m, shm, alloc, at)
  <2>1. ~SerialStored(shm, alloc)
    BY <1>1, SerialTop
  <2> QED
    BY <2>1, <1>1 DEF StoredInv
<1> HIDE DEF m
<1>4. /\ Stored.type = Top.type /\ 0 \in DOMAIN at /\ at[0] = alloc /\ alloc \in DOMAIN shm
      /\ Body(m, at, 0) = alloc /\ DOMAIN shm[alloc].els = {1}
  BY <1>2, <1>3, StoredTop DEF m
<1>5. Frame(m, shm, alloc, at) /\ Shaped(shm)
  BY <1>3 DEF Whole, Block, Frame
<1>6. /\ IsStruct(x) /\ x.kind = "zval" /\ x.els = shm[alloc].els
  <2>1. IsStruct(x)
    BY BlankFields DEF IsStruct
  <2>2. x.kind = "zval" /\ x.els = shm[alloc].els
    BY DEF Blank
  <2> QED
    BY <2>1, <2>2
<1>7. x.packed = FALSE
  BY DEF Blank
<1>8. x.static = TRUE
  BY DEF Blank
<1> HIDE DEF x
<1>9. DOMAIN r = {0} /\ r[0] = x /\ DOMAIN from = {0} /\ from[0] = 0 /\ DOMAIN Nothing = {}
  BY DEF Put, Nothing
<1> HIDE DEF r, from
<1>10. Names(at, from, r, Nothing)
  <2>1. DOMAIN r = 0..0 /\ 0 \in Nat
    BY <1>9
  <2>2. DOMAIN Nothing = {at[from[q]]: q \in DOMAIN r \ {0}}
    BY <1>9
  <2> QED
    BY <2>1, <2>2, <1>4, <1>9 DEF Names
<1>11. Shaped(r)
  <2>1. \A i \in DOMAIN x.els: IsBucket(x.els[i])
    BY <1>4, <1>5, <1>6 DEF Shaped
  <2>2. x.static \in BOOLEAN
    BY <1>8
  <2>3. DOMAIN r \subseteq Nat /\ x.kind # "str"
    BY <1>6, <1>9
  <2> QED
    BY <2>1, <2>2, <2>3, <1>6, <1>9 DEF Shaped
<1>12. \A q \in DOMAIN r: Alike(m, from[q], r[q])
  <2>1. m[0].kind = "zval" /\ DOMAIN m[0].els = {1} /\ m[0].packed \in BOOLEAN /\ ~m[0].packed /\ 0 \in DOMAIN m
    BY <1>2, ValueFacts
  <2>2. Alike(m, 0, x)
    BY <2>1, <1>4, <1>6, <1>7 DEF Alike
  <2> QED
    BY <2>2, <1>9
<1>13. Cells(m, shm, at, from, r, raw)
  <2> SUFFICES ASSUME NEW q \in DOMAIN r, NEW i \in DOMAIN r[q].els
               PROVE  <<q, i>> \in raw /\ r[q].els[i] = shm[Body(m, at, from[q])].els[i]
    BY DEF Cells
  <2> QED
    BY <1>4, <1>6, <1>9
<1>14. raw \subseteq Slots(r, DOMAIN r)
  BY <1>4, <1>6, <1>9 DEF Slots
<1>15. Fetched1(m, shm, at, from, r, Nothing, raw)
  BY <1>10, <1>11, <1>12, <1>13, <1>14 DEF Fetched1
<1>16. ctx'.done = Nothing /\ ctx'.memo = (Stored.type = "arr")
  <2> DEFINE memo == Stored.type = "arr"
  <2>1. memo \in BOOLEAN
    OBVIOUS
  <2>2. ctx' = Context(memo, FALSE)
    BY <1>1
  <2> HIDE DEF memo
  <2>3. ctx'.done = Nothing /\ ctx'.memo = memo
    BY <2>1, <2>2, ContextFields
  <2> QED
    BY <2>3 DEF memo
<1>17. todo' \in Seq(Nat \X Nat) /\ Once(todo') /\ Members(todo') = raw
  <2>1. <<0, 1>> \in Nat \X Nat
    OBVIOUS
  <2> QED
    BY <2>1, <1>1, OneMember
<1>18. Counting(r, raw)
  BY <1>9 DEF Counting
<1>19. FetchAt(m, at, from, raw)'
  <2>1. ~ctx'.memo => Top.type # "arr"
    BY <1>4, <1>16
  <2> QED
    BY <2>1, <1>1, <1>2, <1>3, <1>15, <1>16, <1>17, <1>18 DEF FetchAt, m, Top
<1> QED
  BY <1>17, <1>19 DEF FetchInv, FetchAt

\* A serialized value is there at once, or lost.
LEMMA FetchSerializedBegins ==
  ASSUME StartInv, StoredInv, FetchSerialized
  PROVE  FetchInv'
<1>1. /\ phase = "stored" /\ Stored.type = "ptr" /\ UNCHANGED <<input, shm, alloc, early>> /\ todo' = todo
      /\ \E z \in {shm[ToPtr(Stored.p)].text.of, [type |-> "long", p |-> 0]}:
           mem' = Put(Nothing, 0, [Blank EXCEPT !.els = <<Bucket(z)>>])
      /\ UNCHANGED serializer
  BY DEF FetchSerialized, setup
<1>2. todo = << >> /\ IsValue(input.mem)
  BY <1>1, InputIsValue DEF StartInv, SetupInv
<1>3. SerialStored(shm, alloc)
  <2>1. \A at: ~Whole(input.mem, shm, alloc, at)
    BY <1>1, <1>2, StoredTop
  <2> QED
    BY <2>1, <1>1 DEF StoredInv
<1>4. shm[ToPtr(Stored.p)].text.of = Top
  BY <1>3, SerialTop
<1>5. PICK z \in {Top, [type |-> "long", p |-> 0]}: mem' = Put(Nothing, 0, [Blank EXCEPT !.els = <<Bucket(z)>>])
  BY <1>1, <1>4
<1>6. DOMAIN mem' = {0} /\ mem'[0] = [Blank EXCEPT !.els = <<Bucket(z)>>]
  BY <1>5 DEF Put, Nothing
<1>7. mem'[0].els = <<Bucket(z)>>
  BY <1>6 DEF Blank
<1>8. Bucket(z).val = z
  BY DEF Bucket
<1>9. mem'[0].els[1].val = z
  BY <1>7, <1>8
<1>10. Result' = z
  BY <1>9 DEF Result
<1>11. SerialStored(shm, alloc)'
  BY <1>1, <1>3 DEF SerialStored, Format, Top
<1>12. Top' = Top
  BY <1>1 DEF Top
<1>13. FetchSerial'
  BY <1>1, <1>2, <1>6, <1>7, <1>10, <1>11, <1>12 DEF FetchSerial
<1> QED
  BY <1>13 DEF FetchInv

\* The actions together.
LEMMA FetchNextStep ==
  ASSUME StartInv, StoredInv, FetchInv, [Next]_vars
  PROVE  FetchInv'
<1>1. CASE FetchStart
  BY <1>1, FetchBegins
<1>2. CASE FetchSerialized
  BY <1>2, FetchSerializedBegins
<1>3. CASE Fetch
  <2>1. phase = "fetch" /\ todo # << >>
    BY <1>3 DEF Fetch, FetchFlat, FetchAgain, FetchEmpty, FetchStructure, Fetching
  <2>2. PICK at, from: FetchAt(input.mem, at, from, Members(todo))
    BY <2>1 DEF FetchInv, FetchSerial
  <2>3. IsContext(ctx)
    BY DEF StartInv, SetupInv
  <2> QED
    BY <1>3, <2>2, <2>3, FetchFlatStep, FetchAgainStep, FetchEmptyStep, FetchStructureStep DEF Fetch
<1>4. CASE UNCHANGED vars
  <2>1. UNCHANGED <<input, shm, alloc, mem, ctx, todo, phase, early, serializer>>
    BY <1>4 DEF vars
  <2>2. FetchSerial => FetchSerial'
    BY <2>1 DEF FetchSerial, SerialStored, Result, Top, Format
  <2>3. \A at, from: FetchAt(input.mem, at, from, Members(todo)) => FetchAt(input.mem, at, from, Members(todo))'
    BY <2>1 DEF FetchAt, Top, Members
  <2> QED
    BY <2>1, <2>2, <2>3 DEF FetchInv
<1>5. CASE ~(FetchStart \/ FetchSerialized \/ Fetch \/ UNCHANGED vars)
  <2>1. Next
    BY <1>5
  <2>2. ASSUME phase' = "fetch"
        PROVE  FALSE
    BY <1>5, <2>1, <2>2 DEF Next, Minit, RegisterExternal, Rinit, PersistCalc, Calc, PersistRetry, PersistAlloc,
       PersistNoMemory, Copy, PersistEnd, Relocate, Continue, CalcFlat, CalcIndirect, CalcSerialize, CalcAgain,
       CalcStructure, CalcRefused, CalcNext, CalcFail, CopyBucket, CopyFlat, CopySerialized, CopyAgain, CopyZstr,
       CopyEmpty, CopyHt, CopyRef, CopyNext, Calculating, setup
  <2> QED
    BY <2>2 DEF FetchInv
<1> QED
  BY <1>1, <1>2, <1>3, <1>4, <1>5

-----------------------------------------------------------------------------
(* Everything together *)

PersistInv == CopyingInv /\ StoredInv /\ FetchInv

\* The invariant of the whole module: a value as it is, counted, copied, stored and fetched,
\* or serialized (apc_persist.c).
THEOREM PersistHolds == Spec => []PersistInv
<1>1. Init => FetchInv
  BY DEF Init, FetchInv
<1>2. CopyingInv /\ StoredInv /\ FetchInv /\ [Next]_vars => FetchInv'
  BY FetchNextStep DEF CopyingInv
<1>3. Spec => [](CopyingInv /\ StoredInv)
  BY StoredHolds
<1> QED
  BY <1>1, <1>2, <1>3, PTL DEF Spec, PersistInv

\* The links that are counted are the zvals that lead to a structure.
LEMMA LinksAreLinked ==
  ASSUME NEW q, Shaped(mem), \A r \in DOMAIN mem: \A i \in DOMAIN mem[r].els: i \in Nat
  PROVE  Links(q) = Linked(mem, {}, q)
<1>1. \A y: y \in Links(q) <=> \E r \in DOMAIN mem: \E i \in DOMAIN mem[r].els: y = <<r, i>> /\ mem[r].els[i].val.p = q
  BY DEF Links
<1>2. \A y: y \in Linked(mem, {}, q) <=>
            \E r \in DOMAIN mem: \E i \in DOMAIN mem[r].els: y = <<r, i>> /\ mem[r].els[i].val.p = q
  <2> SUFFICES ASSUME NEW y
               PROVE  y \in Linked(mem, {}, q) <=>
                        \E r \in DOMAIN mem: \E i \in DOMAIN mem[r].els: y = <<r, i>> /\ mem[r].els[i].val.p = q
    OBVIOUS
  <2>1. ASSUME y \in Linked(mem, {}, q)
        PROVE  \E r \in DOMAIN mem: \E i \in DOMAIN mem[r].els: y = <<r, i>> /\ mem[r].els[i].val.p = q
    BY <2>1 DEF Linked, Slots
  <2>2. ASSUME NEW r \in DOMAIN mem, NEW i \in DOMAIN mem[r].els, y = <<r, i>>, mem[r].els[i].val.p = q
        PROVE  y \in Linked(mem, {}, q)
    <3>1. y[1] = r /\ y[2] = i /\ i \in Nat
      BY <2>2
    <3> QED
      BY <2>2, <3>1 DEF Linked, Slots
  <2> QED
    BY <2>1, <2>2
<1> QED
  BY <1>1, <1>2

\* A fetch that has come to its end, of a value that was stored as it is.
LEMMA FetchDone ==
  ASSUME PersistInv, Done, Stored.type # "ptr"
  PROVE  \E at, from: FetchAt(input.mem, at, from, {}) /\ todo = << >>
<1>1. phase = "fetch" /\ todo = << >>
  BY DEF Done
<1>2. PICK at, from: FetchAt(input.mem, at, from, Members(todo))
  BY <1>1, SerialTop DEF PersistInv, FetchInv, FetchSerial
<1>3. Members(todo) = {}
  BY <1>1, <1>2, NoMembers DEF FetchAt
<1> QED
  BY <1>1, <1>2, <1>3

\* The reference counts of what a fetch makes are right (apc_persist.c:729).
THEOREM LinksCountedHolds == Spec => []LinksCounted
<1>1. ASSUME PersistInv
      PROVE  LinksCounted
  <2> SUFFICES ASSUME Done, Stored.type # "ptr", NEW q \in DOMAIN mem \ {0}
               PROVE  mem[q].rc = Cardinality(Links(q))
    BY DEF LinksCounted
  <2>1. PICK at, from: FetchAt(input.mem, at, from, {})
    BY <1>1, FetchDone
  <2>2. mem[q].rc = Cardinality(Linked(mem, {}, q))
    BY <2>1 DEF FetchAt, Counting
  <2>3. Shaped(mem) /\ \A r \in DOMAIN mem: \A i \in DOMAIN mem[r].els: i \in Nat
    BY <2>1, FetchSlots DEF FetchAt, Fetched1, Whole, Block
  <2> QED
    BY <2>2, <2>3, LinksAreLinked
<1> QED
  BY <1>1, PersistHolds, PTL

\* What is in a list is a member of it.
LEMMA InMembers ==
  ASSUME NEW E, NEW s \in Seq(E), NEW j \in DOMAIN s
  PROVE  s[j] \in Members(s)
<1>1. DOMAIN s = 1..Len(s)
  OBVIOUS
<1> QED
  BY <1>1 DEF Members

\* Where the first pass has yet to come to.
LEMMA CalcPositions ==
  ASSUME PersistInv, phase \in {"calc", "recalc"}, NEW j \in DOMAIN todo
  PROVE  todo[j][1] \in DOMAIN input.mem /\ todo[j][2] \in DOMAIN input.mem[todo[j][1]].els
<1>1. StartInv /\ IsValue(input.mem)
  BY InputIsValue DEF PersistInv, CopyingInv, StartInv
<1>2. CASE ctx.ser
  <2>1. todo \in {<< >>, <<<<0, 1>>>>}
    BY <1>1, <1>2 DEF StartInv, SerializeInv
  <2>2. j = 1 /\ todo[j] = <<0, 1>>
    BY <2>1
  <2> QED
    BY <2>2, <1>1, ValueFacts
<1>3. CASE ~ctx.ser
  <2>1. todo \in Seq(Nat \X Nat) /\ Pass(input.mem, ctx.counted, Members(todo), ctx.size)
    BY <1>1, <1>3 DEF StartInv, CalcInv
  <2>2. todo[j] \in Members(todo)
    BY <2>1, InMembers
  <2> DEFINE m == input.mem
             R == Members(todo)
             x == todo[j]
             S == ctx.counted
             n == ctx.size
  <2>3. IsValue(m) /\ Pass(m, S, R, n) /\ x \in R
    BY <1>1, <2>1, <2>2
  <2> HIDE DEF m, R, x, S, n
  <2>4. /\ x = <<x[1], x[2]>> /\ x[1] \in S \cup {0} /\ x[1] \in DOMAIN m /\ x[2] \in DOMAIN m[x[1]].els
        /\ S \subseteq DOMAIN m /\ 0 \notin S /\ n \in Nat /\ x \in Slots(m, S \cup {0})
    BY <2>3, PassItem
  <2> QED
    BY <2>4 DEF m, x
<1> QED
  BY <1>2, <1>3

\* The copy.
LEMMA CopyPositions ==
  ASSUME PersistInv, phase \in {"copy", "value"}
  PROVE  /\ DOMAIN shm \subseteq Nat
         /\ \A j \in DOMAIN todo: todo[j][1] \in DOMAIN shm /\ todo[j][2] \in DOMAIN shm[todo[j][1]].els
<1>1. StartInv /\ IsValue(input.mem) /\ CopyInv /\ SerialInv /\ alloc \in Nat
  BY InputIsValue, BaseAssumption DEF PersistInv, CopyingInv, StartInv, SetupInv, InBlock
<1>2. CASE ctx.ser
  <2>1. CASE shm = Put(Nothing, alloc, Entry) /\ todo = <<<<alloc, 1>>>>
    <3>1. DOMAIN shm = {alloc} /\ shm[alloc] = Entry
      BY <2>1 DEF Put, Nothing
    <3>2. DOMAIN shm[alloc].els = {1}
      BY <3>1, <1>1, EntryFields
    <3>3. \A j \in DOMAIN todo: todo[j] = <<alloc, 1>>
      BY <2>1
    <3> QED
      BY <3>1, <3>2, <3>3, <1>1
  <2>2. CASE todo = << >> /\ Serialized(shm, alloc, ctx.str)
    <3>1. DOMAIN shm = {alloc, alloc + EntrySize} /\ DOMAIN todo = {}
      BY <2>2 DEF Serialized
    <3> QED
      BY <3>1, <1>1, SizeAssumption
  <2> QED
    BY <1>1, <1>2, <2>1, <2>2 DEF SerialInv
<1>3. CASE ~ctx.ser
  <2> DEFINE m == input.mem
             at == At(alloc, ctx.done)
  <2>1. PICK raw, rk: Half(m, alloc, shm, ctx.done, ctx.cur, raw, rk) /\ Lists(m, at, todo, raw)
    BY <1>1, <1>3 DEF CopyInv
  <2>2. Frame(m, shm, alloc, at) /\ raw \subseteq Slots(m, DOMAIN at)
    BY <1>1, <2>1, HalfFacts DEF Basics
  <2> HIDE DEF m, at
  <2>3. DOMAIN shm \subseteq Nat
    BY <2>2 DEF Frame, Shaped
  <2>4. ASSUME NEW j \in DOMAIN todo
        PROVE  todo[j][1] \in DOMAIN shm /\ todo[j][2] \in DOMAIN shm[todo[j][1]].els
    <3>1. todo[j] \in Members(todo) /\ Members(todo) = {<<Body(m, at, x[1]), x[2]>>: x \in raw}
      BY <2>1, <2>4, InMembers DEF Lists
    <3>2. PICK x \in raw: todo[j] = <<Body(m, at, x[1]), x[2]>>
      BY <3>1
    <3>3. Body(m, at, x[1]) \in DOMAIN shm /\ x[2] \in DOMAIN shm[Body(m, at, x[1])].els
      BY <2>2, <1>1, CellFacts DEF m
    <3> QED
      BY <3>2, <3>3
  <2> QED
    BY <2>3, <2>4
<1> QED
  BY <1>2, <1>3

\* The fetch.
LEMMA FetchPositions ==
  ASSUME PersistInv, phase = "fetch"
  PROVE  /\ DOMAIN mem \subseteq Nat
         /\ \A j \in DOMAIN todo: todo[j][1] \in DOMAIN mem /\ todo[j][2] \in DOMAIN mem[todo[j][1]].els
<1>1. CASE FetchSerial
  BY <1>1 DEF FetchSerial
<1>2. CASE \E at, from: FetchAt(input.mem, at, from, Members(todo))
  <2>1. PICK at, from: FetchAt(input.mem, at, from, Members(todo))
    BY <1>2
  <2>2. Shaped(mem) /\ Members(todo) \subseteq Slots(mem, DOMAIN mem) /\ todo \in Seq(Nat \X Nat)
    BY <2>1 DEF FetchAt, Fetched1
  <2>3. \A j \in DOMAIN todo: todo[j] \in Members(todo)
    BY <2>2, InMembers
  <2> QED
    BY <2>2, <2>3 DEF Shaped, Slots
<1> QED
  BY <1>1, <1>2 DEF PersistInv, FetchInv

\* The block.
LEMMA BlockAddresses ==
  ASSUME PersistInv, phase \in {"stored", "fetch"}
  PROVE  DOMAIN shm \subseteq Nat
<1>1. alloc \in Nat
  BY BaseAssumption DEF PersistInv, CopyingInv, StartInv, SetupInv, InBlock
<1>2. CASE SerialStored(shm, alloc)
  BY <1>1, <1>2, SizeAssumption DEF SerialStored, Serialized
<1>3. CASE \E at: Whole(input.mem, shm, alloc, at)
  BY <1>3 DEF Whole, Block, Frame, Shaped
<1> QED
  BY <1>2, <1>3 DEF PersistInv, StoredInv

\* The variables have their types and a pass only comes to zvals that are there.
THEOREM PersistTypeOK == Spec => []TypeOK
<1>1. ASSUME PersistInv
      PROVE  TypeOK
  <2>1. SetupInv
    BY <1>1 DEF PersistInv, CopyingInv, StartInv
  <2>2. serializer \in registered \cup {None}
    BY <2>1 DEF SetupInv
  <2>3. DOMAIN Nothing = {}
    BY DEF Nothing
  <2>4. DOMAIN shm \subseteq Nat
    BY <1>1, <2>1, <2>3, CopyPositions, BlockAddresses DEF SetupInv, InBlock
  <2>5. DOMAIN mem \subseteq Nat
    BY <1>1, <2>1, <2>3, FetchPositions DEF SetupInv
  <2>6. ASSUME NEW j \in DOMAIN todo
        PROVE  todo[j][1] \in DOMAIN Memory /\ todo[j][2] \in DOMAIN Memory[todo[j][1]].els
    <3>1. CASE phase \in {"calc", "recalc"}
      BY <1>1, <3>1, <2>6, CalcPositions DEF Memory
    <3>2. CASE phase \in {"copy", "value"}
      BY <1>1, <3>2, <2>6, CopyPositions DEF Memory
    <3>3. CASE phase = "fetch"
      BY <1>1, <3>3, <2>6, FetchPositions DEF Memory
    <3>4. CASE phase \in {"minit", "idle", "again", "failed", "stored"}
      BY <2>1, <2>6, <3>4 DEF SetupInv
    <3> QED
      BY <3>1, <3>2, <3>3, <3>4, <2>1 DEF SetupInv
  <2> QED
    BY <2>1, <2>2, <2>4, <2>5, <2>6 DEF SetupInv, TypeOK
<1> QED
  BY <1>1, PersistHolds, PTL

-----------------------------------------------------------------------------
(* The value comes back *)

\* The pairs a fetch stands for: a structure and its copy, an empty array and the immutable one.
Matching(m, from, r) ==
  {<<from[q], q>>: q \in DOMAIN r} \cup {<<p, EmptyArray>>: p \in {t \in DOMAIN m: IsEmpty(m[t])}}
\* A fetch that is done.
Fetched2(m, at, from) ==
  m = input.mem /\ IsValue(m) /\ Whole(m, shm, alloc, at) /\ (\E done: Fetched1(m, shm, at, from, mem, done, {}))

\* What is known of a structure of request memory.
LEMMA CopyFacts ==
  ASSUME NEW m, NEW at, NEW from, Fetched2(m, at, from), NEW q \in DOMAIN mem
  PROVE  /\ q \in Nat /\ q # EmptyArray /\ from[q] \in DOMAIN m /\ ~IsEmpty(m[from[q]])
         /\ Alike(m, from[q], mem[q]) /\ DOMAIN mem[q].els = DOMAIN m[from[q]].els
         /\ \A i \in DOMAIN mem[q].els: CellFetched(m, from, m[from[q]].els[i], mem[q].els[i])
         /\ \A t \in DOMAIN mem: from[q] = from[t] => q = t
         /\ DOMAIN from = DOMAIN mem
<1>1. PICK done: Fetched1(m, shm, at, from, mem, done, {})
  BY DEF Fetched2
<1>2. IsValue(m) /\ Frame(m, shm, alloc, at) /\ Places(m, alloc, at)
  BY DEF Fetched2, Whole, Block, Frame
<1>3. q \in Nat /\ from[q] \in DOMAIN m /\ DOMAIN mem[q].els = DOMAIN m[from[q]].els
  BY <1>1, <1>2, FetchSlots
<1>4. q # EmptyArray
  BY <1>3 DEF EmptyArray
<1>5. Names(at, from, mem, done) /\ Alike(m, from[q], mem[q]) /\ Cells(m, shm, at, from, mem, {})
  BY <1>1 DEF Fetched1
<1>6. ~IsEmpty(m[from[q]])
  <2>1. CASE from[q] = 0
    BY <2>1, <1>2, ValueFacts DEF IsEmpty
  <2>2. CASE from[q] # 0
    BY <2>2, <1>2, <1>5 DEF Names, Places
  <2> QED
    BY <2>1, <2>2
<1>7. \A i \in DOMAIN mem[q].els: CellFetched(m, from, m[from[q]].els[i], mem[q].els[i])
  BY <1>5 DEF Cells
<1>8. (\A t \in DOMAIN mem: from[q] = from[t] => q = t) /\ DOMAIN from = DOMAIN mem
  BY <1>5 DEF Names
<1> QED
  BY <1>3, <1>4, <1>5, <1>6, <1>7, <1>8

\* From a pair the zvals lead to pairs.
LEMMA MatchingCloses ==
  ASSUME NEW m, NEW at, NEW from, Fetched2(m, at, from), NEW pair \in Matching(m, from, mem)
  PROVE  Beyond(pair) \subseteq Matching(m, from, mem)
<1>1. CASE pair[2] = EmptyArray
  BY <1>1 DEF Beyond
<1>2. CASE pair[2] # EmptyArray
  <2>1. PICK q \in DOMAIN mem: pair = <<from[q], q>>
    BY <1>2 DEF Matching
  <2>2. /\ from[q] \in DOMAIN m /\ DOMAIN mem[q].els = DOMAIN m[from[q]].els /\ DOMAIN from = DOMAIN mem
        /\ \A i \in DOMAIN mem[q].els: CellFetched(m, from, m[from[q]].els[i], mem[q].els[i])
    BY CopyFacts
  <2>3. IsValue(m) /\ m = input.mem
    BY DEF Fetched2
  <2> DEFINE old == m[from[q]].els
             new == mem[q].els
  <2>4. Beyond(pair) = {<<old[i].val.p, new[i].val.p>>:
          i \in {j \in (DOMAIN old) \cap (DOMAIN new): ~Flat(old[j].val) /\ old[j].val.type = new[j].val.type}}
    BY <1>2, <2>1, <2>3 DEF Beyond
  <2>5. ASSUME NEW i \in DOMAIN old, i \in DOMAIN new, ~Flat(old[i].val)
        PROVE  <<old[i].val.p, new[i].val.p>> \in Matching(m, from, mem)
    <3> DEFINE y == old[i].val
               z == new[i].val
    <3>1. ValFetched(m, from, y, z)
      BY <2>2, <2>5 DEF CellFetched
    <3>2. y.type = "indirect" \/ y.p \in DOMAIN m \ {0}
      BY <2>2, <2>3, <2>5, SlotFacts
    <3>3. ~Flat(y)
      BY <2>5
    <3> HIDE DEF y, z
    <3>4. y.p \in DOMAIN m
      BY <3>1, <3>2, <3>3 DEF ValFetched, Storable
    <3>5. IF IsEmpty(m[y.p]) THEN z.p = EmptyArray ELSE z.p \in DOMAIN from \ {0} /\ from[z.p] = y.p
      BY <3>1, <3>3 DEF ValFetched
    <3>6. <<y.p, z.p>> \in Matching(m, from, mem)
      BY <3>4, <3>5, <2>2 DEF Matching
    <3> QED
      BY <3>6 DEF y, z
  <2> HIDE DEF old, new
  <2> QED
    BY <2>4, <2>5
<1> QED
  BY <1>1, <1>2

\* The pairs that are found go on from pairs that were found.
IsWithin(f) ==
  f = [n \in 0..Most |-> IF n = 0 THEN {<<0, 0>>} ELSE f[n - 1] \cup UNION {Beyond(pair): pair \in f[n - 1]}]
\* Within is such a function.
LEMMA WithinIs == Within = CHOOSE f: IsWithin(f)
BY DEF Within, IsWithin

Follow(s) == s \cup UNION {Beyond(pair): pair \in s}

\* Pairs lead to pairs of R, if R has all that its own lead to.
LEMMA PairsStay ==
  ASSUME NEW R, <<0, 0>> \in R, \A pair \in R: Beyond(pair) \subseteq R, Most \in Nat
  PROVE  Pairs \subseteq R
<1> DEFINE n == Most
           X == SUBSET R
           x0 == {<<0, 0>>}
           G == [x \in (1..n) \X X |-> Follow(x[2])]
<1>1. \A s \in X: Follow(s) \in X
  BY DEF Follow
<1>2. n \in Nat /\ x0 \in X
  OBVIOUS
<1> HIDE DEF X
<1>3. G \in Rules(X, n) /\ \A i \in 1..n, s \in X: G[<<i, s>>] = Follow(s)
  BY <1>1 DEF Rules
<1> HIDE DEF n, x0, G
<1>4. Iteration(X, x0, n, G)
  BY <1>2, <1>3, IterationExists
<1>5. PICK f \in [0..n -> X]: f[0] = x0 /\ \A i \in 1..n: f[i] = G[<<i, f[i - 1]>>]
  BY <1>4 DEF Iteration
<1>6. ASSUME NEW i \in 1..n
      PROVE  f[i] = Follow(f[i - 1])
  <2>1. i - 1 \in 0..n
    BY <1>2
  <2> QED
    BY <2>1, <1>3, <1>5
<1>7. f = [i \in 0..n |-> IF i = 0 THEN x0 ELSE Follow(f[i - 1])]
  <2>1. \A i \in 0..n: i # 0 => i \in 1..n
    BY <1>2
  <2> QED
    BY <2>1, <1>5, <1>6
<1>8. IsWithin(f)
  BY <1>7 DEF IsWithin, Follow, n, x0
<1>9. IsWithin(Within)
  BY <1>8, WithinIs
<1> DEFINE W == Within
<1>10. W = [i \in 0..n |-> IF i = 0 THEN x0 ELSE Follow(W[i - 1])]
  BY <1>9 DEF IsWithin, Follow, n, x0
<1> HIDE DEF W
<1>11. \A i \in 0..n: W[i] \in X
  <2> DEFINE T == {i \in Nat: i <= n => W[i] \in X}
  <2>1. 0 \in T
    BY <1>2, <1>10
  <2>2. ASSUME NEW i \in Nat, i \in T PROVE i + 1 \in T
    <3>1. SUFFICES ASSUME i + 1 <= n PROVE W[i + 1] \in X
      OBVIOUS
    <3>2. i + 1 \in 0..n /\ (i + 1) - 1 = i /\ i + 1 # 0 /\ W[i] \in X
      BY <1>2, <2>2, <3>1
    <3>3. W[i + 1] = Follow(W[(i + 1) - 1])
      BY <1>10, <3>2
    <3> QED
      BY <1>1, <3>2, <3>3
  <2> HIDE DEF T
  <2>3. Nat \subseteq T
    BY <2>1, <2>2, FromZero
  <2> QED
    BY <2>3, <1>2 DEF T
<1>12. n \in 0..n
  BY <1>2
<1> QED
  BY <1>11, <1>12 DEF Pairs, W, n, X

\* The pairs of a fetch that is done.
LEMMA PairsMatch ==
  ASSUME NEW m, NEW at, NEW from, Fetched2(m, at, from)
  PROVE  Pairs \subseteq Matching(m, from, mem)
<1>1. PICK done: Fetched1(m, shm, at, from, mem, done, {})
  BY DEF Fetched2
<1>2. IsValue(m) /\ Frame(m, shm, alloc, at) /\ m = input.mem
  BY DEF Fetched2, Whole, Block
<1>3. IsFiniteSet(DOMAIN m) /\ IsFiniteSet(DOMAIN mem)
  BY <1>1, <1>2, ValueFacts, FetchSlots
<1>4. Most \in Nat
  <2> DEFINE a == Cardinality(DOMAIN m)
             b == Cardinality(DOMAIN mem)
  <2>1. a \in Nat /\ b \in Nat
    BY <1>3, FS_CardinalityType
  <2> HIDE DEF a, b
  <2>2. a * b \in Nat
    BY <2>1
  <2> QED
    BY <2>2, <1>2 DEF Most, a, b
<1>5. 0 \in DOMAIN mem /\ from[0] = 0
  BY <1>1 DEF Fetched1, Names
<1>6. <<0, 0>> \in Matching(m, from, mem)
  BY <1>5 DEF Matching
<1>7. \A pair \in Matching(m, from, mem): Beyond(pair) \subseteq Matching(m, from, mem)
  BY MatchingCloses
<1> QED
  BY <1>4, <1>6, <1>7, PairsStay

\* The copy of an array appends where it should.
LEMMA AppendsBehind ==
  ASSUME NEW m, NEW p, NEW x, m[p].kind = "arr", ~IsEmpty(m[p]), FlagsRight(m, p, x, Elements(m[p].els)),
         x.packed = m[p].packed, SameElements(m[p], x)
  PROVE  Appends(x)
<1> DEFINE E == Elements(m[p].els)
           old == m[p]
<1>1. /\ DOMAIN x.els = DOMAIN old.els /\ \A i \in DOMAIN old.els: x.els[i].val.type = old.els[i].val.type
      /\ \A i \in Elements(old.els): old.els[i].key = x.els[i].key /\ old.els[i].h = x.els[i].h
  BY DEF SameElements
<1>2. Elements(x.els) = E
  BY <1>1 DEF Elements
<1>3. \A i \in E: Index(x, i) = Index(old, i)
  BY <1>1 DEF Index
<1>4. {Index(x, i): i \in {j \in Elements(x.els): x.els[j].key = None}} = Indices(m, p, E)
  BY <1>1, <1>2, <1>3 DEF Indices
<1>5. E # {}
  BY DEF IsEmpty
<1>6. x.pos \in E /\ (MaxLong \in Indices(m, p, E) \/ \A n \in Indices(m, p, E): n < x.next)
  BY <1>5 DEF FlagsRight
<1> HIDE DEF E
<1> QED
  BY <1>2, <1>4, <1>6 DEF Appends

\* A pair is the same.
LEMMA MatchingSame ==
  ASSUME NEW m, NEW at, NEW from, Fetched2(m, at, from), NEW pair \in Matching(m, from, mem)
  PROVE  Same(pair[1], pair[2])
<1>1. m = input.mem
  BY DEF Fetched2
<1>2. CASE pair[2] = EmptyArray
  <2>1. PICK p \in DOMAIN m: pair = <<p, EmptyArray>> /\ IsEmpty(m[p])
    BY <1>2, CopyFacts DEF Matching
  <2> QED
    BY <2>1, <1>1 DEF Same, IsEmpty
<1>3. CASE pair[2] # EmptyArray
  <2>1. PICK q \in DOMAIN mem: pair = <<from[q], q>>
    BY <1>3 DEF Matching
  <2> DEFINE p == from[q]
             new == mem[q]
  <2>2. /\ q # EmptyArray /\ p \in DOMAIN m /\ ~IsEmpty(m[p]) /\ Alike(m, p, new)
        /\ DOMAIN new.els = DOMAIN m[p].els
        /\ \A i \in DOMAIN new.els: CellFetched(m, from, m[p].els[i], new.els[i])
    BY CopyFacts
  <2> HIDE DEF p, new
  <2>3. new.packed = m[p].packed
    BY <2>2 DEF Alike
  <2>4. \A i \in DOMAIN m[p].els: new.els[i].val.type = m[p].els[i].val.type
    <3> SUFFICES ASSUME NEW i \in DOMAIN m[p].els
                 PROVE  new.els[i].val.type = m[p].els[i].val.type
      OBVIOUS
    <3> DEFINE y == m[p].els[i].val
               z == new.els[i].val
    <3>1. ValFetched(m, from, y, z)
      BY <2>2 DEF CellFetched
    <3> HIDE DEF y, z
    <3>2. z.type = y.type
      BY <3>1 DEF ValFetched
    <3> QED
      BY <3>2 DEF y, z
  <2>5. \A i \in Elements(m[p].els): m[p].els[i].key = new.els[i].key /\ m[p].els[i].h = new.els[i].h
    BY <2>2 DEF CellFetched, Elements
  <2>6. SameElements(m[p], new)
    BY <2>2, <2>3, <2>4, <2>5 DEF SameElements
  <2>7. m[p].kind = "arr" => Appends(new)
    BY <2>2, <2>3, <2>6, AppendsBehind DEF Alike
  <2>8. new.kind = m[p].kind /\ (m[p].kind = "str" => new.len = m[p].len /\ new.text = m[p].text)
    BY <2>2 DEF Alike
  <2>9. Same(p, q)
    BY <2>2, <2>6, <2>7, <2>8, <1>1 DEF Same, new
  <2> QED
    BY <2>1, <2>9 DEF p
<1> QED
  BY <1>2, <1>3

\* What is one structure in the value is one in the copy.
LEMMA MatchingOne ==
  ASSUME NEW m, NEW at, NEW from, Fetched2(m, at, from), NEW x \in Matching(m, from, mem),
         NEW y \in Matching(m, from, mem), x[2] # EmptyArray
  PROVE  (x[1] = y[1]) <=> (x[2] = y[2])
<1>1. PICK q \in DOMAIN mem: x = <<from[q], q>>
  BY DEF Matching
<1>2. ~IsEmpty(m[from[q]]) /\ \A t \in DOMAIN mem: from[q] = from[t] => q = t
  BY CopyFacts
<1>3. CASE y[2] = EmptyArray
  <2>1. IsEmpty(m[y[1]])
    BY <1>3, CopyFacts DEF Matching
  <2> QED
    BY <2>1, <1>1, <1>2, <1>3
<1>4. CASE y[2] # EmptyArray
  <2>1. PICK t \in DOMAIN mem: y = <<from[t], t>>
    BY <1>4 DEF Matching
  <2> QED
    BY <2>1, <1>1, <1>2
<1> QED
  BY <1>3, <1>4

\* A fetch gives back the value that was stored, with its sharing and its cycles; a serialized
\* value whole or not at all (apc_persist.c).
THEOREM RoundTripHolds == Spec => []RoundTrip
<1>1. ASSUME PersistInv
      PROVE  RoundTrip
  <2> SUFFICES ASSUME Done
               PROVE  IF Stored.type = "ptr" THEN Result \in {input.mem[0].els[1].val, [type |-> "long", p |-> 0]}
                      ELSE /\ \A x \in Pairs: Same(x[1], x[2])
                           /\ \A x, y \in Pairs: x[2] # EmptyArray => ((x[1] = y[1]) <=> (x[2] = y[2]))
    BY DEF RoundTrip
  <2>1. CASE Stored.type = "ptr"
    <3>1. \A at, from: ~FetchAt(input.mem, at, from, Members(todo))
      BY <2>1, StoredTop DEF FetchAt
    <3>2. FetchSerial
      BY <1>1, <3>1 DEF PersistInv, FetchInv, Done
    <3> QED
      BY <2>1, <3>2 DEF FetchSerial, Top
  <2>2. CASE Stored.type # "ptr"
    <3>1. PICK at, from: FetchAt(input.mem, at, from, {})
      BY <1>1, <2>2, FetchDone
    <3> DEFINE m == input.mem
    <3>2. Fetched2(m, at, from)
      BY <3>1 DEF FetchAt, Fetched2
    <3> HIDE DEF m
    <3>3. Pairs \subseteq Matching(m, from, mem)
      BY <3>2, PairsMatch
    <3>4. \A x \in Pairs: Same(x[1], x[2])
      BY <3>2, <3>3, MatchingSame
    <3>5. \A x, y \in Pairs: x[2] # EmptyArray => ((x[1] = y[1]) <=> (x[2] = y[2]))
      BY <3>2, <3>3, MatchingOne
    <3> QED
      BY <2>2, <3>4, <3>5
  <2> QED
    BY <2>1, <2>2
<1> QED
  BY <1>1, PersistHolds, PTL
=============================================================================

---------------------------- MODULE ApcSmaProofs ----------------------------
(***************************************************************************)
(* The allocator of apc_sma.c keeps its segment in order: through          *)
(* allocation, deallocation and every step of a defragmentation the blocks *)
(* tile the segment, no client loses its block, the free list, the tags    *)
(* and the count of free words are exact, nothing that a process holds is  *)
(* moved, and a defragmentation leaves no free space but in front of what  *)
(* was held.  The invariant is SmaInv; what it says of the headers, Heap,  *)
(* has the set of blocks as a parameter, and lemmas about any headers say  *)
(* what each operation does to it.                                         *)
(***************************************************************************)
EXTENDS ApcSma, SumLemmas

-----------------------------------------------------------------------------
(* Iterating a function from a set to itself is well defined. *)

Iterated(S, a, f, g) == g \in [Nat -> S] /\ g[0] = a /\ \A n \in Nat: g[n + 1] = f[g[n]]

LEMMA Iterates ==
  ASSUME NEW S, NEW a \in S, NEW f \in [S -> S]
  PROVE  \E g: Iterated(S, a, f, g)
<1> DEFINE Good(n) == {g \in [0..n -> S]: g[0] = a /\ \A i \in 0..n: i < n => g[i + 1] = f[g[i]]}
           Bad == {n \in Nat: Good(n) = {}}
<1>1. \A n \in Nat: Good(n) # {}
  <2>1. SUFFICES ASSUME Bad # {} PROVE FALSE
    OBVIOUS
  <2>2. PICK m \in Bad: \A y \in Bad: m <= y
    BY <2>1, LeastNat, Bad \subseteq Nat
  <2>3. m # 0
    <3>1. [i \in 0..0 |-> a] \in Good(0)
      OBVIOUS
    <3> QED BY <3>1
  <2>4. m - 1 \in Nat /\ m - 1 \notin Bad
    <3>1. m \in Nat
      OBVIOUS
    <3>2. m - 1 \in Nat /\ ~(m <= m - 1)
      BY <3>1, <2>3
    <3> HIDE DEF Bad
    <3> QED BY <3>2, <2>2
  <2>5. PICK g : g \in Good(m - 1)
    BY <2>4
  <2> DEFINE e == [i \in 0..m |-> IF i = m THEN f[g[m - 1]] ELSE g[i]]
  <2>6. e \in [0..m -> S] /\ e[0] = a
    BY <2>5, <2>4
  <2>7. \A i \in 0..m: i < m => e[i + 1] = f[e[i]]
    <3> TAKE i \in 0..m
    <3> HAVE i < m
    <3>1. CASE i = m - 1
      BY <3>1, <2>4
    <3>2. CASE i < m - 1
      BY <3>2, <2>4, <2>5
    <3> QED BY <3>1, <3>2, <2>4
  <2>8. e \in Good(m)
    BY <2>6, <2>7
  <2> QED BY <2>8
<1>2. \A m, n \in Nat: \A g \in Good(m), h \in Good(n): m <= n => g[m] = h[m]
  <2> SUFFICES ASSUME NEW m \in Nat, NEW n \in Nat, NEW g \in Good(m), NEW h \in Good(n), m <= n
               PROVE g[m] = h[m]
    OBVIOUS
  <2> DEFINE D == {i \in 0..m: g[i] # h[i]}
  <2>1. SUFFICES ASSUME D # {} PROVE FALSE
    OBVIOUS
  <2>2. PICK i \in D: \A y \in D: i <= y
    BY <2>1, LeastNat, D \subseteq Nat
  <2>3. i # 0
    OBVIOUS
  <2>4. i - 1 \in 0..m /\ i - 1 \notin D
    BY <2>2, <2>3
  <2> QED BY <2>4, <2>3
<1> DEFINE Pick == [n \in Nat |-> CHOOSE g: g \in Good(n)]
           G == [n \in Nat |-> Pick[n][n]]
<1>3. \A n \in Nat: Pick[n] \in Good(n)
  BY <1>1
<1>4. G \in [Nat -> S]
  BY <1>3
<1>5. G[0] = a
  BY <1>3
<1>6. \A n \in Nat: G[n + 1] = f[G[n]]
  <2> TAKE n \in Nat
  <2>1. n + 1 \in Nat /\ n <= n + 1
    OBVIOUS
  <2>2. Pick[n] \in Good(n) /\ Pick[n + 1] \in Good(n + 1)
    BY <1>3, <2>1
  <2>3. G[n] = Pick[n][n] /\ G[n + 1] = Pick[n + 1][n + 1]
    BY <2>1
  <2> HIDE DEF Pick, G
  <2>4. Pick[n + 1][n + 1] = f[Pick[n + 1][n]]
    BY <2>1, <2>2
  <2> HIDE DEF Good
  <2>5. Pick[n][n] = Pick[n + 1][n]
    BY <1>2, <2>1, <2>2
  <2> QED BY <2>3, <2>4, <2>5
<1> HIDE DEF G
<1> QED BY <1>4, <1>5, <1>6 DEF Iterated

-----------------------------------------------------------------------------
(* The blocks *)

\* The blocks at the offsets in B, the last one among them, tile the segment.
Tiling(h, B) ==
  /\ h \in [Offset -> Header]
  /\ B \subseteq Start..Last /\ Start \in B /\ Last \in B /\ h[Last].size = 0
  /\ \A b \in B \ {Last}: /\ h[b].size > BlockSize /\ NextBlock(h, b) \in B
                          /\ \A c \in B: c > b => c >= NextBlock(h, b)

LEMMA Layout ==
  /\ Size \in Nat /\ HeaderSize \in Nat \ {0} /\ BlockSize \in Nat \ {0}
  /\ MinBlock \in Nat /\ MinBlock > BlockSize
  /\ First \in Offset /\ Start \in Offset /\ Last \in Offset
  /\ First \in Nat /\ Start \in Nat /\ Last \in Nat /\ Null \in Offset /\ Null = 0
  /\ 0 < First /\ First < Start /\ Start + MinBlock < Last /\ Start < Last
BY SegmentAssumption DEF First, Start, Last, Offset, Null

\* The walk steps from block to block.
LEMMA WalkPathSteps ==
  ASSUME NEW h, NEW B, Tiling(h, B)
  PROVE  /\ WalkPath(h) \in [Nat -> B] /\ WalkPath(h)[0] = Start
         /\ \A i \in Nat: WalkPath(h)[i + 1] = IF WalkPath(h)[i] < Last THEN NextBlock(h, WalkPath(h)[i])
                                                ELSE WalkPath(h)[i]
<1> DEFINE f == [b \in B |-> IF b < Last THEN NextBlock(h, b) ELSE b]
           Is(g) == g = [i \in Nat |-> IF i = 0 THEN Start
                                     ELSE IF g[i - 1] < Last THEN NextBlock(h, g[i - 1]) ELSE g[i - 1]]
<1>1. f \in [B -> B]
  <2> SUFFICES ASSUME NEW b \in B PROVE b < Last => NextBlock(h, b) \in B
    OBVIOUS
  <2>1. b \in Nat /\ Last \in Nat
    BY Layout DEF Tiling, Offset
  <2> QED BY <2>1 DEF Tiling
<1>2. PICK g \in [Nat -> B]: g[0] = Start /\ \A n \in Nat: g[n + 1] = f[g[n]]
  <2> HIDE DEF f
  <2>1. Start \in B
    BY DEF Tiling
  <2>2. \E g: Iterated(B, Start, f, g)
    BY <1>1, <2>1, Iterates
  <2> QED BY <2>2 DEF Iterated
<1>3. Is(g)
  <2> DEFINE r == [i \in Nat |-> IF i = 0 THEN Start
                               ELSE IF g[i - 1] < Last THEN NextBlock(h, g[i - 1]) ELSE g[i - 1]]
  <2>1. ASSUME NEW i \in Nat PROVE g[i] = r[i]
    <3>1. CASE i = 0
      BY <3>1, <1>2
    <3>2. CASE i # 0
      <4>1. i - 1 \in Nat /\ i = (i - 1) + 1
        BY <3>2
      <4>2. g[i] = f[g[i - 1]]
        BY <4>1, <1>2
      <4> QED BY <4>1, <4>2, <1>2, <3>2
    <3> QED BY <3>1, <3>2
  <2> HIDE DEF f
  <2>2. g = r
    BY <2>1, <1>2
  <2> QED BY <2>2
<1> DEFINE w == WalkPath(h)
<1>4. Is(w)
  <2> HIDE DEF Is
  <2>1. w = CHOOSE at: Is(at)
    BY DEF WalkPath, Is
  <2> HIDE DEF w
  <2> QED BY <1>3, <2>1
<1> HIDE DEF w
<1>5. w[0] = Start /\ DOMAIN w = Nat
  BY <1>4
<1>6. ASSUME NEW n \in Nat
      PROVE  w[n + 1] = IF w[n] < Last THEN NextBlock(h, w[n]) ELSE w[n]
  <2>1. n + 1 \in Nat /\ n + 1 # 0 /\ (n + 1) - 1 = n
    OBVIOUS
  <2> QED BY <2>1, <1>4
<1>7. \A n \in Nat: w[n] \in B
  <2> DEFINE D == {n \in Nat: w[n] \notin B}
  <2>1. SUFFICES ASSUME D # {} PROVE FALSE
    OBVIOUS
  <2>2. PICK n \in D: \A m \in D: n <= m
    BY <2>1, LeastNat, D \subseteq Nat
  <2>3. n # 0
    BY <1>5, Layout DEF Tiling
  <2>4. n - 1 \in Nat /\ n = (n - 1) + 1 /\ n - 1 \notin D
    BY <2>2, <2>3
  <2>5. w[n - 1] \in B
    BY <2>4
  <2>6. w[n] = f[w[n - 1]]
    BY <2>4, <2>5, <1>6
  <2> HIDE DEF f
  <2> QED BY <2>5, <2>6, <1>1
<1> QED
  <2> HIDE DEF Is, f
  <2>1. w = [i \in Nat |-> w[i]]
    BY <1>4 DEF Is
  <2>2. w \in [Nat -> B]
    BY <2>1, <1>7
  <2> QED BY <2>2, <1>5, <1>6 DEF w

\* A walk finds the blocks of a tiling, all of them and nothing else.
LEMMA WalkFindsBlocks ==
  ASSUME NEW h, NEW B, Tiling(h, B)
  PROVE  Walk(h) = B
<1> DEFINE w == WalkPath(h)
           d == BlockSize + 1
           K == (Size \div d) + 1
<1>1. /\ w \in [Nat -> B] /\ w[0] = Start
      /\ \A i \in Nat: w[i + 1] = IF w[i] < Last THEN NextBlock(h, w[i]) ELSE w[i]
  BY WalkPathSteps
<1>2. Walk(h) = {w[i]: i \in 0..K}
  BY DEF Walk
<1> HIDE DEF w
<1>3. /\ B \subseteq Nat /\ Last \in Nat /\ \A b \in B: b <= Last /\ Start <= b
      /\ d \in Nat /\ d > 0 /\ Size \in Nat /\ Last <= Size /\ Start \in Nat
  BY Layout DEF Tiling, Offset
<1>4. \A b \in B: b < Last => NextBlock(h, b) \in B /\ NextBlock(h, b) >= b + d
  <2> SUFFICES ASSUME NEW b \in B, b < Last PROVE NextBlock(h, b) \in B /\ NextBlock(h, b) >= b + d
    OBVIOUS
  <2>1. b \in Offset /\ b \in B \ {Last}
    BY <1>3 DEF Offset
  <2>2. h[b].size \in Nat
    BY <2>1 DEF Tiling, Header, Offset
  <2> QED BY <2>1, <2>2, Layout DEF Tiling, NextBlock
<1>5. \A i \in Nat: w[i] # Last => w[i] >= i * d
  <2> DEFINE D == {i \in Nat: w[i] # Last /\ ~(w[i] >= i * d)}
  <2>1. SUFFICES ASSUME D # {} PROVE FALSE
    OBVIOUS
  <2>2. PICK i \in D: \A j \in D: i <= j
    BY <2>1, LeastNat, D \subseteq Nat
  <2>3. i # 0
    BY <1>1, <1>3, Layout
  <2>4. i - 1 \in Nat /\ i = (i - 1) + 1 /\ i - 1 \notin D
    BY <2>2, <2>3
  <2>5. w[i - 1] \in B /\ w[i] = IF w[i - 1] < Last THEN NextBlock(h, w[i - 1]) ELSE w[i - 1]
    BY <2>4, <1>1
  <2> HIDE DEF d
  <2>6. w[i - 1] < Last /\ w[i] >= w[i - 1] + d
    <3>1. w[i - 1] \in Nat /\ w[i - 1] <= Last
      BY <2>5, <1>3
    <3>2. w[i] # Last
      OBVIOUS
    <3>3. w[i - 1] < Last
      BY <3>1, <3>2, <2>5, <1>3
    <3> QED BY <3>3, <2>5, <1>4
  <2>7. w[i - 1] >= (i - 1) * d
    BY <2>4, <2>6, <1>3
  <2>8. (i - 1) * d + d = i * d
    BY <1>3
  <2>9. (i - 1) * d \in Nat /\ i * d \in Nat
    BY <2>4, <1>3
  <2>10. w[i] >= i * d
    <3>1. w[i] \in Nat /\ w[i - 1] \in Nat
      BY <2>4, <1>1, <1>3
    <3> HIDE DEF d
    <3> QED BY <2>6, <2>7, <2>8, <2>9, <1>3, <3>1
  <2> QED BY <2>10
<1>6. K \in Nat /\ K * d > Size
  <2>1. Size \div d \in Nat /\ Size = d * (Size \div d) + (Size % d) /\ Size % d \in 0..(d - 1)
    BY <1>3
  <2> DEFINE q == Size \div d
             r == Size % d
  <2>2. q \in Nat /\ r \in 0..(d - 1) /\ Size = d * q + r /\ d \in Nat
    BY <2>1, <1>3
  <2>3. K = q + 1
    OBVIOUS
  <2> HIDE DEF q, r, d, K
  <2>4. K * d = d * q + d /\ d * q \in Nat
    BY <2>2, <2>3
  <2> QED BY <2>2, <2>3, <2>4
<1> HIDE DEF K, d
<1>7. w[K] = Last
  <2>1. w[K] \in B
    BY <1>1, <1>6
  <2>2. ~(w[K] >= K * d)
    <3>1. K * d \in Nat
      BY <1>6, <1>3
    <3>4. w[K] \in Nat /\ w[K] <= Last
      BY <2>1, <1>3
    <3>2. w[K] \in Nat /\ w[K] <= Size
      BY <3>4, <1>3
    <3>3. K * d > Size /\ Size \in Nat
      BY <1>3, <1>6
    <3> QED BY <3>1, <3>2, <3>3
  <2> QED BY <2>2, <1>5, <1>6
<1>8. ASSUME NEW b \in B PROVE \E i \in 0..K: w[i] = b
  <2> DEFINE R == {i \in Nat: w[i] >= b}
  <2>1. K \in R
    BY <1>6, <1>7, <1>3
  <2>2. PICK i \in R: \A j \in R: i <= j
    BY <2>1, LeastNat, R \subseteq Nat
  <2>3. i \in 0..K
    BY <2>1, <2>2, <1>6
  <2>4. CASE i = 0
    BY <2>2, <2>3, <2>4, <1>1, <1>3
  <2>5. CASE i # 0
    <3>1. i - 1 \in Nat /\ i = (i - 1) + 1 /\ i - 1 \notin R
      BY <2>2, <2>5
    <3>2. w[i - 1] \in B /\ w[i] = IF w[i - 1] < Last THEN NextBlock(h, w[i - 1]) ELSE w[i - 1]
      BY <3>1, <1>1
    <3>0. w[i - 1] \in Nat /\ w[i - 1] <= Last /\ b \in Nat /\ b <= Last
      BY <3>2, <1>3
    <3>7. ~(w[i - 1] >= b)
      BY <3>1
    <3>3. w[i - 1] < b /\ w[i - 1] < Last
      BY <3>0, <3>7, <1>3
    <3>4. w[i] = NextBlock(h, w[i - 1]) /\ w[i - 1] \in B \ {Last}
      BY <3>2, <3>3, <1>3
    <3>5. b >= w[i]
      BY <3>3, <3>4 DEF Tiling
    <3>6. w[i] >= b /\ w[i] \in Nat
      BY <3>4, <3>3, <1>4, <1>3, <3>2
    <3> QED BY <3>5, <3>6, <1>3, <2>3
  <2> QED BY <2>4, <2>5
<1> QED
  <2>1. \A i \in 0..K: w[i] \in B
    BY <1>1, <1>6
  <2> QED BY <1>2, <1>8, <2>1

-----------------------------------------------------------------------------
(* The free list *)

\* The blocks in F are linked from First to Last in both directions, in the order of
\* falling ranks.
Links(h, F, rk) ==
  /\ \A o \in F: rk[o] < rk[First]
  /\ \A o \in F \cup {First}:
       h[o].fnext \in F \cup {Last} /\ rk[h[o].fnext] < rk[o] /\ h[h[o].fnext].fprev = o
  /\ \A o \in F \cup {Last}: h[o].fprev \in F \cup {First} /\ h[h[o].fprev].fnext = o

Listed(h, F) == \E rk \in [Offset -> Nat]: Links(h, F, rk)

\* Headers whose links end where no block is.
Grounded(h) == h \in [Offset -> Header] /\ h[Last].fnext = Null /\ h[Null].fnext = Null

LEMMA LinkPathSteps ==
  ASSUME NEW h \in [Offset -> Header]
  PROVE  /\ LinkPath(h) \in [Nat -> Offset] /\ LinkPath(h)[0] = h[First].fnext
         /\ \A i \in Nat: LinkPath(h)[i + 1] = h[LinkPath(h)[i]].fnext
<1> DEFINE f == [o \in Offset |-> h[o].fnext]
           Is(g) == g = [i \in Nat |-> IF i = 0 THEN h[First].fnext ELSE h[g[i - 1]].fnext]
<1>1. f \in [Offset -> Offset] /\ h[First].fnext \in Offset
  BY Layout DEF Header
<1>2. PICK g \in [Nat -> Offset]: g[0] = h[First].fnext /\ \A n \in Nat: g[n + 1] = f[g[n]]
  <2> HIDE DEF f
  <2>1. f \in [Offset -> Offset] /\ h[First].fnext \in Offset
    BY <1>1
  <2>2. \E g: Iterated(Offset, h[First].fnext, f, g)
    BY <2>1, Iterates
  <2> QED BY <2>2 DEF Iterated
<1>3. Is(g)
  <2> DEFINE r == [i \in Nat |-> IF i = 0 THEN h[First].fnext ELSE h[g[i - 1]].fnext]
  <2>1. ASSUME NEW i \in Nat PROVE g[i] = r[i]
    <3>1. CASE i = 0
      BY <3>1, <1>2
    <3>2. CASE i # 0
      <4>1. i - 1 \in Nat /\ i = (i - 1) + 1
        BY <3>2
      <4>2. g[i] = f[g[i - 1]]
        BY <4>1, <1>2
      <4> QED BY <4>1, <4>2, <1>2, <3>2
    <3> QED BY <3>1, <3>2
  <2> HIDE DEF f
  <2>2. g = r
    BY <2>1, <1>2
  <2> QED BY <2>2
<1> DEFINE w == LinkPath(h)
<1>4. Is(w)
  <2> HIDE DEF Is
  <2>1. w = CHOOSE at: Is(at)
    BY DEF LinkPath, Is
  <2> HIDE DEF w
  <2> QED BY <1>3, <2>1
<1> HIDE DEF w
<1>5. w[0] = h[First].fnext /\ DOMAIN w = Nat
  BY <1>4
<1>6. ASSUME NEW n \in Nat
      PROVE  w[n + 1] = h[w[n]].fnext
  <2>1. n + 1 \in Nat /\ n + 1 # 0 /\ (n + 1) - 1 = n
    OBVIOUS
  <2> QED BY <2>1, <1>4
<1>7. \A n \in Nat: w[n] \in Offset
  <2> DEFINE D == {n \in Nat: w[n] \notin Offset}
  <2>1. SUFFICES ASSUME D # {} PROVE FALSE
    OBVIOUS
  <2>2. PICK n \in D: \A m \in D: n <= m
    BY <2>1, LeastNat, D \subseteq Nat
  <2>3. n # 0
    BY <1>5, <1>1
  <2>4. n - 1 \in Nat /\ n = (n - 1) + 1 /\ n - 1 \notin D
    BY <2>2, <2>3
  <2>5. w[n - 1] \in Offset
    BY <2>4
  <2>6. w[n] = f[w[n - 1]]
    BY <2>4, <2>5, <1>6
  <2> HIDE DEF f
  <2> QED BY <2>5, <2>6, <1>1
<1> QED
  <2> HIDE DEF Is, f
  <2>1. w = [i \in Nat |-> w[i]]
    BY <1>4 DEF Is
  <2>2. w \in [Nat -> Offset]
    BY <2>1, <1>7
  <2> QED BY <2>2, <1>5, <1>6 DEF w

\* l is a sequence of the members of F.
Enumerates(l, F) ==
  \E n \in Nat:
    /\ DOMAIN l = 1..n
    /\ \A i \in 1..n: l[i] \in F
    /\ \A o \in F: \E i \in 1..n: l[i] = o

\* The free list holds the linked blocks, each of them.
LEMMA FreeListHolds ==
  ASSUME NEW h, NEW F, Grounded(h), Listed(h, F), F \subseteq Start..(Last - 1)
  PROVE  Enumerates(FreeList(h), F)
<1> DEFINE p == LinkPath(h)
           Ends(i) == i \in 0..Size /\ p[i] = Last
<1>1. PICK rk \in [Offset -> Nat]: Links(h, F, rk)
  BY DEF Listed
<1>2. /\ p \in [Nat -> Offset] /\ p[0] = h[First].fnext
      /\ \A i \in Nat: p[i + 1] = h[p[i]].fnext
  BY LinkPathSteps DEF Grounded
<1>3. FreeList(h) = [i \in 1..(CHOOSE i \in 0..Size: p[i] = Last) |-> p[i - 1]]
  BY DEF FreeList
<1> HIDE DEF p
<1>4. /\ Size \in Nat /\ Last \in Nat /\ Start \in Nat /\ Last <= Size /\ Null < Start /\ Null = 0
      /\ F \subseteq Offset /\ Last \notin F /\ Null \notin F /\ First \notin F /\ Start < Last /\ Last # Null
  BY Layout DEF Offset, Null
<1>5. ASSUME NEW i \in Nat, \A j \in 0..i: p[j] # Last
      PROVE  p[i] \in F
  <2> DEFINE D == {j \in 0..i: p[j] \notin F}
  <2>1. SUFFICES ASSUME D # {} PROVE FALSE
    OBVIOUS
  <2>2. PICK j \in D: \A k \in D: j <= k
    BY <2>1, LeastNat, D \subseteq Nat
  <2>3. j # 0
    BY <1>2, <1>1, <1>5 DEF Links
  <2>4. j - 1 \in 0..i /\ j = (j - 1) + 1 /\ j - 1 \notin D /\ j - 1 \in Nat
    BY <2>2, <2>3
  <2>5. p[j] = h[p[j - 1]].fnext
    BY <1>2, <2>4
  <2> QED BY <2>4, <2>5, <1>1, <1>5 DEF Links
<1>6. \E i \in 0..Size: p[i] = Last
  <2> SUFFICES ASSUME \A i \in 0..Size: p[i] # Last PROVE FALSE
    OBVIOUS
  <2>1. \A i \in 0..Size: p[i] \in F
    <3> TAKE i \in 0..Size
    <3>1. i \in Nat /\ \A j \in 0..i: p[j] # Last
      BY <1>4
    <3> QED BY <3>1, <1>5
  <2>2. ASSUME NEW x \in 0..Size, NEW y \in 0..Size, x < y
        PROVE  rk[p[y]] < rk[p[x]]
    <3> DEFINE D == {k \in 0..Size: x < k /\ ~(rk[p[k]] < rk[p[x]])}
    <3>1. SUFFICES ASSUME D # {} PROVE FALSE
      BY <2>2
    <3>2. PICK k \in D: \A l \in D: k <= l
      BY <3>1, LeastNat, D \subseteq Nat
    <3>3. k - 1 \in 0..Size /\ k = (k - 1) + 1 /\ k - 1 \notin D /\ k - 1 \in Nat /\ k - 1 >= x
      BY <3>2, <1>4
    <3>4. p[k] = h[p[k - 1]].fnext /\ p[k - 1] \in F
      BY <1>2, <3>3, <2>1
    <3>5. rk[p[k]] < rk[p[k - 1]]
      BY <3>4, <1>1 DEF Links
    <3>6. k - 1 = x \/ rk[p[k - 1]] < rk[p[x]]
      BY <3>3
    <3>7. rk[p[k]] \in Nat /\ rk[p[k - 1]] \in Nat /\ rk[p[x]] \in Nat
      BY <2>1, <3>3, <1>4
    <3> QED BY <3>5, <3>6, <3>7
  <2>3. [i \in 0..Size |-> p[i]] \in [0..Size -> Start..(Last - 1)]
    BY <2>1
  <2>4. /\ IsFiniteSet(0..Size) /\ Cardinality(0..Size) = Size + 1
        /\ IsFiniteSet(Start..(Last - 1)) /\ Cardinality(Start..(Last - 1)) = Last - Start
    <3>1. IsFiniteSet(0..Size) /\ Cardinality(0..Size) = IF 0 > Size THEN 0 ELSE Size - 0 + 1
      BY <1>4, FS_Interval
    <3>2. Last - 1 \in Int /\ Start \in Int
      BY <1>4
    <3>3. /\ IsFiniteSet(Start..(Last - 1))
          /\ Cardinality(Start..(Last - 1)) = IF Start > Last - 1 THEN 0 ELSE (Last - 1) - Start + 1
      BY <3>2, FS_Interval
    <3> QED BY <3>1, <3>3, <1>4
  <2>5. PICK x, y \in 0..Size: x # y /\ p[x] = p[y]
    <3>1. Cardinality(Start..(Last - 1)) < Cardinality(0..Size)
      BY <2>4, <1>4
    <3> DEFINE q == [i \in 0..Size |-> p[i]]
    <3>2. q \in [0..Size -> Start..(Last - 1)]
      BY <2>3
    <3> HIDE DEF q
    <3>3. \E x, y \in 0..Size: x # y /\ q[x] = q[y]
      BY <3>2, <2>4, <3>1, FS_PigeonHole
    <3> QED BY <3>3 DEF q
  <2>6. x \in Nat /\ y \in Nat /\ p[x] = p[y] /\ rk[p[x]] \in Nat
    <3>1. p[x] \in F
      BY <2>1
    <3>2. rk[p[x]] \in Nat
      BY <3>1, <1>4
    <3> QED BY <2>5, <3>2, <1>4
  <2>7. x < y \/ y < x
    BY <2>5, <2>6
  <2> QED BY <2>2, <2>6, <2>7
<1>7. PICK n \in 0..Size: p[n] = Last /\ \A i \in 0..Size: p[i] = Last => n <= i
  <2> DEFINE D == {i \in 0..Size: p[i] = Last}
  <2>1. D # {} /\ D \subseteq Nat
    BY <1>6
  <2>2. PICK n \in D: \A i \in D: n <= i
    BY <2>1, LeastNat
  <2> QED BY <2>2
<1>8. \A i \in Nat: i > n => p[i] = Null
  <2> DEFINE D == {i \in Nat: i > n /\ p[i] # Null}
  <2>1. SUFFICES ASSUME D # {} PROVE FALSE
    OBVIOUS
  <2>2. PICK i \in D: \A k \in D: i <= k
    BY <2>1, LeastNat, D \subseteq Nat
  <2>3. i - 1 \in Nat /\ i = (i - 1) + 1 /\ i - 1 \notin D /\ i - 1 >= n
    BY <2>2
  <2>4. p[i] = h[p[i - 1]].fnext
    BY <1>2, <2>3
  <2>5. i - 1 = n \/ p[i - 1] = Null
    BY <2>3
  <2> QED BY <2>4, <2>5, <1>7 DEF Grounded
<1>9. n = CHOOSE i \in 0..Size: p[i] = Last
  <2>1. \A i \in 0..Size: p[i] = Last => i = n
    BY <1>7, <1>8, <1>4
  <2> QED BY <2>1, <1>7
<1>10. FreeList(h) = [i \in 1..n |-> p[i - 1]]
  BY <1>3, <1>9
<1>11. ASSUME NEW i \in 1..n PROVE p[i - 1] \in F
  <2>1. i - 1 \in Nat /\ \A j \in 0..(i - 1): p[j] # Last
    BY <1>7, <1>4
  <2> QED BY <2>1, <1>5
<1>12. ASSUME NEW o \in F PROVE \E i \in 1..n: p[i - 1] = o
  <2> DEFINE U == {q \in F: \A i \in 1..n: p[i - 1] # q}
             R == {rk[q]: q \in U}
  <2>1. SUFFICES ASSUME U # {} PROVE FALSE
    OBVIOUS
  <2>0. \A q \in F: rk[q] \in Nat /\ rk[q] < rk[First] /\ rk[First] \in Nat
    BY <1>1, <1>4, Layout DEF Links
  <2>2. R \subseteq Nat /\ R # {} /\ rk[First] \in Nat /\ \A r \in R: r <= rk[First]
    <3>1. U \subseteq F
      OBVIOUS
    <3> HIDE DEF U
    <3>2. \A r \in R: r \in Nat /\ r <= rk[First]
      BY <3>1, <2>0
    <3>3. R # {}
      BY <2>1
    <3> QED BY <3>1, <3>2, <3>3, <2>0, <2>1
  <2>3. PICK r \in R: \A t \in R: t <= r
    <3> HIDE DEF R
    <3> QED BY <2>2, GreatestNat
  <2>4. PICK q \in U: \A t \in U: rk[t] <= rk[q]
    BY <2>3
  <2>5. h[q].fprev \in F \cup {First} /\ h[h[q].fprev].fnext = q
    BY <2>4, <1>1 DEF Links
  <2>6. CASE h[q].fprev = First
    <3>1. p[0] = q
      BY <2>5, <2>6, <1>2
    <3>2. n # 0
      BY <3>1, <1>7, <1>4
    <3>3. 1 \in 1..n /\ p[1 - 1] = q
      BY <3>1, <3>2
    <3> QED BY <3>3
  <2>7. CASE h[q].fprev \in F
    <3>1. h[q].fprev \notin U
      <4>1. rk[q] < rk[h[q].fprev]
        BY <2>5, <2>7, <1>1 DEF Links
      <4>2. rk[q] \in Nat /\ rk[h[q].fprev] \in Nat
        BY <2>7, <1>4
      <4>3. ~(rk[h[q].fprev] <= rk[q])
        BY <4>1, <4>2
      <4> QED BY <4>3, <2>4
    <3>2. PICK i \in 1..n: p[i - 1] = h[q].fprev
      BY <3>1, <2>7
    <3>3. i - 1 \in Nat /\ i \in Nat /\ i = (i - 1) + 1
      OBVIOUS
    <3>4. p[i] = q
      BY <3>3, <3>2, <1>2, <2>5
    <3>5. i # n
      BY <3>4, <1>7, <1>4
    <3>6. i + 1 \in 1..n /\ (i + 1) - 1 = i
      BY <3>3, <3>5
    <3> QED BY <3>4, <3>6
  <2> QED BY <2>5, <2>6, <2>7
<1> QED
  <2>1. n \in Nat /\ DOMAIN FreeList(h) = 1..n
    BY <1>10
  <2>2. \A i \in 1..n: FreeList(h)[i] = p[i - 1]
    BY <1>10
  <2> QED BY ZenonT(30), <2>1, <2>2, <1>11, <1>12 DEF Enumerates

LEMMA MinIsLeast ==
  ASSUME NEW T, T \subseteq Nat, T # {}
  PROVE  Min(T) \in T /\ \A y \in T: Min(T) <= y
BY LeastNat DEF Min

\* The search finds a listed block that fits, if there is one and avail allows it.
LEMMA FindBlockFinds ==
  ASSUME NEW h, NEW F, Grounded(h), Listed(h, F), F \subseteq Start..(Last - 1), NEW real \in Nat
  PROVE  /\ FindBlock(h, real) # Null => FindBlock(h, real) \in F /\ h[FindBlock(h, real)].size >= real
         /\ ~(avail < real) /\ (\E o \in F: h[o].size >= real) => FindBlock(h, real) # Null
<1> DEFINE l == FreeList(h)
           fits == {i \in DOMAIN l: h[l[i]].size >= real}
           window == {i \in fits: i <= Min(fits) + BestFitLimit}
           best == {i \in window: \A j \in window: h[l[i]].size <= h[l[j]].size}
           c == FindBlock(h, real)
<1>1. PICK n \in Nat: /\ DOMAIN l = 1..n
                      /\ \A i \in 1..n: l[i] \in F
                      /\ \A o \in F: \E i \in 1..n: l[i] = o
  <2>1. Enumerates(l, F)
    BY FreeListHolds
  <2> HIDE DEF l
  <2> QED BY <2>1 DEF Enumerates
<1>2. c = IF avail < real \/ fits = {} THEN Null ELSE l[Min(best)]
  BY DEF FindBlock
<1> HIDE DEF c, l
<1>3. ASSUME NEW o \in F PROVE h[o].size \in Nat /\ o # Null
  <2>1. o \in Offset /\ o # Null
    BY Layout DEF Offset, Null
  <2>2. h[o].size \in Offset
    BY <2>1 DEF Grounded, Header
  <2> QED BY <2>1, <2>2, Layout DEF Offset
<1>4. ASSUME fits # {} PROVE l[Min(best)] \in F /\ h[l[Min(best)]].size >= real
  <2> DEFINE D == {h[l[i]].size: i \in window}
  <2>1. fits \subseteq 1..n /\ fits \subseteq Nat
    BY <1>1
  <2>2. Min(fits) \in fits
    <3> HIDE DEF fits
    <3> QED BY <2>1, <1>4, MinIsLeast
  <2>3. Min(fits) \in window
    BY <2>1, <2>2, SegmentAssumption
  <2>4. D \subseteq Nat /\ D # {}
    BY ZenonT(30), <2>1, <2>3, <1>1, <1>3
  <2>5. PICK d \in D: \A e \in D: d <= e
    <3> HIDE DEF D
    <3> QED BY <2>4, LeastNat
  <2>6. PICK i \in window: d = h[l[i]].size
    BY <2>5
  <2>7. \A j \in window: h[l[i]].size <= h[l[j]].size
    BY <2>5, <2>6
  <2>8. i \in best
    BY <2>7
  <2>9. best \subseteq fits
    OBVIOUS
  <2>10. Min(best) \in best
    <3>1. best \subseteq Nat /\ best # {}
      BY <2>1, <2>8, <2>9
    <3> HIDE DEF best
    <3> QED BY <3>1, MinIsLeast
  <2>11. Min(best) \in fits
    BY <2>9, <2>10
  <2> QED BY <2>1, <2>11, <1>1
<1>5. ASSUME NEW o \in F, h[o].size >= real PROVE fits # {}
  <2>1. PICK i \in 1..n: l[i] = o
    BY <1>1
  <2>2. i \in fits
    BY <2>1, <1>1, <1>5
  <2> QED BY <2>2
<1> HIDE DEF fits, best
<1>6. c # Null => c \in F /\ h[c].size >= real
  BY <1>2, <1>4
<1>7. ~(avail < real) /\ (\E o \in F: h[o].size >= real) => c # Null
  BY <1>2, <1>3, <1>4, <1>5
<1> QED BY <1>6, <1>7 DEF c

-----------------------------------------------------------------------------
(* Linking and unlinking *)

\* Assignments to a field of a header.
LEMMA SetSize ==
  ASSUME NEW h \in [Offset -> Header], NEW c \in Offset, NEW v \in Offset
  PROVE  /\ [h EXCEPT ![c].size = v] \in [Offset -> Header]
         /\ \A o \in Offset:
              /\ [h EXCEPT ![c].size = v][o].size = IF o = c THEN v ELSE h[o].size
              /\ [h EXCEPT ![c].size = v][o].prev_size = h[o].prev_size
              /\ [h EXCEPT ![c].size = v][o].fnext = h[o].fnext
              /\ [h EXCEPT ![c].size = v][o].fprev = h[o].fprev
BY DEF Header

LEMMA SetPrevSize ==
  ASSUME NEW h \in [Offset -> Header], NEW c \in Offset, NEW v \in Offset
  PROVE  /\ [h EXCEPT ![c].prev_size = v] \in [Offset -> Header]
         /\ \A o \in Offset:
              /\ [h EXCEPT ![c].prev_size = v][o].prev_size = IF o = c THEN v ELSE h[o].prev_size
              /\ [h EXCEPT ![c].prev_size = v][o].size = h[o].size
              /\ [h EXCEPT ![c].prev_size = v][o].fnext = h[o].fnext
              /\ [h EXCEPT ![c].prev_size = v][o].fprev = h[o].fprev
BY DEF Header

LEMMA SetFnext ==
  ASSUME NEW h \in [Offset -> Header], NEW c \in Offset, NEW v \in Offset
  PROVE  /\ [h EXCEPT ![c].fnext = v] \in [Offset -> Header]
         /\ \A o \in Offset:
              /\ [h EXCEPT ![c].fnext = v][o].fnext = IF o = c THEN v ELSE h[o].fnext
              /\ [h EXCEPT ![c].fnext = v][o].size = h[o].size
              /\ [h EXCEPT ![c].fnext = v][o].prev_size = h[o].prev_size
              /\ [h EXCEPT ![c].fnext = v][o].fprev = h[o].fprev
BY DEF Header

LEMMA SetFprev ==
  ASSUME NEW h \in [Offset -> Header], NEW c \in Offset, NEW v \in Offset
  PROVE  /\ [h EXCEPT ![c].fprev = v] \in [Offset -> Header]
         /\ \A o \in Offset:
              /\ [h EXCEPT ![c].fprev = v][o].fprev = IF o = c THEN v ELSE h[o].fprev
              /\ [h EXCEPT ![c].fprev = v][o].size = h[o].size
              /\ [h EXCEPT ![c].fprev = v][o].prev_size = h[o].prev_size
              /\ [h EXCEPT ![c].fprev = v][o].fnext = h[o].fnext
BY DEF Header

LEMMA UnlinkFields ==
  ASSUME NEW h \in [Offset -> Header], NEW c \in Offset
  PROVE  /\ Unlink(h, c) \in [Offset -> Header]
         /\ \A o \in Offset:
              /\ Unlink(h, c)[o].size = h[o].size
              /\ Unlink(h, c)[o].prev_size = h[o].prev_size
              /\ Unlink(h, c)[o].fnext = IF o = h[c].fprev THEN h[c].fnext ELSE h[o].fnext
              /\ Unlink(h, c)[o].fprev = IF o = h[c].fnext THEN h[c].fprev ELSE h[o].fprev
<1> DEFINE p == h[c].fprev
           n == h[c].fnext
           g == [h EXCEPT ![p].fnext = n]
           k == [g EXCEPT ![n].fprev = p]
<1>1. n \in Offset /\ p \in Offset
  BY DEF Header
<1>2. Unlink(h, c) = k
  BY DEF Unlink
<1> HIDE DEF p, n
<1>3. g \in [Offset -> Header]
      /\ \A o \in Offset: /\ g[o].size = h[o].size /\ g[o].prev_size = h[o].prev_size
                          /\ g[o].fnext = IF o = p THEN n ELSE h[o].fnext
                          /\ g[o].fprev = h[o].fprev
  BY <1>1, SetFnext
<1> HIDE DEF g
<1>4. k \in [Offset -> Header]
      /\ \A o \in Offset: /\ k[o].size = g[o].size /\ k[o].prev_size = g[o].prev_size
                          /\ k[o].fnext = g[o].fnext
                          /\ k[o].fprev = IF o = n THEN p ELSE g[o].fprev
  BY <1>1, <1>3, SetFprev
<1> HIDE DEF k
<1> QED BY <1>2, <1>3, <1>4 DEF p, n

LEMMA LinkFields ==
  ASSUME NEW h \in [Offset -> Header], NEW c \in Offset, c # First, h[First].fnext # c
  PROVE  /\ Link(h, c) \in [Offset -> Header]
         /\ \A o \in Offset:
              /\ Link(h, c)[o].size = h[o].size
              /\ Link(h, c)[o].prev_size = h[o].prev_size
              /\ Link(h, c)[o].fnext = IF o = c THEN h[First].fnext ELSE IF o = First THEN c ELSE h[o].fnext
              /\ Link(h, c)[o].fprev = IF o = c THEN First ELSE IF o = h[First].fnext THEN c ELSE h[o].fprev
<1> DEFINE f == h[First].fnext
           g1 == [h EXCEPT ![c].fnext = f]
           g2 == [g1 EXCEPT ![c].fprev = First]
           g3 == [g2 EXCEPT ![First].fnext = c]
           g4 == [g3 EXCEPT ![f].fprev = c]
<1>1. f \in Offset /\ First \in Offset /\ f # c
  BY Layout DEF Header
<1>2. Link(h, c) = g4
  BY DEF Link
<1> HIDE DEF f
<1>3. g1 \in [Offset -> Header]
      /\ \A o \in Offset: /\ g1[o].size = h[o].size /\ g1[o].prev_size = h[o].prev_size
                          /\ g1[o].fnext = IF o = c THEN f ELSE h[o].fnext
                          /\ g1[o].fprev = h[o].fprev
  BY <1>1, SetFnext
<1> HIDE DEF g1
<1>4. g2 \in [Offset -> Header]
      /\ \A o \in Offset: /\ g2[o].size = g1[o].size /\ g2[o].prev_size = g1[o].prev_size
                          /\ g2[o].fnext = g1[o].fnext
                          /\ g2[o].fprev = IF o = c THEN First ELSE g1[o].fprev
  BY <1>1, <1>3, SetFprev
<1> HIDE DEF g2
<1>5. g3 \in [Offset -> Header]
      /\ \A o \in Offset: /\ g3[o].size = g2[o].size /\ g3[o].prev_size = g2[o].prev_size
                          /\ g3[o].fnext = IF o = First THEN c ELSE g2[o].fnext
                          /\ g3[o].fprev = g2[o].fprev
  BY <1>1, <1>4, SetFnext
<1> HIDE DEF g3
<1>6. g4 \in [Offset -> Header]
      /\ \A o \in Offset: /\ g4[o].size = g3[o].size /\ g4[o].prev_size = g3[o].prev_size
                          /\ g4[o].fnext = g3[o].fnext
                          /\ g4[o].fprev = IF o = f THEN c ELSE g3[o].fprev
  BY <1>1, <1>5, SetFprev
<1> HIDE DEF g4
<1>8. ASSUME NEW o \in Offset
      PROVE  /\ g4[o].size = h[o].size /\ g4[o].prev_size = h[o].prev_size
             /\ g4[o].fnext = IF o = c THEN f ELSE IF o = First THEN c ELSE h[o].fnext
             /\ g4[o].fprev = IF o = c THEN First ELSE IF o = f THEN c ELSE h[o].fprev
  BY <1>1, <1>3, <1>4, <1>5, <1>6
<1> QED BY <1>2, <1>6, <1>8 DEF f

\* Only the links of the listed blocks, First and Last matter.
LEMMA ListedFrame ==
  ASSUME NEW h, NEW g, NEW F, Listed(h, F),
         \A o \in F \cup {First}: g[o].fnext = h[o].fnext,
         \A o \in F \cup {Last}: g[o].fprev = h[o].fprev
  PROVE  Listed(g, F)
<1>1. PICK rk \in [Offset -> Nat]: Links(h, F, rk)
  BY DEF Listed
<1>2. Links(g, F, rk)
  BY <1>1 DEF Links
<1> QED BY <1>1, <1>2 DEF Listed

LEMMA ListedUnlink ==
  ASSUME NEW h \in [Offset -> Header], NEW F, Listed(h, F), F \subseteq Start..(Last - 1), NEW c \in F
  PROVE  Listed(Unlink(h, c), F \ {c})
<1>1. PICK rk \in [Offset -> Nat]: Links(h, F, rk)
  BY DEF Listed
<1> DEFINE p == h[c].fprev
           n == h[c].fnext
           g == Unlink(h, c)
           G == F \ {c}
<1>2. /\ F \subseteq Offset /\ First \in Offset /\ Last \in Offset
      /\ First # Last /\ First \notin F /\ Last \notin F
  BY Layout DEF Offset
<1>3. /\ n \in F \cup {Last} /\ p \in F \cup {First} /\ h[p].fnext = c /\ h[n].fprev = c
      /\ rk[n] < rk[c] /\ rk[c] < rk[p]
  BY <1>1 DEF Links
<1>4. \A o \in Offset: /\ g[o].fnext = IF o = p THEN n ELSE h[o].fnext
                       /\ g[o].fprev = IF o = n THEN p ELSE h[o].fprev
  BY <1>2, UnlinkFields
<1>5. \A o \in F \cup {First, Last}: o \in Offset /\ rk[o] \in Nat
  BY <1>2
<1>6. n # c /\ p # c /\ rk[n] < rk[p]
  <2>1. n \in F \cup {First, Last} /\ p \in F \cup {First, Last} /\ rk[n] < rk[c] /\ rk[c] < rk[p]
    BY <1>3
  <2> HIDE DEF n, p
  <2>2. rk[n] \in Nat /\ rk[p] \in Nat /\ rk[c] \in Nat
    BY <2>1, <1>5
  <2> QED BY <2>1, <2>2
<1> HIDE DEF g, p, n
<1>7. ASSUME NEW o \in G \cup {First}
      PROVE  g[o].fnext \in G \cup {Last} /\ rk[g[o].fnext] < rk[o] /\ g[g[o].fnext].fprev = o
  <2>1. h[o].fnext \in F \cup {Last} /\ rk[h[o].fnext] < rk[o] /\ h[h[o].fnext].fprev = o
    BY <1>1 DEF Links
  <2>2. CASE o = p
    <3>1. g[o].fnext = n /\ g[n].fprev = p
      BY <2>2, <1>3, <1>4, <1>5
    <3> QED BY <3>1, <2>2, <1>3, <1>6
  <2>3. CASE o # p
    <3>1. g[o].fnext = h[o].fnext
      BY <2>3, <1>4, <1>5
    <3>2. h[o].fnext # c
      BY <2>1, <2>3 DEF p
    <3>3. h[o].fnext # n
      BY <2>1, <1>3, <1>2
    <3>4. g[h[o].fnext].fprev = h[h[o].fnext].fprev
      BY <3>3, <2>1, <1>4, <1>5
    <3> QED BY <2>1, <3>1, <3>2, <3>4
  <2> QED BY <2>2, <2>3
<1>8. ASSUME NEW o \in G \cup {Last}
      PROVE  g[o].fprev \in G \cup {First} /\ g[g[o].fprev].fnext = o
  <2>1. h[o].fprev \in F \cup {First} /\ h[h[o].fprev].fnext = o
    BY <1>1 DEF Links
  <2>2. CASE o = n
    <3>1. g[o].fprev = p /\ g[p].fnext = n
      BY <2>2, <1>3, <1>4, <1>5
    <3> QED BY <3>1, <2>2, <1>3, <1>6
  <2>3. CASE o # n
    <3>1. g[o].fprev = h[o].fprev
      BY <2>3, <1>4, <1>5
    <3>2. h[o].fprev # c
      BY <2>1, <2>3 DEF n
    <3>3. h[o].fprev # p
      BY <2>1, <1>3, <1>2
    <3>4. g[h[o].fprev].fnext = h[h[o].fprev].fnext
      BY <3>3, <2>1, <1>4, <1>5
    <3> QED BY <2>1, <3>1, <3>2, <3>4
  <2> QED BY <2>2, <2>3
<1>9. Links(g, G, rk)
  BY <1>1, <1>7, <1>8 DEF Links
<1> QED BY <1>1, <1>9 DEF Listed, g

LEMMA ListedLink ==
  ASSUME NEW h \in [Offset -> Header], NEW F, Listed(h, F), F \subseteq Start..(Last - 1),
         NEW c \in Start..(Last - 1), c \notin F
  PROVE  Listed(Link(h, c), F \cup {c})
<1>1. PICK rk \in [Offset -> Nat]: Links(h, F, rk)
  BY DEF Listed
<1> DEFINE f == h[First].fnext
           g == Link(h, c)
           G == F \cup {c}
           rg == [o \in Offset |-> IF o = First THEN rk[First] + 1
                                   ELSE IF o = c THEN rk[First] ELSE rk[o]]
<1>2. /\ F \subseteq Offset /\ First \in Offset /\ Last \in Offset /\ c \in Offset
      /\ First # Last /\ First \notin F /\ Last \notin F /\ c # First /\ c # Last
  BY Layout DEF Offset
<1>3. f \in F \cup {Last} /\ rk[f] < rk[First] /\ h[f].fprev = First /\ f # c
  BY <1>1, <1>2 DEF Links
<1>4. \A o \in Offset:
         /\ g[o].fnext = IF o = c THEN f ELSE IF o = First THEN c ELSE h[o].fnext
         /\ g[o].fprev = IF o = c THEN First ELSE IF o = f THEN c ELSE h[o].fprev
  BY <1>2, <1>3, LinkFields
<1>5. rg \in [Offset -> Nat] /\ rg[First] = rk[First] + 1 /\ rg[c] = rk[First]
      /\ \A o \in F \cup {Last}: rg[o] = rk[o] /\ rk[o] \in Nat /\ rk[First] \in Nat
  BY <1>2
<1> HIDE DEF g, f, rg
<1>6. ASSUME NEW o \in G PROVE rg[o] < rg[First]
  <2>1. CASE o = c
    BY <2>1, <1>5, <1>2
  <2>2. CASE o \in F
    <3>1. rk[o] < rk[First]
      BY <2>2, <1>1 DEF Links
    <3> QED BY <3>1, <2>2, <1>5
  <2> QED BY <2>1, <2>2
<1>7. ASSUME NEW o \in G \cup {First}
      PROVE  g[o].fnext \in G \cup {Last} /\ rg[g[o].fnext] < rg[o] /\ g[g[o].fnext].fprev = o
  <2>1. CASE o = First
    <3>1. g[o].fnext = c /\ g[c].fprev = First
      BY <2>1, <1>2, <1>4
    <3> QED BY <3>1, <2>1, <1>5, <1>2
  <2>2. CASE o = c
    <3>1. g[o].fnext = f /\ g[f].fprev = c
      BY <2>2, <1>2, <1>3, <1>4
    <3> QED BY <3>1, <2>2, <1>3, <1>5
  <2>3. CASE o \in F
    <3>1. h[o].fnext \in F \cup {Last} /\ rk[h[o].fnext] < rk[o] /\ h[h[o].fnext].fprev = o
      BY <2>3, <1>1 DEF Links
    <3>2. g[o].fnext = h[o].fnext
      BY <2>3, <1>2, <1>4
    <3>3. h[o].fnext # f /\ h[o].fnext # c
      BY <3>1, <1>3, <1>2, <2>3
    <3>4. g[h[o].fnext].fprev = h[h[o].fnext].fprev
      BY <3>1, <3>3, <1>2, <1>4
    <3>5. rg[o] = rk[o] /\ rg[h[o].fnext] = rk[h[o].fnext]
      BY <3>1, <2>3, <1>5
    <3>6. g[o].fnext \in G \cup {Last}
      BY <3>1, <3>2
    <3> QED BY <3>1, <3>2, <3>4, <3>5, <3>6
  <2> QED BY <2>1, <2>2, <2>3
<1>8. ASSUME NEW o \in G \cup {Last}
      PROVE  g[o].fprev \in G \cup {First} /\ g[g[o].fprev].fnext = o
  <2>1. CASE o = c
    <3>1. g[o].fprev = First /\ g[First].fnext = c
      BY <2>1, <1>2, <1>4
    <3> QED BY <3>1, <2>1
  <2>2. CASE o # c /\ o = f
    <3>1. g[o].fprev = c /\ g[c].fnext = f
      BY <2>2, <1>2, <1>3, <1>4
    <3> QED BY <3>1, <2>2
  <2>3. CASE o # c /\ o # f
    <3>1. h[o].fprev \in F \cup {First} /\ h[h[o].fprev].fnext = o
      BY <2>3, <1>1 DEF Links
    <3>2. g[o].fprev = h[o].fprev
      BY <2>3, <1>2, <1>4
    <3>3. h[o].fprev # First /\ h[o].fprev # c
      BY <3>1, <2>3, <1>2 DEF f
    <3>4. g[h[o].fprev].fnext = h[h[o].fprev].fnext
      BY <3>1, <3>3, <1>2, <1>4
    <3> QED BY <3>1, <3>2, <3>4
  <2> QED BY <2>1, <2>2, <2>3
<1>9. Links(g, G, rg)
  BY <1>6, <1>7, <1>8 DEF Links
<1> QED BY <1>5, <1>9 DEF Listed, g

-----------------------------------------------------------------------------
(* Sums of sizes *)

\* The sizes in any headers can be added up.
LEMMA SizesWeigh ==
  ASSUME NEW h \in [Offset -> Header], NEW D \in SUBSET Offset
  PROVE  Weighs([o \in D |-> h[o].size], D)
<1>1. 0 \in Int /\ Size \in Int
  BY SegmentAssumption
<1>2. IsFiniteSet(Offset)
  BY <1>1, FS_Interval DEF Offset
<1>3. IsFiniteSet(D)
  BY <1>2, FS_Subset
<1>4. \A o \in D: h[o].size \in Nat
  BY SegmentAssumption DEF Header, Offset
<1> QED BY <1>3, <1>4 DEF Weighs

\* The total depends on the sizes in D only.
LEMMA TotalFrame ==
  ASSUME NEW h \in [Offset -> Header], NEW g \in [Offset -> Header],
         NEW D \in SUBSET Offset, \A o \in D: h[o].size = g[o].size
  PROVE  Total(h, D) = Total(g, D)
<1>1. Weighs([o \in D |-> h[o].size], D)
  BY SizesWeigh
<1>2. \A o \in D: [x \in D |-> h[x].size][o] = [x \in D |-> g[x].size][o]
  OBVIOUS
<1> QED BY <1>1, <1>2, SumFrame DEF Total

\* Any block can be taken out of the total.
LEMMA TotalTakes ==
  ASSUME NEW h \in [Offset -> Header], NEW D \in SUBSET Offset
  PROVE  /\ Total(h, D) \in Nat
         /\ D = {} => Total(h, D) = 0
         /\ \A x \in D: Total(h, D) = h[x].size + Total(h, D \ {x})
<1> DEFINE f(E) == [o \in E |-> h[o].size]
<1>1. Weighs(f(D), D)
  BY SizesWeigh
<1>2. ASSUME NEW x \in D
      PROVE  SumFunctionOnSet(f(D), D \ {x}) = SumFunctionOnSet(f(D \ {x}), D \ {x})
  <2>1. Weighs(f(D), D \ {x})
    BY <1>1, FS_RemoveElement DEF Weighs
  <2>2. \A o \in D \ {x}: f(D)[o] = f(D \ {x})[o]
    OBVIOUS
  <2> HIDE DEF f
  <2> QED BY <2>1, <2>2, SumFrame
<1>3. \A x \in D: f(D)[x] = h[x].size
  OBVIOUS
<1>4. \A E: Total(h, E) = SumFunctionOnSet(f(E), E)
  BY DEF Total
<1> HIDE DEF f
<1> QED BY <1>1, <1>2, <1>3, <1>4, SumTakes

-----------------------------------------------------------------------------
(* Tilings *)

\* The offsets of a tiling and the sizes of its blocks are numbers in the segment.
LEMMA TilingTypes ==
  ASSUME NEW h, NEW B, Tiling(h, B)
  PROVE  /\ B \subseteq Offset /\ B \subseteq Nat
         /\ \A b \in B: /\ Start <= b /\ b <= Last /\ b # Null /\ b # First
                        /\ h[b].size \in Nat /\ NextBlock(h, b) = b + h[b].size /\ NextBlock(h, b) \in B
                        /\ b # Last => /\ h[b].size > 0 /\ b < NextBlock(h, b) /\ b < Last
                                       /\ NextBlock(h, b) <= Last
<1>1. ASSUME NEW b \in B
      PROVE  b \in Offset /\ b \in Nat /\ Start <= b /\ b <= Last /\ b # Null /\ b # First
             /\ h[b].size \in Nat
  <2>1. b \in Offset /\ b \in Nat /\ Start <= b /\ b <= Last /\ b # Null /\ b # First
    BY Layout DEF Tiling, Offset, Null
  <2>2. h[b].size \in Offset
    BY <2>1 DEF Tiling, Header
  <2> QED BY <2>1, <2>2, Layout DEF Offset
<1>2. ASSUME NEW b \in B
      PROVE  /\ NextBlock(h, b) = b + h[b].size /\ NextBlock(h, b) \in B
             /\ b # Last => h[b].size > 0 /\ b < NextBlock(h, b) /\ b < Last /\ NextBlock(h, b) <= Last
  <2>1. NextBlock(h, b) = b + h[b].size
    BY DEF NextBlock
  <2>2. CASE b = Last
    <3>1. h[b].size = 0
      BY <2>2 DEF Tiling
    <3>2. b + 0 = b
      BY <1>1
    <3> QED BY <2>1, <2>2, <3>1, <3>2
  <2>3. CASE b # Last
    <3>1. h[b].size > BlockSize /\ NextBlock(h, b) \in B
      BY <2>3 DEF Tiling
    <3>2. h[b].size > 0 /\ b < NextBlock(h, b)
      BY <3>1, <2>1, <1>1, Layout
    <3>3. b < Last /\ NextBlock(h, b) <= Last
      <4>1. NextBlock(h, b) <= Last
        BY <3>1, <1>1
      <4>2. b < Last
        BY <1>1, <2>3, Layout
      <4> QED BY <4>1, <4>2
    <3> QED BY <2>1, <3>1, <3>2, <3>3
  <2> QED BY <2>2, <2>3
<1> QED BY <1>1, <1>2

LEMMA Predecessor ==
  ASSUME NEW h, NEW B, Tiling(h, B), NEW c \in B, c # Start
  PROVE  \E b \in B \ {Last}: b < c /\ NextBlock(h, b) = c
<1> DEFINE D == {b \in B: b < c}
<1>1. B \subseteq Nat /\ c \in Nat /\ Start < c /\ Start \in B /\ c <= Last /\ Last \in Nat
  BY TilingTypes, Layout DEF Tiling, Offset
<1>2. PICK b \in D: \A d \in D: d <= b
  <2>1. D \subseteq Nat /\ D # {}
    BY <1>1
  <2>2. \A d \in D: d <= c
    BY <1>1
  <2> HIDE DEF D
  <2> QED BY <2>1, <2>2, <1>1, GreatestNat
<1>3. b \in B \ {Last} /\ b \in Nat
  BY <1>1
<1>4. NextBlock(h, b) \in B /\ NextBlock(h, b) > b /\ c >= NextBlock(h, b) /\ NextBlock(h, b) \in Nat
  BY <1>1, <1>3, TilingTypes DEF Tiling
<1>5. ~(NextBlock(h, b) < c)
  <2>1. ~(NextBlock(h, b) <= b)
    BY <1>3, <1>4
  <2> QED BY <2>1, <1>2, <1>4
<1> QED BY <1>1, <1>3, <1>4, <1>5

\* The blocks below b take no more than the space below b.
LEMMA TotalBelow ==
  ASSUME NEW h, NEW B, Tiling(h, B), NEW F \in SUBSET (B \ {Last})
  PROVE  /\ \A b \in B: Total(h, {o \in F: o < b}) <= b - Start
         /\ Total(h, F) <= Last - Start /\ Total(h, F) \in Nat
<1> DEFINE Below(b) == {o \in F: o < b}
           D == {b \in B: ~(Total(h, Below(b)) <= b - Start)}
<1>1. /\ B \subseteq Nat /\ B \subseteq Offset /\ F \in SUBSET Offset /\ h \in [Offset -> Header]
      /\ Start \in B /\ Start \in Nat /\ Last \in Nat /\ Last \in B
      /\ \A b \in B: Below(b) \in SUBSET Offset
  BY TilingTypes, Layout DEF Tiling, Offset
<1>2. D = {}
  <2>1. SUFFICES ASSUME D # {} PROVE FALSE
    OBVIOUS
  <2>2. PICK c \in D: \A d \in D: c <= d
    <3>1. D \subseteq Nat
      BY <1>1
    <3> HIDE DEF D
    <3> QED BY <2>1, <3>1, LeastNat
  <2>3. c # Start
    <3>1. Below(Start) = {}
      <4>1. \A o \in F: o \in Nat /\ Start <= o
        BY <1>1, TilingTypes
      <4>2. \A o \in F: ~(o < Start)
        BY <4>1, <1>1
      <4> QED BY <4>2
    <3>2. Total(h, Below(Start)) = 0
      BY <3>1, <1>1, TotalTakes
    <3> QED BY <3>2, <1>1
  <2>4. PICK b \in B \ {Last}: b < c /\ NextBlock(h, b) = c
    BY <2>3, Predecessor
  <2>5. c = b + h[b].size /\ h[b].size \in Nat /\ b \in Nat /\ c \in Nat /\ b \in Offset
    BY <2>4, <1>1, TilingTypes
  <2>6. Total(h, Below(b)) <= b - Start
    <3>1. b \notin D
      <4>1. ~(c <= b)
        BY <2>4, <2>5
      <4> HIDE DEF D
      <4> QED BY <4>1, <2>2
    <3> QED BY <3>1
  <2>7. Total(h, Below(b)) \in Nat /\ Total(h, Below(c)) \in Nat
    BY <1>1, TotalTakes
  <2>8. Below(c) \ {b} = Below(b)
    <3>1. ASSUME NEW o \in F, o < c, o # b PROVE o < b
      <4>1. o \in B \ {Last} /\ o \in Nat
        BY <1>1
      <4>2. o > b => o >= NextBlock(h, b)
        BY <4>1 DEF Tiling
      <4> QED BY <4>1, <4>2, <3>1, <2>4, <2>5
    <3>2. ASSUME NEW o \in F, o < b PROVE o < c /\ o # b
      <4>1. o \in Nat
        BY <1>1
      <4> QED BY <4>1, <3>2, <2>4, <2>5
    <3> QED BY <3>1, <3>2
  <2> HIDE DEF Below
  <2>9. Total(h, Below(c)) <= Total(h, Below(b)) + h[b].size
    <3>1. CASE b \in Below(c)
      <4>1. Total(h, Below(c)) = h[b].size + Total(h, Below(c) \ {b})
        BY <3>1, <1>1, TotalTakes
      <4> DEFINE x == Total(h, Below(c))
                 y == Total(h, Below(b))
                 s == h[b].size
      <4>2. x = s + y
        BY <4>1, <2>8
      <4>3. x \in Nat /\ y \in Nat /\ s \in Nat
        BY <2>5, <2>7
      <4> HIDE DEF x, y, s
      <4>4. x <= y + s
        BY <4>2, <4>3
      <4> QED BY <4>4 DEF x, y, s
    <3>2. CASE b \notin Below(c)
      <4>1. Below(c) = Below(b)
        BY <3>2, <2>8
      <4> QED BY <4>1, <2>5, <2>7
    <3> QED BY <3>1, <3>2
  <2>10. Total(h, Below(c)) <= c - Start
    BY <2>5, <2>6, <2>7, <2>9, <1>1
  <2> QED BY <2>10
<1>3. Below(Last) = F
  <2>1. \A o \in F: o < Last
    BY <1>1, TilingTypes
  <2> QED BY <2>1
<1>4. Total(h, Below(Last)) <= Last - Start
  BY <1>1, <1>2
<1>5. Total(h, F) \in Nat
  BY <1>1, TotalTakes
<1> QED BY <1>2, <1>3, <1>4, <1>5

LEMMA FieldTypes ==
  ASSUME NEW h \in [Offset -> Header], NEW o \in Offset
  PROVE  /\ h[o].size \in Offset /\ h[o].prev_size \in Offset /\ h[o].fnext \in Offset /\ h[o].fprev \in Offset
         /\ h[o].size \in Nat /\ h[o].prev_size \in Nat /\ h[o].fnext \in Nat /\ h[o].fprev \in Nat
         /\ o \in Nat /\ o <= Size
<1>1. h[o] \in Header
  OBVIOUS
<1>2. h[o].size \in Offset /\ h[o].prev_size \in Offset /\ h[o].fnext \in Offset /\ h[o].fprev \in Offset
  BY <1>1 DEF Header
<1>3. \A v \in Offset: v \in Nat /\ v <= Size
  BY Layout DEF Offset
<1> QED BY <1>2, <1>3

\* A block lies in front of another one or behind it, and no two end at the same place.
LEMMA NextApart ==
  ASSUME NEW h, NEW B, Tiling(h, B), NEW a \in B \ {Last}
  PROVE  /\ \A d \in B: d <= a \/ NextBlock(h, a) <= d
         /\ \A d \in B \ {Last}: NextBlock(h, d) = NextBlock(h, a) => d = a
<1>1. \A d \in B: d \in Nat /\ NextBlock(h, d) \in Nat /\ (d # Last => d < NextBlock(h, d))
  BY TilingTypes
<1>2. \A b \in B \ {Last}: \A d \in B: d <= b \/ NextBlock(h, b) <= d
  <2> SUFFICES ASSUME NEW b \in B \ {Last}, NEW d \in B PROVE d <= b \/ NextBlock(h, b) <= d
    OBVIOUS
  <2>1. d > b => d >= NextBlock(h, b)
    BY DEF Tiling
  <2> QED BY <2>1, <1>1
<1>3. ASSUME NEW d \in B \ {Last}, NextBlock(h, d) = NextBlock(h, a) PROVE d = a
  <2>1. d <= a \/ NextBlock(h, a) <= d
    BY <1>2
  <2>2. a <= d \/ NextBlock(h, d) <= a
    BY <1>2
  <2> QED BY <2>1, <2>2, <1>1, <1>3
<1> QED BY <1>2, <1>3

\* Two consecutive blocks made one.
Fuse(h, B, c, n, k) ==
  /\ c \in B \ {Last} /\ n = NextBlock(h, c) /\ n # Last
  /\ k \in [Offset -> Header] /\ k[c].size = h[c].size + h[n].size
  /\ \A b \in B \ {c, n}: k[b].size = h[b].size

FuseTiling(h, B, c, n, k) ==
  /\ Tiling(k, B \ {n}) /\ NextBlock(k, c) = NextBlock(h, n)
  /\ \A b \in B \ {c, n}: NextBlock(k, b) = NextBlock(h, b) /\ NextBlock(h, b) # n

LEMMA TilingMerge ==
  ASSUME NEW h, NEW B, NEW c, NEW n, NEW k, Tiling(h, B), Fuse(h, B, c, n, k)
  PROVE  FuseTiling(h, B, c, n, k)
<1> USE DEF Fuse
<1>1. /\ B \subseteq Start..Last /\ Start \in B /\ Last \in B /\ h[Last].size = 0
      /\ \A b \in B: b \in Nat /\ h[b].size \in Nat /\ NextBlock(h, b) = b + h[b].size
      /\ n \in B /\ n # c /\ Start <= c /\ c < n
  <2>1. B \subseteq Start..Last /\ Start \in B /\ Last \in B /\ h[Last].size = 0
    BY DEF Tiling
  <2>2. \A b \in B: b \in Nat /\ h[b].size \in Nat /\ NextBlock(h, b) = b + h[b].size
    BY TilingTypes
  <2>3. n \in B /\ Start <= c /\ c < n
    BY TilingTypes
  <2> QED BY <2>1, <2>2, <2>3
<1>2. NextBlock(k, c) = NextBlock(h, n) /\ NextBlock(h, n) \in B /\ n < NextBlock(h, n)
  <2>1. NextBlock(h, n) = n + h[n].size /\ NextBlock(h, n) \in B /\ n < NextBlock(h, n)
    BY <1>1, TilingTypes
  <2>2. NextBlock(k, c) = c + (h[c].size + h[n].size)
    BY DEF NextBlock
  <2>3. n = c + h[c].size /\ c \in Nat /\ n \in Nat /\ h[c].size \in Nat /\ h[n].size \in Nat
    BY <1>1
  <2>4. c + (h[c].size + h[n].size) = n + h[n].size
    BY <2>3
  <2> QED BY <2>1, <2>2, <2>4
<1>3. ASSUME NEW b \in B \ {c, n} PROVE NextBlock(k, b) = NextBlock(h, b)
  BY DEF NextBlock
<1>4. ASSUME NEW b \in B \ {c, n} PROVE NextBlock(h, b) # n
  <2>1. CASE b = Last
    <3>1. NextBlock(h, b) = Last
      BY <2>1, <1>1, Layout
    <3> QED BY <3>1
  <2>2. CASE b # Last
    <3>1. NextBlock(h, b) = NextBlock(h, c) => b = c
      BY <2>2, NextApart
    <3> QED BY <3>1
  <2> QED BY <2>1, <2>2
<1>5. n # Start
  BY <1>1, Layout
<1>6. ASSUME NEW b \in (B \ {n}) \ {Last}
      PROVE  /\ k[b].size > BlockSize /\ NextBlock(k, b) \in B \ {n}
             /\ \A d \in B \ {n}: d > b => d >= NextBlock(k, b)
  <2>1. CASE b = c
    <3>1. h[c].size > BlockSize
      BY DEF Tiling
    <3>2. k[c].size > BlockSize
      BY <3>1, <1>1, Layout
    <3>3. NextBlock(k, c) \in B \ {n}
      BY <1>1, <1>2
    <3>4. ASSUME NEW d \in B \ {n}, d > c PROVE d >= NextBlock(k, c)
      <4>1. d <= c \/ n <= d
        BY NextApart
      <4>2. n < d
        BY <4>1, <3>4, <1>1
      <4>3. d <= n \/ NextBlock(h, n) <= d
        BY <1>1, NextApart
      <4> QED BY <4>2, <4>3, <1>1, <1>2
    <3> QED BY <2>1, <3>2, <3>3, <3>4
  <2>2. CASE b # c
    <3>1. NextBlock(k, b) = NextBlock(h, b) /\ NextBlock(h, b) # n /\ k[b].size = h[b].size
      BY <2>2, <1>3, <1>4
    <3>2. /\ h[b].size > BlockSize /\ NextBlock(h, b) \in B
          /\ \A d \in B: d > b => d >= NextBlock(h, b)
      BY DEF Tiling
    <3> QED BY <3>1, <3>2
  <2> QED BY <2>1, <2>2
<1>7. k[Last].size = 0
  BY <1>1
<1>8. Tiling(k, B \ {n})
  BY <1>1, <1>5, <1>6, <1>7 DEF Tiling
<1> QED BY <1>2, <1>3, <1>4, <1>8 DEF FuseTiling

\* One block made two.
Cut(h, B, c, n, k) ==
  /\ c \in B \ {Last} /\ k \in [Offset -> Header] /\ n = c + k[c].size /\ n \in Offset
  /\ k[c].size > BlockSize /\ k[n].size > BlockSize /\ k[c].size + k[n].size = h[c].size
  /\ \A b \in B \ {c}: k[b].size = h[b].size

CutTiling(h, B, c, n, k) ==
  /\ n \notin B /\ n \in Start..(Last - 1) /\ c < n /\ n < NextBlock(h, c)
  /\ Tiling(k, B \cup {n}) /\ NextBlock(k, c) = n /\ NextBlock(k, n) = NextBlock(h, c)
  /\ \A b \in B \ {c}: NextBlock(k, b) = NextBlock(h, b)

LEMMA TilingSplit ==
  ASSUME NEW h, NEW B, NEW c, NEW n, NEW k, Tiling(h, B), Cut(h, B, c, n, k)
  PROVE  CutTiling(h, B, c, n, k)
<1> USE DEF Cut
<1>1. /\ B \subseteq Start..Last /\ Start \in B /\ Last \in B /\ h[Last].size = 0
      /\ \A b \in B: b \in Nat /\ h[b].size \in Nat /\ NextBlock(h, b) = b + h[b].size
      /\ Start <= c /\ c \in Offset
  BY TilingTypes DEF Tiling
<1> DEFINE N == NextBlock(h, c)
<1>2. N \in B /\ N \in Nat /\ N = c + h[c].size /\ N <= Last
  BY <1>1, TilingTypes
<1>3. k[c].size \in Nat /\ k[n].size \in Nat /\ n \in Nat
  BY <1>1, FieldTypes
<1> HIDE DEF N
<1>4. c < n /\ n < N /\ n + k[n].size = N
  BY <1>1, <1>2, <1>3, Layout
<1>5. NextBlock(k, c) = n /\ NextBlock(k, n) = N
  BY <1>4 DEF NextBlock
<1>6. ASSUME NEW b \in B \ {c} PROVE NextBlock(k, b) = NextBlock(h, b)
  BY DEF NextBlock
<1>7. \A d \in B: d <= c \/ N <= d
  BY NextApart DEF N
<1>8. n \notin B
  <2>1. c \in Nat
    BY <1>1
  <2>2. ~(n <= c) /\ ~(N <= n)
    BY <2>1, <1>2, <1>3, <1>4
  <2> QED BY <2>2, <1>7
<1>9. n \in Start..(Last - 1)
  BY <1>1, <1>2, <1>3, <1>4, Layout
<1>10. ASSUME NEW b \in (B \cup {n}) \ {Last}
       PROVE  /\ k[b].size > BlockSize /\ NextBlock(k, b) \in B \cup {n}
              /\ \A d \in B \cup {n}: d > b => d >= NextBlock(k, b)
  <2>1. CASE b = c
    <3>1. ASSUME NEW d \in B \cup {n}, d > c PROVE d >= n
      BY <3>1, <1>7, <1>1, <1>2, <1>3, <1>4
    <3> QED BY <2>1, <3>1, <1>5
  <2>2. CASE b = n
    <3>1. ASSUME NEW d \in B \cup {n}, d > n PROVE d >= N
      BY <3>1, <1>7, <1>1, <1>2, <1>3, <1>4
    <3> QED BY <2>2, <3>1, <1>2, <1>5
  <2>3. CASE b \in B \ {c, Last}
    <3>1. /\ k[b].size > BlockSize /\ NextBlock(h, b) \in B
          /\ \A d \in B: d > b => d >= NextBlock(h, b)
      BY <2>3 DEF Tiling
    <3>2. n > b => n >= NextBlock(h, b)
      <4>1. c <= b \/ NextBlock(h, b) <= c
        BY <2>3, NextApart
      <4>2. b <= c \/ N <= b
        BY <2>3, <1>7
      <4>3. NextBlock(h, b) \in Nat /\ b \in Nat /\ c \in Nat
        BY <2>3, <3>1, <1>1
      <4> QED BY <4>1, <4>2, <4>3, <2>3, <1>2, <1>3, <1>4
    <3> QED BY <3>1, <3>2, <2>3, <1>6
  <2> QED BY <2>1, <2>2, <2>3
<1>11. n \in Start..Last /\ k[Last].size = 0
  BY <1>1, <1>9, Layout
<1>12. Tiling(k, B \cup {n})
  BY <1>1, <1>10, <1>11 DEF Tiling
<1> QED BY <1>4, <1>5, <1>6, <1>8, <1>9, <1>12 DEF N, CutTiling

\* Taking a block off the list changes no other link but to a listed block.
Unlinked(h, F, c, g) ==
  /\ Grounded(g) /\ Listed(g, F \ {c})
  /\ \A o \in Offset:
       /\ g[o].size = h[o].size
       /\ g[o].prev_size = h[o].prev_size
       /\ g[o].fnext = Null <=> h[o].fnext = Null
       /\ o \notin F \cup {Last} => g[o].fprev = h[o].fprev

LEMMA UnlinkKeeps ==
  ASSUME NEW h, NEW F, Grounded(h), Listed(h, F), F \subseteq Start..(Last - 1), NEW c \in F
  PROVE  Unlinked(h, F, c, Unlink(h, c))
<1> DEFINE g == Unlink(h, c)
<1>1. h \in [Offset -> Header] /\ h[Last].fnext = Null /\ h[Null].fnext = Null
  BY DEF Grounded
<1>2. /\ F \subseteq Offset /\ First \in Offset /\ Last \in Offset /\ Null \in Offset /\ c \in Offset
      /\ Null \notin F \cup {First, Last} /\ Last \notin F \cup {First} /\ First \notin F
  BY Layout DEF Offset
<1>3. PICK rk \in [Offset -> Nat]: Links(h, F, rk)
  BY DEF Listed
<1>4. h[c].fnext \in F \cup {Last} /\ h[c].fprev \in F \cup {First} /\ h[h[c].fprev].fnext = c
  BY <1>3 DEF Links
<1>5. g \in [Offset -> Header]
      /\ \A o \in Offset:
           /\ g[o].size = h[o].size
           /\ g[o].prev_size = h[o].prev_size
           /\ g[o].fnext = IF o = h[c].fprev THEN h[c].fnext ELSE h[o].fnext
           /\ g[o].fprev = IF o = h[c].fnext THEN h[c].fprev ELSE h[o].fprev
  BY <1>1, <1>2, UnlinkFields
<1>6. Listed(g, F \ {c})
  BY <1>1, ListedUnlink
<1> HIDE DEF g
<1>7. ASSUME NEW o \in Offset
      PROVE  /\ g[o].fnext = Null <=> h[o].fnext = Null
             /\ o \notin F \cup {Last} => g[o].fprev = h[o].fprev
  <2>1. CASE o = h[c].fprev
    BY <2>1, <1>2, <1>4, <1>5
  <2>2. CASE o # h[c].fprev
    BY <2>2, <1>4, <1>5
  <2> QED BY <2>1, <2>2
<1>8. Grounded(g)
  BY <1>1, <1>2, <1>5, <1>7 DEF Grounded
<1> QED BY <1>5, <1>6, <1>7, <1>8 DEF g, Unlinked

Linked(h, F, c, g) ==
  /\ Grounded(g) /\ Listed(g, F \cup {c}) /\ g[c].fnext # Null
  /\ \A o \in Offset:
       /\ g[o].size = h[o].size
       /\ g[o].prev_size = h[o].prev_size
       /\ o # c => (g[o].fnext = Null <=> h[o].fnext = Null)
       /\ o \notin F \cup {Last, c} => g[o].fprev = h[o].fprev

LEMMA LinkKeeps ==
  ASSUME NEW h, NEW F, Grounded(h), Listed(h, F), F \subseteq Start..(Last - 1),
         NEW c \in Start..(Last - 1), c \notin F
  PROVE  Linked(h, F, c, Link(h, c))
<1> DEFINE g == Link(h, c)
<1>1. h \in [Offset -> Header] /\ h[Last].fnext = Null /\ h[Null].fnext = Null
  BY DEF Grounded
<1>2. /\ F \subseteq Offset /\ First \in Offset /\ Last \in Offset /\ Null \in Offset /\ c \in Offset
      /\ Null \notin F \cup {First, Last, c} /\ Last \notin F \cup {First, c} /\ First \notin F \cup {c}
  BY Layout DEF Offset
<1>3. PICK rk \in [Offset -> Nat]: Links(h, F, rk)
  BY DEF Listed
<1>4. h[First].fnext \in F \cup {Last} /\ h[First].fnext # c
  BY <1>2, <1>3 DEF Links
<1>5. g \in [Offset -> Header]
      /\ \A o \in Offset:
           /\ g[o].size = h[o].size
           /\ g[o].prev_size = h[o].prev_size
           /\ g[o].fnext = IF o = c THEN h[First].fnext ELSE IF o = First THEN c ELSE h[o].fnext
           /\ g[o].fprev = IF o = c THEN First ELSE IF o = h[First].fnext THEN c ELSE h[o].fprev
  BY <1>1, <1>2, <1>4, LinkFields
<1>6. Listed(g, F \cup {c})
  BY <1>1, ListedLink
<1> HIDE DEF g
<1>7. ASSUME NEW o \in Offset
      PROVE  /\ o # c => (g[o].fnext = Null <=> h[o].fnext = Null)
             /\ o \notin F \cup {Last, c} => g[o].fprev = h[o].fprev
  <2>1. CASE o = First
    BY <2>1, <1>2, <1>4, <1>5
  <2>2. CASE o # First
    BY <2>2, <1>4, <1>5
  <2> QED BY <2>1, <2>2
<1>8. g[c].fnext # Null
  BY <1>2, <1>4, <1>5
<1>9. Grounded(g)
  BY <1>1, <1>2, <1>5, <1>7 DEF Grounded
<1> QED BY <1>5, <1>6, <1>7, <1>8, <1>9 DEF g, Linked

-----------------------------------------------------------------------------
(* The heap: what the allocator keeps true of headers, tags and free list *)

FreeIn(h, B) == {b \in B \ {Last}: h[b].fnext # Null}
UsedIn(h, B) == {b \in B \ {Last}: h[b].fnext = Null}

\* The tag behind a free block is its size, that behind an allocated one 0, and no two
\* free blocks are consecutive; the tag behind the block c may be out of date.
Tagged(h, B, c) ==
  /\ h[Start].prev_size = 0
  /\ \A b \in B \ {Last}:
       IF b \in FreeIn(h, B)
         THEN NextBlock(h, b) \notin FreeIn(h, B) /\ (b = c \/ h[NextBlock(h, b)].prev_size = h[b].size)
         ELSE h[NextBlock(h, b)].prev_size = 0

\* A segment in order, with the free blocks in L on the list.
Heap(h, B, c, L) == Tiling(h, B) /\ Grounded(h) /\ Tagged(h, B, c) /\ Listed(h, L)

\* The blocks in U are left alone.
Untouched(h, k, U) == \A u \in U: k[u].size = h[u].size /\ k[u].fprev = h[u].fprev

LEMMA HeapSets ==
  ASSUME NEW h, NEW B, Tiling(h, B)
  PROVE  /\ FreeIn(h, B) \subseteq Start..(Last - 1) /\ FreeIn(h, B) \subseteq Offset /\ UsedIn(h, B) \subseteq Offset
         /\ Null \notin B /\ First \notin B /\ B \subseteq Offset
         /\ h \in [Offset -> Header]
         /\ \A b \in B \ {Last}: b \in FreeIn(h, B) <=> b \notin UsedIn(h, B)
         /\ \A b \in B: b \in FreeIn(h, B) <=> b # Last /\ h[b].fnext # Null
         /\ Last \notin FreeIn(h, B) /\ Last \notin UsedIn(h, B)
<1>1. \A b \in B: b \in Nat /\ Start <= b /\ (b # Last => b < Last) /\ b # Null /\ b # First /\ b \in Offset
  BY TilingTypes
<1>2. FreeIn(h, B) \subseteq Start..(Last - 1)
  BY <1>1, Layout DEF FreeIn
<1> QED BY <1>1, <1>2 DEF FreeIn, UsedIn, Tiling

AllocResult(h, B, c, real, k, B2) ==
  /\ Heap(k, B2, Null, FreeIn(k, B2))
  /\ UsedIn(k, B2) = UsedIn(h, B) \cup {c} /\ Untouched(h, k, UsedIn(h, B))
  /\ k[c].fprev = real /\ k[c].size >= real
  /\ Total(k, FreeIn(k, B2)) + k[c].size = Total(h, FreeIn(h, B))

\* A block handed out whole.
LEMMA AllocateWhole ==
  ASSUME NEW h, NEW B, Heap(h, B, Null, FreeIn(h, B)), NEW c \in FreeIn(h, B),
         NEW real \in Offset, h[c].size >= real, TooSmallToSplit(h[c].size, real)
  PROVE  AllocResult(h, B, c, real, Allocated(h, c, real), B)
<1> DEFINE F == FreeIn(h, B)
           g == Unlink(h, c)
           n == NextBlock(h, c)
           k1 == [g EXCEPT ![n].prev_size = 0]
           k2 == [k1 EXCEPT ![c].fnext = 0]
           k == [k2 EXCEPT ![c].fprev = real]
<1>1. Tiling(h, B) /\ Grounded(h) /\ Tagged(h, B, Null) /\ Listed(h, F)
  BY DEF Heap
<1>2. /\ F \subseteq Start..(Last - 1) /\ F \subseteq Offset /\ UsedIn(h, B) \subseteq Offset
      /\ Null \notin B /\ First \notin B /\ B \subseteq Offset
      /\ \A b \in B \ {Last}: b \in F <=> b \notin UsedIn(h, B)
      /\ \A b \in B: b \in F <=> b # Last /\ h[b].fnext # Null
      /\ Last \notin F /\ Last \notin UsedIn(h, B)
      /\ c \in B \ {Last} /\ n \in B
      /\ First \in Offset /\ Last \in Offset /\ Null \in Offset /\ First # Last /\ First # Null /\ Last # Null
      /\ 0 = Null
  BY <1>1, HeapSets, TilingTypes, Layout DEF FreeIn
<1> HIDE DEF F, n
<1>3. /\ Grounded(g) /\ Listed(g, F \ {c})
      /\ \A o \in Offset:
           /\ g[o].size = h[o].size
           /\ g[o].prev_size = h[o].prev_size
           /\ g[o].fnext = Null <=> h[o].fnext = Null
           /\ o \notin F \cup {Last} => g[o].fprev = h[o].fprev
  <2>1. Unlinked(h, F, c, g)
    BY <1>1, <1>2, UnlinkKeeps DEF F
  <2> QED BY <2>1 DEF Unlinked
<1>4. Allocated(h, c, real) = k
  <2>1. g[c].size = h[c].size /\ NextBlock(g, c) = n
    BY <1>2, <1>3 DEF NextBlock, n
  <2> HIDE DEF g
  <2> QED BY <2>1 DEF Allocated, g
<1> HIDE DEF g
<1>5. g \in [Offset -> Header] /\ g[Last].fnext = Null /\ g[Null].fnext = Null
  BY <1>3 DEF Grounded
<1>6. k1 \in [Offset -> Header]
      /\ \A o \in Offset: /\ k1[o].prev_size = IF o = n THEN 0 ELSE g[o].prev_size
                          /\ k1[o].size = g[o].size /\ k1[o].fnext = g[o].fnext /\ k1[o].fprev = g[o].fprev
  BY <1>2, <1>5, SetPrevSize
<1> HIDE DEF k1
<1>7. k2 \in [Offset -> Header]
      /\ \A o \in Offset: /\ k2[o].fnext = IF o = c THEN 0 ELSE k1[o].fnext
                          /\ k2[o].size = k1[o].size /\ k2[o].prev_size = k1[o].prev_size /\ k2[o].fprev = k1[o].fprev
  BY <1>2, <1>6, SetFnext
<1> HIDE DEF k2
<1>8. k \in [Offset -> Header]
      /\ \A o \in Offset: /\ k[o].fprev = IF o = c THEN real ELSE k2[o].fprev
                          /\ k[o].size = k2[o].size /\ k[o].prev_size = k2[o].prev_size /\ k[o].fnext = k2[o].fnext
  BY <1>2, <1>7, SetFprev
<1> HIDE DEF k
<1>9. \A o \in Offset:
        /\ k[o].size = h[o].size
        /\ k[o].prev_size = IF o = n THEN 0 ELSE h[o].prev_size
        /\ k[o].fnext = IF o = c THEN Null ELSE g[o].fnext
        /\ k[o].fprev = IF o = c THEN real ELSE g[o].fprev
  BY <1>2, <1>3, <1>6, <1>7, <1>8
<1>10. \A o \in Offset: k[o].fnext = Null <=> o = c \/ h[o].fnext = Null
  BY <1>3, <1>9
<1>11. Tiling(k, B) /\ \A b \in B: NextBlock(k, b) = NextBlock(h, b)
  <2>1. \A b \in B: NextBlock(k, b) = NextBlock(h, b) /\ k[b].size = h[b].size
    BY <1>2, <1>9 DEF NextBlock
  <2> QED BY <2>1, <1>1, <1>8 DEF Tiling
<1>12. FreeIn(k, B) = F \ {c} /\ UsedIn(k, B) = UsedIn(h, B) \cup {c}
  BY <1>2, <1>10 DEF FreeIn, UsedIn, F
<1>13. Grounded(k)
  BY <1>2, <1>5, <1>8, <1>10, <1>3 DEF Grounded
<1>14. Listed(k, F \ {c})
  <2>1. \A o \in (F \ {c}) \cup {First}: k[o].fnext = g[o].fnext
    BY <1>2, <1>9
  <2>2. \A o \in (F \ {c}) \cup {Last}: k[o].fprev = g[o].fprev
    BY <1>2, <1>9
  <2> QED BY <2>1, <2>2, <1>3, ListedFrame
<1>15. Tagged(k, B, Null)
  <2>1. k[Start].prev_size = 0
    <3>1. h[Start].prev_size = 0 /\ Start \in Offset
      BY <1>1, Layout DEF Tagged
    <3> QED BY <3>1, <1>9
  <2>2. ASSUME NEW b \in B \ {Last}
        PROVE  IF b \in F \ {c}
                 THEN NextBlock(h, b) \notin F \ {c} /\ (b = Null \/ k[NextBlock(h, b)].prev_size = k[b].size)
                 ELSE k[NextBlock(h, b)].prev_size = 0
    <3>1. IF b \in F
            THEN NextBlock(h, b) \notin F /\ (b = Null \/ h[NextBlock(h, b)].prev_size = h[b].size)
            ELSE h[NextBlock(h, b)].prev_size = 0
      BY <1>1 DEF Tagged, F
    <3>2. NextBlock(h, b) \in Offset /\ b \in Offset
      BY <1>1, <1>2, TilingTypes
    <3>3. NextBlock(h, b) = n => b = c
      BY <1>1, <1>2, NextApart DEF n
    <3>4. CASE b = c
      <4>1. NextBlock(h, b) = n
        BY <3>4 DEF n
      <4> QED BY <4>1, <3>2, <3>4, <1>9
    <3>5. CASE b # c
      BY <3>5, <3>1, <3>2, <3>3, <1>9
    <3> QED BY <3>4, <3>5
  <2> QED BY <2>1, <2>2, <1>11, <1>12 DEF Tagged
<1>16. Untouched(h, k, UsedIn(h, B))
  <2> SUFFICES ASSUME NEW u \in UsedIn(h, B) PROVE k[u].size = h[u].size /\ k[u].fprev = h[u].fprev
    BY DEF Untouched
  <2>1. u \in Offset /\ u \in B \ {Last} /\ u \notin F /\ u # c
    BY <1>2 DEF UsedIn, F
  <2> QED BY <2>1, <1>3, <1>9
<1>17. Total(k, F \ {c}) + k[c].size = Total(h, F)
  <2>1. Total(k, F \ {c}) = Total(h, F \ {c})
    <3>1. \A o \in F \ {c}: k[o].size = h[o].size
      BY <1>2, <1>9
    <3> QED BY <3>1, <1>1, <1>2, <1>8, TotalFrame DEF Tiling
  <2>2. Total(h, F) = h[c].size + Total(h, F \ {c}) /\ Total(h, F \ {c}) \in Nat
    <3>1. c \in F
      BY DEF F
    <3>2. F \in SUBSET Offset /\ F \ {c} \in SUBSET Offset /\ h \in [Offset -> Header]
      BY <1>1, <1>2 DEF Tiling
    <3> QED BY <3>1, <3>2, TotalTakes
  <2>3. k[c].size = h[c].size /\ h[c].size \in Nat
    BY <1>1, <1>2, <1>9, TilingTypes
  <2> QED BY <2>1, <2>2, <2>3
<1>18. k[c].fprev = real /\ k[c].size >= real
  BY <1>2, <1>9
<1>19. Heap(k, B, Null, FreeIn(k, B))
  BY <1>11, <1>12, <1>13, <1>14, <1>15 DEF Heap
<1> QED BY <1>4, <1>12, <1>16, <1>17, <1>18, <1>19 DEF AllocResult, F

\* A block split, its upper part put back on the list.
LEMMA AllocateSplit ==
  ASSUME NEW h, NEW B, Heap(h, B, Null, FreeIn(h, B)), NEW c \in FreeIn(h, B),
         NEW real \in Offset, real > BlockSize, ~TooSmallToSplit(h[c].size, real)
  PROVE  AllocResult(h, B, c, real, Allocated(h, c, real), B \cup {c + real})
<1> DEFINE F == FreeIn(h, B)
           g == Unlink(h, c)
           n == c + real
           rest == h[c].size - real
           N == NextBlock(h, c)
           g1 == [g EXCEPT ![c].size = real]
           g2 == [g1 EXCEPT ![n].prev_size = 0]
           g3 == [g2 EXCEPT ![n].size = rest]
           g4 == [g3 EXCEPT ![N].prev_size = rest]
           g5 == Link(g4, n)
           g6 == [g5 EXCEPT ![c].fnext = 0]
           k == [g6 EXCEPT ![c].fprev = real]
           B2 == B \cup {n}
<1>1. Tiling(h, B) /\ Grounded(h) /\ Tagged(h, B, Null) /\ Listed(h, F)
  BY DEF Heap
<1>2. /\ F \subseteq Start..(Last - 1) /\ F \subseteq Offset /\ UsedIn(h, B) \subseteq Offset
      /\ Null \notin B /\ First \notin B /\ B \subseteq Offset
      /\ \A b \in B \ {Last}: b \in F <=> b \notin UsedIn(h, B)
      /\ \A b \in B: b \in F <=> b # Last /\ h[b].fnext # Null
      /\ Last \notin F /\ Last \notin UsedIn(h, B)
      /\ c \in B \ {Last} /\ c \in F /\ N \in B
      /\ First \in Offset /\ Last \in Offset /\ Null \in Offset /\ First # Last /\ First # Null /\ Last # Null
      /\ 0 = Null
  BY <1>1, HeapSets, TilingTypes, Layout DEF FreeIn
<1>3. /\ rest \in Nat /\ rest > BlockSize /\ real + rest = h[c].size /\ rest \in Offset
      /\ n + rest = N /\ n \in Offset /\ n \in Nat
  <2>1. c \in Nat /\ h[c].size \in Nat /\ h[c].size <= Size /\ real \in Nat /\ N = c + h[c].size
        /\ N <= Size /\ N \in Nat
    BY <1>1, <1>2, FieldTypes DEF Tiling, NextBlock
  <2>2. h[c].size >= real + MinBlock
    <3>1. real + MinBlock \in Nat
      BY <2>1, Layout
    <3> QED BY <2>1, <3>1 DEF TooSmallToSplit
  <2>3. rest \in Nat /\ rest > BlockSize
    BY <2>1, <2>2, Layout
  <2>4. rest <= Size /\ n <= Size /\ n \in Nat
    BY <2>1, <2>2, <2>3, Layout
  <2> QED BY <2>1, <2>3, <2>4, Layout DEF Offset
<1> HIDE DEF F, N
<1>4. /\ Grounded(g) /\ Listed(g, F \ {c})
      /\ \A o \in Offset:
           /\ g[o].size = h[o].size
           /\ g[o].prev_size = h[o].prev_size
           /\ g[o].fnext = Null <=> h[o].fnext = Null
           /\ o \notin F \cup {Last} => g[o].fprev = h[o].fprev
  <2>1. Unlinked(h, F, c, g)
    BY <1>1, <1>2, UnlinkKeeps DEF F
  <2> QED BY <2>1 DEF Unlinked
<1>5. Allocated(h, c, real) = k
  <2>1. g[c].size = h[c].size
    BY <1>2, <1>4
  <2> HIDE DEF g
  <2>2. Split(g, c, real) = g5
    BY <2>1, <1>3 DEF Split
  <2> HIDE DEF g5
  <2>3. ~TooSmallToSplit(g[c].size, real)
    BY <2>1
  <2> QED BY <2>2, <2>3 DEF Allocated, g
<1> HIDE DEF g, rest, n
<1>6. g \in [Offset -> Header] /\ g[Last].fnext = Null /\ g[Null].fnext = Null /\ 0 \in Offset
  BY <1>2, <1>4 DEF Grounded
<1>7. g1 \in [Offset -> Header]
      /\ \A o \in Offset: /\ g1[o].size = IF o = c THEN real ELSE g[o].size
                          /\ g1[o].prev_size = g[o].prev_size /\ g1[o].fnext = g[o].fnext /\ g1[o].fprev = g[o].fprev
  BY <1>2, <1>6, SetSize
<1> HIDE DEF g1
<1>8. g2 \in [Offset -> Header]
      /\ \A o \in Offset: /\ g2[o].prev_size = IF o = n THEN 0 ELSE g1[o].prev_size
                          /\ g2[o].size = g1[o].size /\ g2[o].fnext = g1[o].fnext /\ g2[o].fprev = g1[o].fprev
  BY SMTT(30), <1>3, <1>6, <1>7, SetPrevSize
<1> HIDE DEF g2
<1>9. g3 \in [Offset -> Header]
      /\ \A o \in Offset: /\ g3[o].size = IF o = n THEN rest ELSE g2[o].size
                          /\ g3[o].prev_size = g2[o].prev_size /\ g3[o].fnext = g2[o].fnext /\ g3[o].fprev = g2[o].fprev
  BY <1>3, <1>8, SetSize
<1> HIDE DEF g3
<1>10. g4 \in [Offset -> Header]
      /\ \A o \in Offset: /\ g4[o].prev_size = IF o = N THEN rest ELSE g3[o].prev_size
                          /\ g4[o].size = g3[o].size /\ g4[o].fnext = g3[o].fnext /\ g4[o].fprev = g3[o].fprev
  BY <1>2, <1>3, <1>9, SetPrevSize
<1> HIDE DEF g4
<1>11. n # c
  <2>1. c \in Nat /\ real \in Nat
    BY <1>1, <1>2, FieldTypes DEF Tiling
  <2> QED BY <2>1, Layout DEF n
<1>12. \A o \in Offset: /\ g4[o].size = IF o = n THEN rest ELSE IF o = c THEN real ELSE h[o].size
                        /\ g4[o].prev_size = IF o = N THEN rest ELSE IF o = n THEN 0 ELSE h[o].prev_size
                        /\ g4[o].fnext = g[o].fnext /\ g4[o].fprev = g[o].fprev
  BY <1>4, <1>7, <1>8, <1>9, <1>10
<1>13. Grounded(g4) /\ Listed(g4, F \ {c})
  <2>1. Grounded(g4)
    BY <1>2, <1>6, <1>10, <1>12 DEF Grounded
  <2>2. \A o \in (F \ {c}) \cup {First}: g4[o].fnext = g[o].fnext
    BY <1>2, <1>12
  <2>3. \A o \in (F \ {c}) \cup {Last}: g4[o].fprev = g[o].fprev
    BY <1>2, <1>12
  <2> QED BY <2>1, <2>2, <2>3, <1>4, ListedFrame
<1>14. /\ n \notin B /\ n \in Start..(Last - 1) /\ n # N
       /\ Tiling(g4, B2) /\ NextBlock(g4, c) = n /\ NextBlock(g4, n) = N
       /\ \A b \in B \ {c}: NextBlock(g4, b) = NextBlock(h, b)
  <2>1. g4[c].size = real /\ g4[n].size = rest /\ \A b \in B \ {c}: b # n => g4[b].size = h[b].size
    BY <1>2, <1>3, <1>11, <1>12
  <2>2. n \notin B
    <3>1. \A d \in B: d <= c \/ N <= d
      BY <1>1, <1>2, NextApart DEF N
    <3>2. c \in Nat /\ N \in Nat /\ real \in Nat /\ c < n /\ n < N
      <4>1. c \in Nat /\ N \in Nat /\ real \in Nat
        BY <1>1, <1>2, FieldTypes DEF Tiling
      <4> QED BY <4>1, <1>3, Layout DEF n
    <3>3. ~(n <= c) /\ ~(N <= n)
      BY <3>2, <1>3
    <3> QED BY <3>1, <3>3
  <2>3. \A b \in B \ {c}: g4[b].size = h[b].size
    BY <2>1, <2>2
  <2>4. n = c + g4[c].size
    BY <2>1 DEF n
  <2>5. c \in B \ {Last} /\ n \in Offset /\ g4[c].size > BlockSize /\ g4[n].size > BlockSize
        /\ g4[c].size + g4[n].size = h[c].size /\ g4 \in [Offset -> Header]
    BY <2>1, <1>2, <1>3, <1>10
  <2>7. Cut(h, B, c, n, g4)
    BY <2>3, <2>4, <2>5 DEF Cut
  <2>6. CutTiling(h, B, c, n, g4)
    BY <2>7, <1>1, TilingSplit
  <2> QED BY <2>2, <2>6, <1>2 DEF N, CutTiling
<1>15. /\ Grounded(g5) /\ Listed(g5, (F \ {c}) \cup {n}) /\ g5[n].fnext # Null
       /\ \A o \in Offset:
            /\ g5[o].size = g4[o].size
            /\ g5[o].prev_size = g4[o].prev_size
            /\ o # n => (g5[o].fnext = Null <=> g4[o].fnext = Null)
            /\ o \notin (F \ {c}) \cup {Last, n} => g5[o].fprev = g4[o].fprev
  <2>1. F \ {c} \subseteq Start..(Last - 1) /\ n \notin F \ {c}
    BY <1>2, <1>14 DEF F, FreeIn
  <2>2. Linked(g4, F \ {c}, n, g5)
    BY <2>1, <1>13, <1>14, LinkKeeps
  <2> HIDE DEF g5
  <2> QED BY <2>2 DEF Linked
<1> HIDE DEF g5
<1>16. g5 \in [Offset -> Header] /\ g5[Last].fnext = Null /\ g5[Null].fnext = Null
  BY <1>15 DEF Grounded
<1>17. g6 \in [Offset -> Header]
      /\ \A o \in Offset: /\ g6[o].fnext = IF o = c THEN 0 ELSE g5[o].fnext
                          /\ g6[o].size = g5[o].size /\ g6[o].prev_size = g5[o].prev_size /\ g6[o].fprev = g5[o].fprev
  BY <1>2, <1>6, <1>16, SetFnext
<1> HIDE DEF g6
<1>18. k \in [Offset -> Header]
      /\ \A o \in Offset: /\ k[o].fprev = IF o = c THEN real ELSE g6[o].fprev
                          /\ k[o].size = g6[o].size /\ k[o].prev_size = g6[o].prev_size /\ k[o].fnext = g6[o].fnext
  BY <1>2, <1>17, SetFprev
<1> HIDE DEF k
<1>19. \A o \in Offset:
         /\ k[o].size = g4[o].size
         /\ k[o].size = IF o = n THEN rest ELSE IF o = c THEN real ELSE h[o].size
         /\ k[o].prev_size = IF o = N THEN rest ELSE IF o = n THEN 0 ELSE h[o].prev_size
         /\ k[o].fnext = IF o = c THEN Null ELSE g5[o].fnext
         /\ k[o].fprev = IF o = c THEN real ELSE g5[o].fprev
  BY <1>2, <1>12, <1>15, <1>17, <1>18
<1>20. \A o \in Offset: k[o].fnext = Null <=> o = c \/ (o # n /\ h[o].fnext = Null)
  BY <1>4, <1>11, <1>12, <1>15, <1>19
<1>21. Tiling(k, B2) /\ NextBlock(k, c) = n /\ NextBlock(k, n) = N
       /\ \A b \in B \ {c}: NextBlock(k, b) = NextBlock(h, b)
  <2>1. \A b \in B2: b \in Offset
    BY <1>2, <1>3
  <2>2. \A b \in B2: NextBlock(k, b) = NextBlock(g4, b) /\ k[b].size = g4[b].size
    BY <2>1, <1>19 DEF NextBlock
  <2>3. Tiling(k, B2)
    <3> HIDE DEF B2
    <3> QED BY <2>2, <1>14, <1>18 DEF Tiling
  <2> QED BY <2>2, <2>3, <1>2, <1>14
<1>22. FreeIn(k, B2) = (F \ {c}) \cup {n} /\ UsedIn(k, B2) = UsedIn(h, B) \cup {c}
  <2>1. n # Last /\ n \notin F
    BY <1>2, <1>14 DEF F, FreeIn
  <2>2. \A b \in B2: b \in Offset
    BY <1>2, <1>3
  <2>3. \A b \in B2 \ {Last}: b \in FreeIn(k, B2) <=> b \in (F \ {c}) \cup {n}
    BY <2>2, <1>2, <1>11, <1>20 DEF FreeIn
  <2>4. \A b \in B2 \ {Last}: b \in UsedIn(k, B2) <=> b \in UsedIn(h, B) \cup {c}
    BY <2>2, <1>2, <1>11, <1>14, <1>20 DEF UsedIn
  <2>5. F \subseteq B \ {Last} /\ UsedIn(h, B) \subseteq B \ {Last}
        /\ FreeIn(k, B2) \subseteq B2 \ {Last} /\ UsedIn(k, B2) \subseteq B2 \ {Last}
    BY DEF F, FreeIn, UsedIn
  <2> QED BY ZenonT(30), <2>1, <2>3, <2>4, <2>5, <1>2
<1>23. Grounded(k)
  BY <1>2, <1>3, <1>14, <1>16, <1>18, <1>19 DEF Grounded
<1>24. Listed(k, (F \ {c}) \cup {n})
  <2>1. \A o \in ((F \ {c}) \cup {n}) \cup {First}: k[o].fnext = g5[o].fnext
    BY <1>2, <1>3, <1>11, <1>19
  <2>2. \A o \in ((F \ {c}) \cup {n}) \cup {Last}: k[o].fprev = g5[o].fprev
    BY <1>2, <1>3, <1>11, <1>19
  <2> QED BY <2>1, <2>2, <1>15, ListedFrame
<1>25. Tagged(k, B2, Null)
  <2>1. k[Start].prev_size = 0
    <3>1. h[Start].prev_size = 0 /\ Start \in Offset /\ Start \in B /\ \A b \in B: Start <= b /\ b \in Nat
      BY <1>1, TilingTypes, Layout DEF Tagged, Tiling
    <3>2. N # Start
      <4>1. c < N /\ Start <= c /\ c \in Nat /\ N \in Nat
        BY <1>1, <1>2, <3>1, TilingTypes DEF N
      <4> QED BY <4>1, Layout
    <3>3. Start # n
      BY <3>1, <1>14
    <3> QED BY <3>1, <3>2, <3>3, <1>19
  <2>2. ASSUME NEW b \in B2 \ {Last}
        PROVE  IF b \in (F \ {c}) \cup {n}
                 THEN NextBlock(k, b) \notin (F \ {c}) \cup {n}
                      /\ (b = Null \/ k[NextBlock(k, b)].prev_size = k[b].size)
                 ELSE k[NextBlock(k, b)].prev_size = 0
    <3>1. CASE b = n
      <4>1. N \notin F
        BY <1>1, <1>2 DEF Tagged, F, N
      <4> QED BY <4>1, <3>1, <1>2, <1>3, <1>14, <1>19, <1>21
    <3>2. CASE b = c
      BY <3>2, <1>3, <1>11, <1>14, <1>19, <1>21
    <3>3. CASE b \in B \ {Last, c}
      <4>1. IF b \in F
              THEN NextBlock(h, b) \notin F /\ (b = Null \/ h[NextBlock(h, b)].prev_size = h[b].size)
              ELSE h[NextBlock(h, b)].prev_size = 0
        BY <3>3, <1>1 DEF Tagged, F
      <4>2. NextBlock(h, b) \in B /\ NextBlock(h, b) \in Offset /\ b \in Offset /\ NextBlock(h, b) # n /\ b # n
        BY <3>3, <1>1, <1>2, <1>14, TilingTypes
      <4>3. NextBlock(h, b) # N
        BY <3>3, <1>1, <1>2, NextApart DEF N
      <4>4. NextBlock(k, b) = NextBlock(h, b)
        BY <3>3, <1>21
      <4> QED BY <3>3, <4>1, <4>2, <4>3, <4>4, <1>19
    <3> QED BY <3>1, <3>2, <3>3
  <2> QED BY <2>1, <2>2, <1>22 DEF Tagged
<1>26. Untouched(h, k, UsedIn(h, B))
  <2> SUFFICES ASSUME NEW u \in UsedIn(h, B) PROVE k[u].size = h[u].size /\ k[u].fprev = h[u].fprev
    BY DEF Untouched
  <2>1. u \in Offset /\ u \in B \ {Last} /\ u \notin F /\ u # c /\ u # n
    BY <1>2, <1>14 DEF UsedIn, F
  <2>2. g5[u].fprev = g4[u].fprev /\ g4[u].fprev = g[u].fprev /\ g[u].fprev = h[u].fprev
    BY <2>1, <1>4, <1>12, <1>15
  <2> QED BY <2>1, <2>2, <1>19
<1>27. Total(k, (F \ {c}) \cup {n}) + k[c].size = Total(h, F)
  <2> DEFINE F2 == (F \ {c}) \cup {n}
  <2>0. F \in SUBSET Offset /\ F \ {c} \in SUBSET Offset /\ F2 \in SUBSET Offset /\ h \in [Offset -> Header]
        /\ n \notin F
    BY <1>1, <1>2, <1>3, <1>14 DEF Tiling, F, FreeIn
  <2>1. Total(k, F \ {c}) = Total(h, F \ {c})
    <3>1. \A o \in F \ {c}: k[o].size = h[o].size
      BY <2>0, <1>2, <1>19
    <3> QED BY <3>1, <2>0, <1>18, TotalFrame
  <2>2. Total(h, F) = h[c].size + Total(h, F \ {c}) /\ Total(h, F \ {c}) \in Nat
    BY <2>0, <1>2, TotalTakes
  <2>3. Total(k, F2) = k[n].size + Total(k, F \ {c})
    <3>1. n \in F2 /\ F2 \ {n} = F \ {c}
      BY <2>0
    <3> HIDE DEF F2
    <3> QED BY <3>1, <2>0, <1>18, TotalTakes
  <2>4. k[c].size = real /\ k[n].size = rest /\ real \in Nat
    BY <1>2, <1>3, <1>11, <1>19, Layout DEF Offset
  <2> QED BY <2>1, <2>2, <2>3, <2>4, <1>3
<1>28. k[c].fprev = real /\ k[c].size >= real
  <2>1. real \in Nat /\ k[c].size = real
    BY <1>2, <1>11, <1>19, Layout DEF Offset
  <2> QED BY <2>1, <1>2, <1>19
<1>29. Heap(k, B2, Null, FreeIn(k, B2))
  BY <1>21, <1>22, <1>23, <1>24, <1>25 DEF Heap
<1> HIDE DEF B2
<1>30. AllocResult(h, B, c, real, k, B2)
  BY <1>22, <1>26, <1>27, <1>28, <1>29 DEF AllocResult, F
<1> QED BY <1>5, <1>30 DEF n, B2

AllocResultSome(h, B, c, real, k) == \E B2 \in SUBSET Offset: AllocResult(h, B, c, real, k, B2)

\* Handing out a free block keeps the heap in order and changes no other allocated block.
LEMMA AllocateKeeps ==
  ASSUME NEW h, NEW B, Heap(h, B, Null, FreeIn(h, B)), NEW c \in FreeIn(h, B),
         NEW real \in Nat, real > BlockSize, h[c].size >= real
  PROVE  AllocResultSome(h, B, c, real, Allocated(h, c, real))
<1> DEFINE k == Allocated(h, c, real)
<1>1. Tiling(h, B) /\ c \in B
  BY DEF Heap, FreeIn
<1>2. B \subseteq Offset /\ c \in Offset /\ h \in [Offset -> Header]
  BY <1>1, TilingTypes DEF Tiling
<1>3. real \in Offset
  <2>1. h[c].size \in Nat /\ h[c].size <= Size
    BY <1>2, FieldTypes, Layout DEF Offset
  <2> QED BY <2>1, Layout DEF Offset
<1> HIDE DEF k
<1>4. CASE TooSmallToSplit(h[c].size, real)
  <2>1. AllocResult(h, B, c, real, k, B)
    BY <1>3, <1>4, AllocateWhole DEF k
  <2>2. B \in SUBSET Offset
    BY <1>2
  <2> QED BY <2>1, <2>2 DEF AllocResultSome, k
<1>5. CASE ~TooSmallToSplit(h[c].size, real)
  <2> DEFINE B2 == B \cup {c + real}
  <2>1. AllocResult(h, B, c, real, k, B2)
    BY <1>3, <1>5, AllocateSplit DEF k
  <2> HIDE DEF B2
  <2>2. B2 \in SUBSET Offset
    <3>1. Tiling(k, B2)
      BY <2>1 DEF AllocResult, Heap
    <3> QED BY <3>1, TilingTypes
  <2> QED BY <2>1, <2>2 DEF AllocResultSome, k
<1> QED BY <1>4, <1>5

-----------------------------------------------------------------------------
(* Giving back: the block c is on its way from the client to the list *)

\* The heap but for c, which is neither allocated nor on the list.
Loose(h, B, c) ==
  /\ Tiling(h, B) /\ Grounded(h) /\ c \in B \ {Last} /\ Listed(h, FreeIn(h, B) \ {c})
  /\ h[Start].prev_size = 0
  /\ \A b \in B \ {Last, c}:
       IF b \in FreeIn(h, B)
         THEN NextBlock(h, b) \notin FreeIn(h, B) \ {c} /\ h[NextBlock(h, b)].prev_size = h[b].size
         ELSE h[NextBlock(h, b)].prev_size = 0

\* No free block ends where c begins, none begins where c ends.
NoneBefore(h, B, c) == \A b \in FreeIn(h, B) \ {c}: NextBlock(h, b) # c
NoneBehind(h, B, c) == NextBlock(h, c) \notin FreeIn(h, B) \ {c}

\* The loose block has grown from c to c2; allocated blocks and the sum of free space
\* are the same.
Kept(h, B, c, k, B2, c2) ==
  /\ UsedIn(k, B2) \ {c2} = UsedIn(h, B) \ {c} /\ Untouched(h, k, UsedIn(h, B) \ {c})
  /\ Total(k, FreeIn(k, B2) \ {c2}) + k[c2].size = Total(h, FreeIn(h, B) \ {c}) + h[c].size

LEMMA LooseSets ==
  ASSUME NEW h, NEW B, NEW c, Loose(h, B, c)
  PROVE  /\ Tiling(h, B) /\ h \in [Offset -> Header] /\ c \in B \ {Last} /\ B \subseteq Offset
         /\ FreeIn(h, B) \ {c} \subseteq Start..(Last - 1) /\ FreeIn(h, B) \ {c} \in SUBSET Offset
         /\ FreeIn(h, B) \ {c} \subseteq B /\ c \notin FreeIn(h, B) \ {c} /\ Last \notin FreeIn(h, B) \ {c}
         /\ Null \notin B /\ First \notin B /\ Null = 0
         /\ First \in Offset /\ Last \in Offset /\ Null \in Offset /\ First # Last /\ First # Null /\ Last # Null
         /\ Grounded(h) /\ Listed(h, FreeIn(h, B) \ {c}) /\ h[Start].prev_size = 0
         /\ \A b \in B: b \in FreeIn(h, B) \ {c} <=> b # Last /\ b # c /\ h[b].fnext # Null
<1>1. Tiling(h, B) /\ c \in B \ {Last} /\ Grounded(h) /\ Listed(h, FreeIn(h, B) \ {c}) /\ h[Start].prev_size = 0
  BY DEF Loose
<1>2. /\ First \in Offset /\ Last \in Offset /\ Null \in Offset /\ First # Last /\ First # Null /\ Last # Null
      /\ Null = 0
  BY Layout
<1> QED BY <1>1, <1>2, HeapSets DEF FreeIn

\* A free block next to the loose one is merged with it: a is the lower one of the two
\* and b the other one, f the one of them that is free.
MergeInto(h, a, b, f) == [Unlink(h, f) EXCEPT ![a].size = @ + h[b].size, ![b] = NoHeader]

LEMMA MergeFields ==
  ASSUME NEW h, NEW B, NEW c, Loose(h, B, c), NEW a \in B \ {Last}, NEW b, b = NextBlock(h, a), b # Last,
         NEW f \in FreeIn(h, B) \ {c}, {f, c} = {a, b}
  PROVE  /\ MergeInto(h, a, b, f) \in [Offset -> Header]
         /\ b \in B /\ b # a
         /\ \A o \in Offset \ {b}:
              /\ MergeInto(h, a, b, f)[o].size = IF o = a THEN h[a].size + h[b].size ELSE h[o].size
              /\ MergeInto(h, a, b, f)[o].prev_size = h[o].prev_size
              /\ MergeInto(h, a, b, f)[o].fnext = Unlink(h, f)[o].fnext
              /\ MergeInto(h, a, b, f)[o].fprev = Unlink(h, f)[o].fprev
<1> DEFINE g == Unlink(h, f)
           s == h[a].size + h[b].size
           g1 == [g EXCEPT ![a].size = s]
           g2 == [g1 EXCEPT ![b] = NoHeader]
           m == MergeInto(h, a, b, f)
<1>1. /\ h \in [Offset -> Header] /\ Tiling(h, B) /\ B \subseteq Offset /\ f \in Offset /\ a \in Offset
  BY LooseSets
<1>2. b \in B /\ b # a /\ b \in Offset
  BY <1>1, TilingTypes
<1>3. g \in [Offset -> Header]
      /\ \A o \in Offset: g[o].size = h[o].size /\ g[o].prev_size = h[o].prev_size
  BY <1>1, UnlinkFields
<1>4. s \in Offset
  <2>1. NextBlock(h, b) = b + h[b].size /\ NextBlock(h, b) <= Last /\ b = a + h[a].size
    BY <1>1, <1>2, TilingTypes
  <2>2. h[a].size \in Nat /\ h[b].size \in Nat /\ a \in Nat /\ b \in Nat
    BY <1>1, <1>2, FieldTypes
  <2>3. s \in Nat /\ s <= Last /\ Last <= Size
    BY <2>1, <2>2, Layout DEF Offset
  <2> QED BY <2>3, Layout DEF Offset
<1>5. m = g2
  <2>1. g[a].size = h[a].size
    BY <1>1, <1>3
  <2> HIDE DEF g
  <2> QED BY <2>1 DEF MergeInto, g
<1> HIDE DEF m, g, s
<1>6. g1 \in [Offset -> Header]
      /\ \A o \in Offset: /\ g1[o].size = IF o = a THEN s ELSE g[o].size
                          /\ g1[o].prev_size = g[o].prev_size /\ g1[o].fnext = g[o].fnext /\ g1[o].fprev = g[o].fprev
  BY <1>1, <1>3, <1>4, SetSize
<1> HIDE DEF g1
<1>7. NoHeader \in Header
  BY Layout DEF NoHeader, Header
<1>8. g2 \in [Offset -> Header] /\ \A o \in Offset \ {b}: g2[o] = g1[o]
  BY <1>2, <1>6, <1>7
<1> HIDE DEF g2
<1> QED BY <1>2, <1>3, <1>5, <1>6, <1>8 DEF m, g, s

MergeResult(h, B, c, k, B2, a) ==
  /\ Loose(k, B2, a) /\ Kept(h, B, c, k, B2, a)

LEMMA MergeKeeps ==
  ASSUME NEW h, NEW B, NEW c, Loose(h, B, c), NEW a \in B \ {Last}, NEW b, b = NextBlock(h, a), b # Last,
         NEW f \in FreeIn(h, B) \ {c}, {f, c} = {a, b}
  PROVE  /\ MergeResult(h, B, c, MergeInto(h, a, b, f), B \ {b}, a)
         /\ f = a => NoneBefore(MergeInto(h, a, b, f), B \ {b}, a)
         /\ f = b => NoneBehind(MergeInto(h, a, b, f), B \ {b}, a)
         /\ f = b /\ NoneBefore(h, B, c) => NoneBefore(MergeInto(h, a, b, f), B \ {b}, a)
<1> DEFINE k == MergeInto(h, a, b, f)
           B2 == B \ {b}
           G == FreeIn(h, B) \ {c}
           u == Unlink(h, f)
<1>1. /\ Tiling(h, B) /\ h \in [Offset -> Header] /\ c \in B \ {Last} /\ B \subseteq Offset
      /\ G \subseteq Start..(Last - 1) /\ G \in SUBSET Offset
      /\ G \subseteq B /\ c \notin G /\ Last \notin G
      /\ Null \notin B /\ First \notin B /\ Null = 0
      /\ First \in Offset /\ Last \in Offset /\ Null \in Offset /\ First # Last /\ First # Null /\ Last # Null
      /\ Grounded(h) /\ Listed(h, G) /\ h[Start].prev_size = 0
      /\ \A o \in B: o \in G <=> o # Last /\ o # c /\ h[o].fnext # Null
  BY LooseSets
<1>2. /\ k \in [Offset -> Header]
      /\ b \in B /\ b # a
      /\ \A o \in Offset \ {b}:
           /\ k[o].size = IF o = a THEN h[a].size + h[b].size ELSE h[o].size
           /\ k[o].prev_size = h[o].prev_size
           /\ k[o].fnext = u[o].fnext
           /\ k[o].fprev = u[o].fprev
  BY MergeFields
<1>3. f \in G
  OBVIOUS
<1> HIDE DEF k, G
<1>4. /\ Grounded(u) /\ Listed(u, G \ {f})
      /\ \A o \in Offset:
           /\ u[o].size = h[o].size
           /\ u[o].prev_size = h[o].prev_size
           /\ u[o].fnext = Null <=> h[o].fnext = Null
           /\ o \notin G \cup {Last} => u[o].fprev = h[o].fprev
  <2>1. Unlinked(h, G, f, u)
    BY <1>1, <1>3, UnlinkKeeps DEF G
  <2> QED BY <2>1 DEF Unlinked
<1> HIDE DEF u
<1>5. /\ Tiling(k, B2) /\ NextBlock(k, a) = NextBlock(h, b)
      /\ \A d \in B \ {a, b}: NextBlock(k, d) = NextBlock(h, d) /\ NextBlock(h, d) # b
  <2>1. k[a].size = h[a].size + h[b].size
    BY <1>1, <1>2
  <2>2. \A d \in B \ {a, b}: k[d].size = h[d].size
    BY <1>1, <1>2
  <2>3. Fuse(h, B, a, b, k)
    BY <2>1, <2>2, <1>2 DEF Fuse
  <2>4. FuseTiling(h, B, a, b, k)
    BY <2>3, <1>1, TilingMerge
  <2> QED BY <2>4 DEF FuseTiling
<1>6. Grounded(k)
  BY <1>1, <1>2, <1>4 DEF Grounded
<1>7. ASSUME NEW d \in B2
      PROVE  /\ d \in FreeIn(k, B2) \ {a} <=> d \in G \ {f}
             /\ d # a => (d \in FreeIn(k, B2) <=> d \in FreeIn(h, B))
             /\ d \in UsedIn(k, B2) \ {a} <=> d \in UsedIn(h, B) \ {c}
  <2>1. d # a => (k[d].fnext = Null <=> h[d].fnext = Null)
    BY <1>1, <1>2, <1>4
  <2>2. d # a => d # f /\ d # c
    OBVIOUS
  <2>3. f \notin UsedIn(h, B)
    BY DEF UsedIn, FreeIn
  <2> QED BY <2>1, <2>2, <2>3, <1>1 DEF FreeIn, UsedIn
<1>8. FreeIn(k, B2) \ {a} = G \ {f} /\ UsedIn(k, B2) \ {a} = UsedIn(h, B) \ {c}
  <2>1. FreeIn(k, B2) \subseteq B2 /\ UsedIn(k, B2) \subseteq B2
    BY DEF FreeIn, UsedIn
  <2>2. G \ {f} \subseteq B2
    <3>1. b = f \/ b = c
      OBVIOUS
    <3> QED BY <3>1, <1>1
  <2>3. UsedIn(h, B) \ {c} \subseteq B2
    <3>1. b = f \/ b = c
      OBVIOUS
    <3>2. f \notin UsedIn(h, B)
      BY DEF UsedIn, FreeIn
    <3> QED BY <3>1, <3>2 DEF UsedIn
  <2> HIDE DEF B2
  <2> QED BY <2>1, <2>2, <2>3, <1>7
<1>9. Listed(k, G \ {f})
  <2>1. b \notin G \ {f} /\ b # First /\ b # Last
    <3>1. b = f \/ b = c
      OBVIOUS
    <3> QED BY <3>1, <1>1, <1>2
  <2>2. \A o \in (G \ {f}) \cup {First}: k[o].fnext = u[o].fnext
    BY <2>1, <1>1, <1>2
  <2>3. \A o \in (G \ {f}) \cup {Last}: k[o].fprev = u[o].fprev
    BY <2>1, <1>1, <1>2
  <2> QED BY <2>2, <2>3, <1>4, ListedFrame
<1>10. k[Start].prev_size = 0
  <2>1. Start \in Offset /\ Start # b
    <3>1. Start <= a /\ a < b /\ a \in Nat /\ b \in Nat
      BY <1>1, <1>2, TilingTypes
    <3> QED BY <3>1, Layout
  <2> QED BY <2>1, <1>1, <1>2
<1>11. ASSUME NEW d \in B2 \ {Last, a}
       PROVE  IF d \in FreeIn(k, B2)
                THEN NextBlock(k, d) \notin FreeIn(k, B2) \ {a} /\ k[NextBlock(k, d)].prev_size = k[d].size
                ELSE k[NextBlock(k, d)].prev_size = 0
  <2>1. d # c /\ d # f /\ d \in B \ {a, b} /\ d \in B \ {Last, c}
    OBVIOUS
  <2>2. IF d \in FreeIn(h, B)
          THEN NextBlock(h, d) \notin G /\ h[NextBlock(h, d)].prev_size = h[d].size
          ELSE h[NextBlock(h, d)].prev_size = 0
    BY <2>1 DEF Loose, G
  <2>3. NextBlock(k, d) = NextBlock(h, d) /\ NextBlock(h, d) \in Offset \ {b} /\ d \in Offset \ {b}
    BY <2>1, <1>1, <1>5, TilingTypes
  <2>4. k[NextBlock(h, d)].prev_size = h[NextBlock(h, d)].prev_size /\ k[d].size = h[d].size
    BY <2>1, <2>3, <1>2
  <2>5. d \in FreeIn(k, B2) <=> d \in FreeIn(h, B)
    BY <1>7
  <2> QED BY <2>2, <2>3, <2>4, <2>5, <1>8
<1>12. Loose(k, B2, a)
  <2>1. a \in B2 \ {Last}
    BY <1>2
  <2> HIDE DEF B2
  <2> QED BY <2>1, <1>5, <1>6, <1>8, <1>9, <1>10, <1>11 DEF Loose
<1>13. Kept(h, B, c, k, B2, a)
  <2>1. Untouched(h, k, UsedIn(h, B) \ {c})
    <3> SUFFICES ASSUME NEW v \in UsedIn(h, B) \ {c} PROVE k[v].size = h[v].size /\ k[v].fprev = h[v].fprev
      BY DEF Untouched
    <3>1. v \in B \ {Last} /\ v # c /\ v # f /\ v \notin G
      BY <1>1 DEF UsedIn, FreeIn
    <3>2. v # a /\ v # b /\ v \in Offset
      BY <3>1, <1>1
    <3> QED BY <3>1, <3>2, <1>2, <1>4
  <2>2. Total(k, G \ {f}) = Total(h, G \ {f})
    <3>1. \A o \in G \ {f}: k[o].size = h[o].size
      <4> TAKE o \in G \ {f}
      <4>1. o # c /\ o # f /\ o \in Offset
        BY <1>1
      <4>2. o # a /\ o # b
        BY <4>1
      <4> QED BY <4>1, <4>2, <1>2
    <3>2. G \ {f} \in SUBSET Offset
      BY <1>1
    <3> QED BY <3>1, <3>2, <1>1, <1>2, TotalFrame
  <2>3. Total(h, G) = h[f].size + Total(h, G \ {f}) /\ Total(h, G \ {f}) \in Nat
    <3>1. G \ {f} \in SUBSET Offset
      BY <1>1
    <3> QED BY <3>1, <1>1, <1>3, TotalTakes
  <2>4. k[a].size = h[f].size + h[c].size /\ h[f].size \in Nat /\ h[c].size \in Nat
    <3>0. f \in Offset /\ c \in Offset /\ a \in Offset
      BY <1>1, <1>3
    <3>1. h[f].size \in Nat /\ h[c].size \in Nat /\ k[a].size = h[a].size + h[b].size
      <4>1. h[f].size \in Nat /\ h[c].size \in Nat
        BY <3>0, <1>1, FieldTypes
      <4> QED BY <4>1, <3>0, <1>2
    <3>2. (f = a /\ c = b) \/ (f = b /\ c = a)
      BY <1>1, <1>2, <1>3
    <3>3. CASE f = a /\ c = b
      BY <3>1, <3>3
    <3>4. CASE f = b /\ c = a
      BY <3>1, <3>4
    <3> QED BY <3>2, <3>3, <3>4
  <2>5. Total(k, G \ {f}) + k[a].size = Total(h, G) + h[c].size
    <3> DEFINE x == Total(h, G \ {f})
    <3>1. x \in Nat /\ Total(k, G \ {f}) = x /\ Total(h, G) = h[f].size + x
      BY <2>2, <2>3
    <3> HIDE DEF x
    <3> QED BY <3>1, <2>4
  <2> QED BY <2>1, <2>5, <1>8 DEF Kept, G
<1>14. ASSUME f = a PROVE NoneBefore(k, B2, a)
  <2> SUFFICES ASSUME NEW d \in FreeIn(k, B2) \ {a} PROVE NextBlock(k, d) # a
    BY DEF NoneBefore
  <2>1. d \in G \ {f} /\ d \in B /\ d # a /\ d # c /\ d # b
    BY <1>1, <1>8, <1>14
  <2>2. NextBlock(h, d) \notin G
    BY <2>1, <1>1 DEF Loose, G
  <2>3. NextBlock(k, d) = NextBlock(h, d)
    BY <2>1, <1>5
  <2> QED BY <2>2, <2>3, <1>3, <1>14
<1>15. ASSUME f = b PROVE NoneBehind(k, B2, a)
  <2>1. f \in B \ {Last, c} /\ f \in FreeIn(h, B)
    BY <1>1, <1>3
  <2>2. NextBlock(h, f) \notin G
    BY <2>1 DEF Loose, G
  <2> QED BY <2>2, <1>5, <1>8, <1>15 DEF NoneBehind
<1>16. ASSUME f = b, NoneBefore(h, B, c) PROVE NoneBefore(k, B2, a)
  <2> SUFFICES ASSUME NEW d \in FreeIn(k, B2) \ {a} PROVE NextBlock(k, d) # a
    BY DEF NoneBefore
  <2>1. d \in G \ {f} /\ d \in B /\ d # a /\ d # b
    BY <1>1, <1>8, <1>16
  <2>2. a = c
    BY <1>1, <1>2, <1>3, <1>16
  <2>3. NextBlock(k, d) = NextBlock(h, d)
    BY <2>1, <1>5
  <2> QED BY <2>1, <2>2, <2>3, <1>16 DEF NoneBefore, G
<1> HIDE DEF B2
<1>17. MergeResult(h, B, c, k, B2, a)
  BY <1>12, <1>13 DEF MergeResult
<1> QED BY <1>14, <1>15, <1>16, <1>17 DEF k, B2

\* One stage of giving back: the result, its block, and what surrounds it.
StageBefore(h, B, c, k, c2) ==
  \E B2 \in SUBSET Offset: MergeResult(h, B, c, k, B2, c2) /\ NoneBefore(k, B2, c2)
StageAlone(h, B, c, k, c2) ==
  \E B2 \in SUBSET Offset:
    MergeResult(h, B, c, k, B2, c2) /\ NoneBefore(k, B2, c2) /\ NoneBehind(k, B2, c2)

LEMMA MergePrevKeeps ==
  ASSUME NEW h, NEW B, NEW c, Loose(h, B, c)
  PROVE  StageBefore(h, B, c, MergePrev(h, c).h, MergePrev(h, c).c)
<1> DEFINE G == FreeIn(h, B) \ {c}
           p == PrevBlock(h, c)
<1>1. /\ Tiling(h, B) /\ h \in [Offset -> Header] /\ c \in B \ {Last} /\ B \subseteq Offset
      /\ h[Start].prev_size = 0 /\ Null = 0 /\ \A b \in B: h[b].size \in Nat /\ b \in Nat
  <2>1. /\ Tiling(h, B) /\ h \in [Offset -> Header] /\ c \in B \ {Last} /\ B \subseteq Offset
        /\ h[Start].prev_size = 0 /\ Null = 0
    BY LooseSets
  <2> QED BY <2>1, TilingTypes
<1>2. ASSUME NEW b \in B \ {Last}, NextBlock(h, b) = c
      PROVE  /\ b \in B \ {Last, c} /\ h[b].size > 0
             /\ IF b \in FreeIn(h, B) THEN h[c].prev_size = h[b].size ELSE h[c].prev_size = 0
  <2>1. b < NextBlock(h, b) /\ b \in Nat /\ c \in Nat /\ h[b].size > 0
    BY <1>1, TilingTypes
  <2>2. b # c
    BY <2>1, <1>2
  <2> QED BY <2>1, <2>2, <1>2 DEF Loose
<1>3. CASE h[c].prev_size = 0
  <2>1. MergePrev(h, c).h = h /\ MergePrev(h, c).c = c
    BY <1>3 DEF MergePrev
  <2>2. NoneBefore(h, B, c)
    <3> SUFFICES ASSUME NEW b \in FreeIn(h, B) \ {c}, NextBlock(h, b) = c PROVE FALSE
      BY DEF NoneBefore
    <3>1. b \in B \ {Last} /\ b \in FreeIn(h, B)
      BY DEF FreeIn
    <3> QED BY <3>1, <1>1, <1>2, <1>3
  <2>3. MergeResult(h, B, c, h, B, c)
    BY DEF MergeResult, Kept, Untouched
  <2>4. B \in SUBSET Offset
    BY <1>1
  <2> QED BY <2>1, <2>2, <2>3, <2>4 DEF StageBefore
<1>4. CASE h[c].prev_size # 0
  <2>1. c # Start
    BY <1>1, <1>4
  <2>2. PICK q \in B \ {Last}: q < c /\ NextBlock(h, q) = c
    BY <2>1, <1>1, Predecessor
  <2>3. q \in FreeIn(h, B) /\ h[c].prev_size = h[q].size /\ q # c
    BY <2>2, <1>2, <1>4
  <2>4. p = q
    <3>1. c = q + h[q].size /\ q \in Nat /\ h[q].size \in Nat
      BY <2>2, <1>1 DEF NextBlock
    <3>2. p = c - h[q].size
      BY <2>3 DEF PrevBlock
    <3> QED BY <3>1, <3>2
  <2> HIDE DEF p
  <2> DEFINE k == MergeInto(h, p, c, p)
  <2>5. MergePrev(h, c).h = k /\ MergePrev(h, c).c = p
    BY <1>4 DEF MergePrev, MergeInto, p
  <2>6. p \in B \ {Last} /\ c = NextBlock(h, p) /\ c # Last /\ p \in FreeIn(h, B) \ {c} /\ {p, c} = {p, c}
    BY <2>2, <2>3, <2>4, <1>1
  <2>7. MergeResult(h, B, c, k, B \ {c}, p) /\ NoneBefore(k, B \ {c}, p)
    BY <2>6, MergeKeeps
  <2>8. B \ {c} \in SUBSET Offset
    BY <1>1
  <2> HIDE DEF k
  <2> QED BY <2>5, <2>7, <2>8 DEF StageBefore
<1> QED BY <1>3, <1>4

LEMMA MergeNextKeeps ==
  ASSUME NEW h, NEW B, NEW c, Loose(h, B, c), NoneBefore(h, B, c)
  PROVE  StageAlone(h, B, c, MergeNext(h, c), c)
<1> DEFINE G == FreeIn(h, B) \ {c}
           n == NextBlock(h, c)
<1>1. /\ Tiling(h, B) /\ h \in [Offset -> Header] /\ c \in B \ {Last} /\ B \subseteq Offset
      /\ Null = 0 /\ n \in B /\ n # c /\ h[Last].fnext = Null
      /\ \A o \in B: o \in G <=> o # Last /\ o # c /\ h[o].fnext # Null
  <2>1. Tiling(h, B) /\ c \in B \ {Last}
    BY LooseSets
  <2>2. n \in B /\ c < n /\ c \in Nat /\ n \in Nat
    BY <2>1, TilingTypes
  <2>3. n # c
    BY <2>2
  <2> QED BY <2>2, <2>3, LooseSets DEF Grounded
<1> HIDE DEF n
<1>2. CASE h[n].fnext = 0
  <2>1. MergeNext(h, c) = h
    BY <1>2 DEF MergeNext, n
  <2>2. NoneBehind(h, B, c)
    BY <1>1, <1>2 DEF NoneBehind, n
  <2>3. MergeResult(h, B, c, h, B, c)
    BY DEF MergeResult, Kept, Untouched
  <2>4. B \in SUBSET Offset
    BY <1>1
  <2> QED BY <2>1, <2>2, <2>3, <2>4 DEF StageAlone
<1>3. CASE h[n].fnext # 0
  <2>1. n # Last /\ n \in G
    BY <1>1, <1>3
  <2> DEFINE k == MergeInto(h, c, n, n)
  <2>2. MergeNext(h, c) = k
    BY <1>3 DEF MergeNext, MergeInto, n
  <2>3. c \in B \ {Last} /\ n = NextBlock(h, c) /\ n \in FreeIn(h, B) \ {c} /\ {n, c} = {c, n}
    BY <2>1, <1>1 DEF n
  <2>4. MergeResult(h, B, c, k, B \ {n}, c) /\ NoneBefore(k, B \ {n}, c) /\ NoneBehind(k, B \ {n}, c)
    BY <2>1, <2>3, MergeKeeps
  <2>5. B \ {n} \in SUBSET Offset
    BY <1>1
  <2> HIDE DEF k
  <2> QED BY <2>2, <2>4, <2>5 DEF StageAlone
<1> QED BY <1>2, <1>3

LEMMA KeptOn ==
  ASSUME NEW h, NEW B, NEW c, NEW k, NEW C, NEW d, NEW m, NEW D, NEW e,
         Kept(h, B, c, k, C, d), Kept(k, C, d, m, D, e)
  PROVE  Kept(h, B, c, m, D, e)
BY DEF Kept, Untouched

FreeResult(h, B, c, k, B2) ==
  /\ Heap(k, B2, Null, FreeIn(k, B2))
  /\ UsedIn(k, B2) = UsedIn(h, B) \ {c} /\ Untouched(h, k, UsedIn(h, B) \ {c})
  /\ Total(k, FreeIn(k, B2)) = Total(h, FreeIn(h, B) \ {c}) + h[c].size

\* What has been merged is tagged and put on the list.
Settled(h, c) == Link([h EXCEPT ![NextBlock(h, c)].prev_size = h[c].size], c)

LEMMA SettledKeeps ==
  ASSUME NEW h, NEW B, NEW c, Loose(h, B, c), NoneBefore(h, B, c), NoneBehind(h, B, c)
  PROVE  FreeResult(h, B, c, Settled(h, c), B)
<1> DEFINE G == FreeIn(h, B) \ {c}
           n == NextBlock(h, c)
           g == [h EXCEPT ![n].prev_size = h[c].size]
           k == Link(g, c)
<1>1. /\ Tiling(h, B) /\ h \in [Offset -> Header] /\ c \in B \ {Last} /\ B \subseteq Offset
      /\ G \subseteq Start..(Last - 1) /\ G \in SUBSET Offset
      /\ G \subseteq B /\ c \notin G /\ Last \notin G
      /\ Null \notin B /\ First \notin B /\ Null = 0
      /\ First \in Offset /\ Last \in Offset /\ Null \in Offset /\ First # Last /\ First # Null /\ Last # Null
      /\ Grounded(h) /\ Listed(h, G) /\ h[Start].prev_size = 0
      /\ \A o \in B: o \in G <=> o # Last /\ o # c /\ h[o].fnext # Null
  BY LooseSets
<1>2. n \in B /\ n \in Offset /\ h[c].size \in Offset /\ h[c].size \in Nat /\ c \in Start..(Last - 1) /\ n # Start
      /\ Start \in Offset /\ Start \in B
  <2>1. n \in B /\ Start <= c /\ c < n /\ c < Last /\ c \in Nat /\ n \in Nat /\ c \in Offset
    BY <1>1, TilingTypes
  <2>2. h[c].size \in Offset /\ h[c].size \in Nat
    BY <2>1, <1>1, FieldTypes
  <2>3. n # Start /\ c \in Start..(Last - 1)
    BY <2>1, Layout
  <2> QED BY <2>1, <2>2, <2>3, <1>1, Layout DEF Tiling
<1>3. Settled(h, c) = k
  BY DEF Settled
<1> HIDE DEF G, n
<1>4. g \in [Offset -> Header]
      /\ \A o \in Offset: /\ g[o].prev_size = IF o = n THEN h[c].size ELSE h[o].prev_size
                          /\ g[o].size = h[o].size /\ g[o].fnext = h[o].fnext /\ g[o].fprev = h[o].fprev
  BY <1>1, <1>2, SetPrevSize
<1> HIDE DEF g
<1>5. Grounded(g) /\ Listed(g, G)
  <2>1. Grounded(g)
    BY <1>1, <1>4 DEF Grounded
  <2>2. \A o \in G \cup {First}: g[o].fnext = h[o].fnext
    BY <1>1, <1>4
  <2>3. \A o \in G \cup {Last}: g[o].fprev = h[o].fprev
    BY <1>1, <1>4
  <2> QED BY <2>1, <2>2, <2>3, <1>1, ListedFrame
<1>6. /\ Grounded(k) /\ Listed(k, G \cup {c}) /\ k[c].fnext # Null
      /\ \A o \in Offset:
           /\ k[o].size = g[o].size
           /\ k[o].prev_size = g[o].prev_size
           /\ o # c => (k[o].fnext = Null <=> g[o].fnext = Null)
           /\ o \notin G \cup {Last, c} => k[o].fprev = g[o].fprev
  <2>1. Linked(g, G, c, k)
    BY <1>1, <1>2, <1>5, LinkKeeps
  <2> QED BY <2>1 DEF Linked
<1> HIDE DEF k
<1>7. k \in [Offset -> Header]
  BY <1>6 DEF Grounded
<1>8. \A o \in Offset:
        /\ k[o].size = h[o].size
        /\ k[o].prev_size = IF o = n THEN h[c].size ELSE h[o].prev_size
        /\ o # c => (k[o].fnext = Null <=> h[o].fnext = Null)
  BY <1>4, <1>6
<1>9. Tiling(k, B) /\ \A b \in B: NextBlock(k, b) = NextBlock(h, b)
  <2>1. \A b \in B: NextBlock(k, b) = NextBlock(h, b) /\ k[b].size = h[b].size
    BY <1>1, <1>8 DEF NextBlock
  <2> QED BY <2>1, <1>1, <1>7 DEF Tiling
<1>10. FreeIn(k, B) = G \cup {c} /\ UsedIn(k, B) = UsedIn(h, B) \ {c}
  <2>1. \A b \in B: /\ b \in FreeIn(k, B) <=> b \in G \cup {c}
                    /\ b \in UsedIn(k, B) <=> b \in UsedIn(h, B) \ {c}
    BY <1>1, <1>6, <1>8 DEF FreeIn, UsedIn
  <2>2. FreeIn(k, B) \subseteq B /\ UsedIn(k, B) \subseteq B /\ UsedIn(h, B) \subseteq B /\ G \cup {c} \subseteq B
    BY <1>1 DEF FreeIn, UsedIn
  <2> QED BY <2>1, <2>2
<1>11. Tagged(k, B, Null)
  <2>1. k[Start].prev_size = 0
    BY <1>1, <1>2, <1>8
  <2>2. ASSUME NEW b \in B \ {Last}
        PROVE  IF b \in G \cup {c}
                 THEN NextBlock(h, b) \notin G \cup {c}
                      /\ (b = Null \/ k[NextBlock(h, b)].prev_size = k[b].size)
                 ELSE k[NextBlock(h, b)].prev_size = 0
    <3>1. CASE b = c
      <4>1. n \notin G /\ n # c
        <5>1. c < n /\ c \in Nat /\ n \in Nat
          BY <1>1, TilingTypes DEF n
        <5>2. n # c
          BY <5>1
        <5> QED BY <5>2 DEF NoneBehind, G, n
      <4>2. NextBlock(h, b) = n
        BY <3>1 DEF n
      <4> QED BY <4>1, <4>2, <3>1, <1>1, <1>2, <1>8
    <3>2. CASE b # c
      <4>1. IF b \in FreeIn(h, B)
              THEN NextBlock(h, b) \notin FreeIn(h, B) \ {c} /\ h[NextBlock(h, b)].prev_size = h[b].size
              ELSE h[NextBlock(h, b)].prev_size = 0
        BY <3>2 DEF Loose
      <4>2. b \in FreeIn(h, B) <=> b \in G
        BY <3>2 DEF G
      <4>3. NextBlock(h, b) # n
        BY <3>2, <1>1, NextApart DEF n
      <4>4. NextBlock(h, b) \in Offset /\ b \in Offset
        BY <1>1, TilingTypes
      <4>5. b \in G => NextBlock(h, b) # c
        BY DEF NoneBefore, G
      <4> QED BY <4>1, <4>2, <4>3, <4>4, <4>5, <3>2, <1>8 DEF G
    <3> QED BY <3>1, <3>2
  <2> QED BY <2>1, <2>2, <1>9, <1>10 DEF Tagged
<1>12. Untouched(h, k, UsedIn(h, B) \ {c})
  <2> SUFFICES ASSUME NEW v \in UsedIn(h, B) \ {c} PROVE k[v].size = h[v].size /\ k[v].fprev = h[v].fprev
    BY DEF Untouched
  <2>1. v \in Offset /\ v \notin G \cup {Last, c}
    BY <1>1 DEF UsedIn
  <2> QED BY <2>1, <1>4, <1>6
<1>13. Total(k, G \cup {c}) = Total(h, G) + h[c].size
  <2> DEFINE C == G \cup {c}
  <2>1. C \in SUBSET Offset /\ c \in C /\ C \ {c} = G
    BY <1>1
  <2> HIDE DEF C
  <2>2. Total(k, C) = k[c].size + Total(k, G)
    BY <2>1, <1>7, TotalTakes
  <2>3. Total(k, G) = Total(h, G) /\ Total(h, G) \in Nat
    <3>1. \A o \in G: k[o].size = h[o].size
      BY <1>1, <1>8
    <3> QED BY <3>1, <1>1, <1>7, TotalFrame, TotalTakes
  <2>4. k[c].size = h[c].size
    BY <1>1, <1>8
  <2>5. Total(k, C) = Total(h, G) + h[c].size
    BY <2>2, <2>3, <2>4, <1>2
  <2> QED BY <2>5 DEF C
<1>14. Heap(k, B, Null, FreeIn(k, B))
  BY <1>6, <1>9, <1>10, <1>11 DEF Heap
<1> QED BY <1>3, <1>10, <1>12, <1>13, <1>14 DEF FreeResult, G

FreeResultSome(h, B, c, k) == \E B2 \in SUBSET Offset: FreeResult(h, B, c, k, B2)

\* Giving back an allocated block keeps the heap in order and changes no other one.
LEMMA DeallocateKeeps ==
  ASSUME NEW h, NEW B, Heap(h, B, Null, FreeIn(h, B)), NEW c \in UsedIn(h, B)
  PROVE  FreeResultSome(h, B, c, Deallocated(h, c))
<1>1. Loose(h, B, c)
  <2>1. c \in B \ {Last} /\ FreeIn(h, B) \ {c} = FreeIn(h, B)
    BY DEF UsedIn, FreeIn
  <2>2. \A b \in FreeIn(h, B): b # Null
    <3>1. Tiling(h, B)
      BY DEF Heap
    <3> QED BY <3>1, TilingTypes DEF FreeIn
  <2> QED BY <2>1, <2>2 DEF Heap, Tagged, Loose
<1> DEFINE m == MergePrev(h, c)
           x == m.h
           d == m.c
           g == MergeNext(x, d)
<1>2. PICK B1 \in SUBSET Offset: MergeResult(h, B, c, x, B1, d) /\ NoneBefore(x, B1, d)
  <2>1. StageBefore(h, B, c, x, d)
    BY <1>1, MergePrevKeeps
  <2> HIDE DEF m
  <2> QED BY <2>1 DEF StageBefore
<1>3. Deallocated(h, c) = Settled(g, d)
  BY DEF Deallocated, Settled
<1> HIDE DEF x, d
<1>4. PICK B2 \in SUBSET Offset: MergeResult(x, B1, d, g, B2, d) /\ NoneBefore(g, B2, d) /\ NoneBehind(g, B2, d)
  <2>1. Loose(x, B1, d) /\ NoneBefore(x, B1, d)
    BY <1>2 DEF MergeResult
  <2>2. StageAlone(x, B1, d, g, d)
    BY <2>1, MergeNextKeeps
  <2> HIDE DEF g
  <2> QED BY <2>2 DEF StageAlone
<1> HIDE DEF g
<1>5. Kept(h, B, c, g, B2, d)
  BY <1>2, <1>4, KeptOn DEF MergeResult
<1> DEFINE k == Settled(g, d)
<1>6. FreeResult(g, B2, d, k, B2)
  BY <1>4, SettledKeeps DEF MergeResult
<1> HIDE DEF k
<1>7. FreeResult(h, B, c, k, B2)
  BY <1>5, <1>6 DEF FreeResult, Kept, Untouched
<1> QED BY <1>3, <1>7 DEF FreeResultSome, k

-----------------------------------------------------------------------------
(* Moving: the block behind the free block b slides down over it *)

\* The headers when n has been moved to b and the free space has come to c behind it.
Slid(h, b) ==
  LET n == NextBlock(h, b)
      used == h[n].fprev
      unused == h[n].size - used
      c == b + used
  IN [h EXCEPT ![n] = NoHeader,
               ![b] = [h[n] EXCEPT !.size = used, !.prev_size = 0],
               ![c] = [NoHeader EXCEPT !.size = h[b].size + unused, !.fnext = 1]]

\* The free block c takes in the one behind it if that is free.
Absorbed(h, c) ==
  LET behind == NextBlock(h, c)
  IN IF h[behind].fnext # 0
       THEN [h EXCEPT ![c].size = @ + h[behind].size, ![behind] = NoHeader]
       ELSE h

\* All tags are right but those around the free block c.
Sliding(h, B, c, L) ==
  /\ Tiling(h, B) /\ Grounded(h) /\ c \in FreeIn(h, B) /\ Listed(h, L)
  /\ L = {o \in FreeIn(h, B): o < c}
  /\ h[Start].prev_size = 0
  /\ \A b \in B \ {Last, c}:
       IF b \in FreeIn(h, B)
         THEN NextBlock(h, b) \notin FreeIn(h, B) /\ h[NextBlock(h, b)].prev_size = h[b].size
         ELSE h[NextBlock(h, b)].prev_size = 0

\* What moving keeps of the rest: the allocated blocks, the free space and the blocks in L.
SlideKept(h, B, k, B2, b, n, c, used, L) ==
  /\ UsedIn(k, B2) = (UsedIn(h, B) \ {n}) \cup {b}
  /\ Untouched(h, k, UsedIn(h, B) \ {n}) /\ k[b].size = used /\ k[b].fprev = used
  /\ Total(k, FreeIn(k, B2)) = Total(h, FreeIn(h, B)) + (h[n].size - used)
  /\ \A o \in L: NextBlock(k, o) = NextBlock(h, o)

\* A block that may move: it is allocated, and its used space is counted in fprev.
Movable(h, B, b, n, used) ==
  /\ b \in FreeIn(h, B) /\ n = NextBlock(h, b) /\ n # Last
  /\ used = h[n].fprev /\ used > BlockSize /\ used <= h[n].size

LEMMA SlidFields ==
  ASSUME NEW h, NEW B, Tiling(h, B), NEW b, NEW n, NEW used, Movable(h, B, b, n, used), n \in UsedIn(h, B)
  PROVE  /\ Slid(h, b) \in [Offset -> Header] /\ b + used \in Offset /\ b + used > b /\ used \in Nat
         /\ b \in B \ {Last} /\ n \in B \ {Last} /\ n > b /\ b + used \notin {First, Null, b}
         /\ Slid(h, b)[b + used].size = h[b].size + (h[n].size - used)
         /\ Slid(h, b)[b + used].prev_size = 0 /\ Slid(h, b)[b + used].fnext # Null
         /\ Slid(h, b)[b].size = used /\ Slid(h, b)[b].prev_size = 0
         /\ Slid(h, b)[b].fnext = Null /\ Slid(h, b)[b].fprev = used
         /\ \A o \in Offset \ {b, n, b + used}: Slid(h, b)[o] = h[o]
<1> DEFINE unused == h[n].size - used
           c == b + used
           R == [h[n] EXCEPT !.size = used, !.prev_size = 0]
           S == [NoHeader EXCEPT !.size = h[b].size + unused, !.fnext = 1]
           k == Slid(h, b)
<1>1. /\ h \in [Offset -> Header] /\ b \in B \ {Last} /\ n \in B \ {Last} /\ B \subseteq Offset
      /\ n = b + h[b].size /\ n > b /\ n \in Nat /\ b \in Nat /\ b \in Offset /\ n \in Offset
      /\ NextBlock(h, n) = n + h[n].size /\ NextBlock(h, n) <= Last /\ b >= Start
      /\ h[n].fnext = Null
  <2>1. b \in B \ {Last} /\ n \in B \ {Last} /\ h[n].fnext = Null /\ n = NextBlock(h, b)
    BY DEF Movable, FreeIn, UsedIn
  <2> QED BY <2>1, TilingTypes DEF Tiling
<1>2. used = h[n].fprev /\ used > BlockSize /\ used <= h[n].size /\ n = NextBlock(h, b)
  BY DEF Movable
<1>3. /\ h[n].size \in Nat /\ h[b].size \in Nat /\ used \in Nat /\ used \in Offset /\ h[n] \in Header
      /\ h[n].size <= Size
  BY <1>1, <1>2, FieldTypes
<1>4. c \in Nat /\ c > b /\ c < Last /\ c \in Offset /\ h[b].size + unused \in Offset
  <2>1. c \in Nat /\ c > b /\ unused \in Nat /\ unused <= h[n].size
    BY <1>1, <1>2, <1>3, Layout
  <2>2. h[b].size > BlockSize
    BY <1>1 DEF Tiling
  <2>3. c < Last
    BY <1>1, <1>2, <1>3, <2>2, Layout
  <2>4. h[b].size + unused \in Nat /\ h[b].size + unused <= Last
    BY <1>1, <1>2, <1>3, <2>1, Layout
  <2> QED BY <2>1, <2>3, <2>4, Layout DEF Offset
<1>5. k = [h EXCEPT ![n] = NoHeader, ![b] = R, ![c] = S]
  BY <1>2 DEF Slid
<1> HIDE DEF k, c, unused
<1>6. /\ R \in Header /\ R.size = used /\ R.prev_size = 0 /\ R.fnext = Null /\ R.fprev = used
  BY <1>1, <1>2, <1>3, Layout DEF Header
<1>7. 1 \in Offset /\ 0 \in Offset
  BY Layout DEF Offset
<1>8. /\ S \in Header /\ S.size = h[b].size + unused /\ S.prev_size = 0 /\ S.fnext # Null
  <2> DEFINE w == h[b].size + unused
  <2>1. w \in Offset
    BY <1>4
  <2>2. S = [NoHeader EXCEPT !.size = w, !.fnext = 1]
    OBVIOUS
  <2> HIDE DEF w, S
  <2>3. S = [size |-> w, prev_size |-> 0, fnext |-> 1, fprev |-> 0]
    BY <2>2 DEF NoHeader
  <2>4. S \in Header /\ S.size = w /\ S.prev_size = 0 /\ S.fnext = 1
    BY <2>1, <2>3, <1>7 DEF Header
  <2>5. S.fnext # Null
    BY <2>4, Layout
  <2> QED BY <2>4, <2>5 DEF w
<1>9. NoHeader \in Header
  BY <1>7 DEF Header, NoHeader
<1> HIDE DEF R, S
<1>10. /\ k \in [Offset -> Header] /\ k[c] = S /\ (b # c => k[b] = R)
       /\ \A o \in Offset \ {b, n, c}: k[o] = h[o]
  BY <1>1, <1>4, <1>5, <1>6, <1>8, <1>9
<1>11. b # c /\ c # First /\ c # Null
  BY <1>1, <1>4, Layout
<1> QED BY <1>1, <1>3, <1>4, <1>6, <1>8, <1>10, <1>11 DEF k, c, unused

LEMMA SlidKeeps ==
  ASSUME NEW h, NEW B, NEW b, NEW n, NEW used, NEW L, Heap(h, B, b, L), L = {o \in FreeIn(h, B): o < b},
         Movable(h, B, b, n, used), n \in UsedIn(h, B)
  PROVE  /\ Sliding(Slid(h, b), (B \ {n}) \cup {b + used}, b + used, L)
         /\ SlideKept(h, B, Slid(h, b), (B \ {n}) \cup {b + used}, b, n, b + used, used, L)
<1> DEFINE k == Slid(h, b)
           c == b + used
           B1 == (B \ {n}) \cup {c}
           F == FreeIn(h, B)
           N == NextBlock(h, n)
           U == UsedIn(h, B)
<1>1. Tiling(h, B) /\ Grounded(h) /\ Tagged(h, B, b) /\ Listed(h, L)
  BY DEF Heap
<1>2. /\ F \subseteq Start..(Last - 1) /\ F \subseteq Offset /\ U \subseteq Offset
      /\ Null \notin B /\ First \notin B /\ B \subseteq Offset /\ h \in [Offset -> Header]
      /\ \A o \in B \ {Last}: o \in F <=> o \notin U
      /\ \A o \in B: o \in F <=> o # Last /\ h[o].fnext # Null
      /\ Last \notin F /\ Last \notin U
      /\ First \in Offset /\ Last \in Offset /\ Null \in Offset /\ First # Last /\ First # Null /\ Last # Null
      /\ 0 = Null
  BY <1>1, HeapSets, Layout
<1>3. /\ k \in [Offset -> Header] /\ c \in Offset /\ c > b /\ used \in Nat
      /\ b \in B \ {Last} /\ n \in B \ {Last} /\ n > b /\ c \notin {First, Null, b}
      /\ k[c].size = h[b].size + (h[n].size - used)
      /\ k[c].prev_size = 0 /\ k[c].fnext # Null
      /\ k[b].size = used /\ k[b].prev_size = 0
      /\ k[b].fnext = Null /\ k[b].fprev = used
      /\ \A o \in Offset \ {b, n, c}: k[o] = h[o]
  BY <1>1, SlidFields
<1>4. /\ n = NextBlock(h, b) /\ used > BlockSize /\ used <= h[n].size /\ b \in F /\ n \in U
  BY DEF Movable
<1>5. h[n].size \in Nat /\ h[b].size \in Nat /\ h[b].size > BlockSize /\ b \in Nat /\ n \in Nat /\ c \in Nat
      /\ b \in Offset /\ n \in Offset
  BY <1>1, <1>3, <1>2, FieldTypes DEF Tiling
<1> HIDE DEF k, c, F, U
<1>6. /\ CutTiling([h EXCEPT ![b].size = h[b].size + h[n].size], B \ {n}, b, c, k)
      /\ NextBlock([h EXCEPT ![b].size = h[b].size + h[n].size], b) = N
      /\ \A o \in B \ {b, n}: NextBlock([h EXCEPT ![b].size = h[b].size + h[n].size], o) = NextBlock(h, o)
  <2> DEFINE s == h[b].size + h[n].size
             f == [h EXCEPT ![b].size = s]
  <2>1. s \in Offset
    <3>1. N = n + h[n].size /\ N <= Last /\ n = b + h[b].size
      BY <1>1, <1>3, <1>4, TilingTypes
    <3>2. s \in Nat /\ s <= Last /\ Last <= Size
      BY <3>1, <1>5, Layout DEF Offset
    <3> QED BY <3>2, Layout DEF Offset
  <2>2. s = h[b].size + h[n].size
    OBVIOUS
  <2> HIDE DEF s
  <2>3. f \in [Offset -> Header] /\ \A o \in Offset: f[o].size = IF o = b THEN s ELSE h[o].size
    BY <2>1, <1>2, <1>5, SetSize
  <2> HIDE DEF f
  <2>4. Fuse(h, B, b, n, f)
    BY <2>2, <2>3, <1>2, <1>3, <1>4, <1>5 DEF Fuse
  <2>5. FuseTiling(h, B, b, n, f)
    BY <2>4, <1>1, TilingMerge
  <2>6. Tiling(f, B \ {n}) /\ NextBlock(f, b) = N /\ \A o \in B \ {b, n}: NextBlock(f, o) = NextBlock(h, o)
    BY <2>5 DEF FuseTiling
  <2>7. Cut(f, B \ {n}, b, c, k)
    <3>1. b \in (B \ {n}) \ {Last}
      BY <1>3, <1>5
    <3>2. c = b + k[b].size
      BY <1>3 DEF c
    <3>3. k[b].size > BlockSize /\ k[c].size > BlockSize /\ k[b].size + k[c].size = f[b].size
      BY <2>2, <2>3, <1>3, <1>4, <1>5, Layout
    <3>5. \A o \in (B \ {n}) \ {b}: o # c
      <4>1. N = n + h[n].size /\ N \in Nat
        BY <1>1, <1>3, <1>5, TilingTypes
      <4>2. c < N
        BY <4>1, <1>1, <1>3, <1>4, <1>5, TilingTypes DEF c
      <4>3. \A o \in B \ {n}: o <= b \/ NextBlock(f, b) <= o
        BY <2>6, <3>1, NextApart
      <4>4. \A o \in B \ {n}: o \in Nat
        BY <1>1, TilingTypes
      <4> QED BY <4>1, <4>2, <4>3, <4>4, <2>6, <1>3, <1>5
    <3>4. \A o \in (B \ {n}) \ {b}: k[o].size = f[o].size
      BY <3>5, <2>3, <1>2, <1>3
    <3> QED BY <3>1, <3>2, <3>3, <3>4, <1>3 DEF Cut
  <2>8. CutTiling(f, B \ {n}, b, c, k)
    BY <2>6, <2>7, TilingSplit
  <2> QED BY <2>2, <2>6, <2>8 DEF f
<1>7. /\ Tiling(k, B1) /\ NextBlock(k, b) = c /\ NextBlock(k, c) = N /\ c < N /\ c \notin B \ {n}
      /\ c \in Start..(Last - 1)
      /\ \A o \in B \ {b, n}: NextBlock(k, o) = NextBlock(h, o)
  BY <1>6 DEF CutTiling
<1>8. ASSUME NEW o \in B \ {n, b} PROVE o # c /\ k[o] = h[o] /\ o \in Offset
  BY <1>2, <1>3, <1>7
<1>9. c # Last /\ c \notin F
  <2>1. c # Last
    BY <1>7, Layout
  <2>2. n \notin F /\ F \subseteq B
    BY <1>2, <1>3, <1>4 DEF F, FreeIn
  <2> QED BY <2>1, <2>2, <1>7
<1>10. FreeIn(k, B1) = (F \ {b}) \cup {c} /\ UsedIn(k, B1) = (U \ {n}) \cup {b}
  <2>1. F \subseteq B \ {Last} /\ U \subseteq B \ {Last} /\ n \notin F /\ b \notin U
    BY <1>2, <1>3, <1>4 DEF F, U, FreeIn, UsedIn
  <2>2. ASSUME NEW o \in B1
        PROVE  /\ o \in FreeIn(k, B1) <=> o \in (F \ {b}) \cup {c}
               /\ o \in UsedIn(k, B1) <=> o \in (U \ {n}) \cup {b}
    <3>1. CASE o = c
      <4>1. c \notin U \ {n}
        BY <2>1, <1>7
      <4> QED BY <4>1, <3>1, <1>3, <1>9 DEF FreeIn, UsedIn
    <3>2. CASE o = b
      BY <3>2, <1>3 DEF FreeIn, UsedIn
    <3>3. CASE o # c /\ o # b
      <4>1. o \in B \ {n, b} /\ k[o] = h[o]
        BY <3>3, <1>8
      <4> QED BY <4>1, <3>3 DEF FreeIn, UsedIn, F, U
    <3> QED BY <3>1, <3>2, <3>3
  <2>3. FreeIn(k, B1) \subseteq B1 /\ UsedIn(k, B1) \subseteq B1
    BY DEF FreeIn, UsedIn
  <2>4. (F \ {b}) \cup {c} \subseteq B1 /\ (U \ {n}) \cup {b} \subseteq B1
    BY <2>1, <1>3, <1>5
  <2> HIDE DEF B1
  <2> QED BY <2>2, <2>3, <2>4
<1>11. Grounded(k)
  <2>1. k[Last] = h[Last] /\ k[Null] = h[Null]
    BY <1>2, <1>3, <1>9
  <2> QED BY <2>1, <1>1, <1>3 DEF Grounded
<1>12. \A o \in L: o \in B \ {n, b} /\ o \in F /\ o < b /\ o \in Nat
  <2> TAKE o \in L
  <2>1. o \in F /\ o < b
    BY DEF F
  <2>2. o \in B /\ o \in Nat /\ n \notin F
    BY <2>1, <1>1, <1>2, <1>3, <1>4, TilingTypes DEF F, FreeIn
  <2>3. o # b
    BY <2>1, <2>2, <1>5
  <2> QED BY <2>1, <2>2, <2>3
<1>13. Listed(k, L)
  <2>1. k[First] = h[First] /\ k[Last] = h[Last]
    BY <1>2, <1>3, <1>9
  <2>2. \A o \in L: k[o] = h[o]
    BY <1>8, <1>12
  <2> QED BY <2>1, <2>2, <1>1, ListedFrame
<1>14. L = {o \in FreeIn(k, B1): o < c}
  <2>1. ASSUME NEW o \in FreeIn(k, B1), o < c PROVE o \in L
    <3>1. o # c
      BY <2>1, <1>5
    <3>2. o \in F /\ o # b
      BY <3>1, <1>10
    <3>3. o \in B \ {Last} /\ o \in Nat /\ n \notin F
      BY <3>2, <1>1, <1>2, <1>3, <1>4, TilingTypes DEF F, FreeIn
    <3>4. o <= b \/ n <= o
      BY <3>3, <1>1, <1>3, <1>4, NextApart
    <3>5. o <= n \/ N <= o
      BY <3>3, <1>1, <1>3, NextApart
    <3>6. N \in Nat
      BY <1>1, <1>3, TilingTypes
    <3>7. o < b
      <4>1. ~(N <= o)
        BY <2>1, <3>3, <3>6, <1>5, <1>7
      <4>2. o # n
        BY <3>2, <3>3
      <4> QED BY <4>1, <4>2, <3>2, <3>3, <3>4, <3>5, <1>5
    <3> QED BY <3>2, <3>7 DEF F
  <2>2. ASSUME NEW o \in L PROVE o \in FreeIn(k, B1) /\ o < c
    <3>1. o \in F /\ o # b /\ o < b /\ o \in Nat
      BY <1>12
    <3>2. o < c
      BY <3>1, <1>3, <1>5
    <3> QED BY <3>1, <3>2, <1>10
  <2> QED BY <2>1, <2>2
<1>15. k[Start].prev_size = 0
  <2>1. h[Start].prev_size = 0 /\ Start \in B /\ Start # n /\ Start \in Offset
    <3>1. Start <= b
      BY <1>1, <1>3, TilingTypes
    <3>2. Start # n
      BY <3>1, <1>3, <1>5, Layout
    <3> QED BY <3>2, <1>1, Layout DEF Tagged, Tiling
  <2>2. CASE Start = b
    BY <2>2, <1>3
  <2>3. CASE Start # b
    BY <2>1, <2>3, <1>8
  <2> QED BY <2>2, <2>3
<1>16. ASSUME NEW d \in B1 \ {Last, c}
       PROVE  IF d \in FreeIn(k, B1)
                THEN NextBlock(k, d) \notin FreeIn(k, B1) /\ k[NextBlock(k, d)].prev_size = k[d].size
                ELSE k[NextBlock(k, d)].prev_size = 0
  <2>1. CASE d = b
    <3>1. b \notin FreeIn(k, B1)
      BY <1>3, <1>10
    <3> QED BY <3>1, <2>1, <1>3, <1>7
  <2>2. CASE d # b
    <3>1. d \in B \ {b, n} /\ d \in B \ {Last}
      BY <2>2
    <3>2. IF d \in F
            THEN NextBlock(h, d) \notin F /\ h[NextBlock(h, d)].prev_size = h[d].size
            ELSE h[NextBlock(h, d)].prev_size = 0
      BY <3>1, <1>1 DEF Tagged, F
    <3>3. NextBlock(k, d) = NextBlock(h, d) /\ NextBlock(h, d) \in B /\ NextBlock(h, d) # n
      BY <3>1, <1>1, <1>3, <1>4, <1>7, NextApart, TilingTypes
    <3>4. d \in FreeIn(k, B1) <=> d \in F
      BY <2>2, <1>10
    <3>5. k[d] = h[d]
      BY <3>1, <1>8
    <3>6. CASE NextBlock(h, d) = b
      <4>1. d \notin F
        BY <3>2, <3>6, <1>4
      <4> QED BY <4>1, <3>3, <3>4, <3>6, <1>3
    <3>7. CASE NextBlock(h, d) # b
      <4>1. k[NextBlock(h, d)] = h[NextBlock(h, d)] /\ NextBlock(h, d) # c
        BY <3>3, <3>7, <1>8
      <4> QED BY <4>1, <3>2, <3>3, <3>4, <3>5, <1>10
    <3> QED BY <3>6, <3>7
  <2> QED BY <2>1, <2>2
<1>17. Sliding(k, B1, c, L)
  <2>1. c \in FreeIn(k, B1)
    BY <1>10
  <2> HIDE DEF B1
  <2> QED BY <2>1, <1>7, <1>11, <1>13, <1>14, <1>15, <1>16 DEF Sliding
<1>18. Untouched(h, k, U \ {n})
  <2> SUFFICES ASSUME NEW v \in U \ {n} PROVE k[v].size = h[v].size /\ k[v].fprev = h[v].fprev
    BY DEF Untouched
  <2>1. v \in B \ {n, b}
    BY <1>2, <1>3, <1>4 DEF U, UsedIn
  <2> QED BY <2>1, <1>8
<1>19. Total(k, (F \ {b}) \cup {c}) = Total(h, F) + (h[n].size - used)
  <2> DEFINE C == (F \ {b}) \cup {c}
  <2>1. C \in SUBSET Offset /\ c \in C /\ C \ {c} = F \ {b} /\ F \in SUBSET Offset /\ F \ {b} \in SUBSET Offset
    BY <1>2, <1>3, <1>9
  <2> HIDE DEF C
  <2>2. Total(k, C) = k[c].size + Total(k, F \ {b})
    BY <2>1, <1>3, TotalTakes
  <2>3. Total(k, F \ {b}) = Total(h, F \ {b}) /\ Total(h, F \ {b}) \in Nat
    <3>1. \A o \in F \ {b}: k[o].size = h[o].size
      <4> TAKE o \in F \ {b}
      <4>1. o \in B \ {n, b}
        BY <1>2, <1>3, <1>4 DEF F, FreeIn
      <4> QED BY <4>1, <1>8
    <3> QED BY <3>1, <2>1, <1>2, <1>3, TotalFrame, TotalTakes
  <2>4. Total(h, F) = h[b].size + Total(h, F \ {b})
    BY <2>1, <1>2, <1>4, TotalTakes
  <2>5. Total(k, C) = Total(h, F) + (h[n].size - used)
    <3> DEFINE x == Total(h, F \ {b})
    <3>1. /\ Total(k, C) = (h[b].size + (h[n].size - used)) + x /\ x \in Nat /\ Total(h, F) = h[b].size + x
      BY <2>2, <2>3, <2>4, <1>3
    <3> HIDE DEF x
    <3> QED BY <3>1, <1>3, <1>5
  <2> QED BY <2>5 DEF C
<1>20. SlideKept(h, B, k, B1, b, n, c, used, L)
  <2>1. \A o \in L: NextBlock(k, o) = NextBlock(h, o)
    BY <1>7, <1>12
  <2> HIDE DEF B1
  <2> QED BY <2>1, <1>3, <1>10, <1>18, <1>19 DEF SlideKept, U, F
<1> QED BY <1>17, <1>20 DEF k, c

AbsorbResult(h, B, k, B2, c, L) ==
  /\ Heap(k, B2, c, L) /\ L = {o \in FreeIn(k, B2): o < c} /\ c \in FreeIn(k, B2)
  /\ UsedIn(k, B2) = UsedIn(h, B) /\ Untouched(h, k, UsedIn(h, B))
  /\ Total(k, FreeIn(k, B2)) = Total(h, FreeIn(h, B))
  /\ \A o \in L: NextBlock(k, o) = NextBlock(h, o)
AbsorbSome(h, B, k, c, L) == \E B2 \in SUBSET Offset: AbsorbResult(h, B, k, B2, c, L)

LEMMA AbsorbedKeeps ==
  ASSUME NEW h, NEW B, NEW c, NEW L, Sliding(h, B, c, L)
  PROVE  AbsorbSome(h, B, Absorbed(h, c), c, L)
<1> DEFINE n == NextBlock(h, c)
           F == FreeIn(h, B)
           U == UsedIn(h, B)
           s == h[c].size + h[n].size
           g == [h EXCEPT ![c].size = s]
           k == [g EXCEPT ![n] = NoHeader]
           B2 == B \ {n}
<1>1. /\ Tiling(h, B) /\ Grounded(h) /\ c \in F /\ Listed(h, L) /\ h[Start].prev_size = 0
      /\ L = {o \in F: o < c}
  BY DEF Sliding
<1>2. /\ F \subseteq Start..(Last - 1) /\ F \subseteq Offset /\ U \subseteq Offset
      /\ Null \notin B /\ First \notin B /\ B \subseteq Offset /\ h \in [Offset -> Header]
      /\ \A o \in B \ {Last}: o \in F <=> o \notin U
      /\ \A o \in B: o \in F <=> o # Last /\ h[o].fnext # Null
      /\ Last \notin F /\ Last \notin U
      /\ First \in Offset /\ Last \in Offset /\ Null \in Offset /\ First # Last /\ First # Null /\ Last # Null
      /\ 0 = Null /\ c \in B \ {Last} /\ c \in Offset
  BY <1>1, HeapSets, Layout DEF FreeIn
<1>3. n \in B /\ n \in Offset /\ c < n /\ n \in Nat /\ c \in Nat /\ n # c /\ Start <= c
  <2>1. n \in B /\ c < n /\ n \in Nat /\ c \in Nat /\ Start <= c
    BY <1>1, <1>2, TilingTypes
  <2>2. n # c
    BY <2>1
  <2> QED BY <2>1, <2>2, <1>2
<1>4. ASSUME NEW b \in B \ {Last, c}
      PROVE  IF b \in F
               THEN NextBlock(h, b) \notin F /\ h[NextBlock(h, b)].prev_size = h[b].size
               ELSE h[NextBlock(h, b)].prev_size = 0
  BY DEF Sliding
<1> HIDE DEF n, F, U
<1>5. CASE h[n].fnext = 0
  <2>1. Absorbed(h, c) = h
    BY <1>5 DEF Absorbed, n
  <2>2. n \notin F
    BY <1>2, <1>3, <1>5
  <2>3. Tagged(h, B, c)
    <3>1. ASSUME NEW b \in B \ {Last}
          PROVE  IF b \in F
                   THEN NextBlock(h, b) \notin F /\ (b = c \/ h[NextBlock(h, b)].prev_size = h[b].size)
                   ELSE h[NextBlock(h, b)].prev_size = 0
      BY <1>1, <1>4, <2>2 DEF n
    <3> QED BY <3>1, <1>1 DEF Tagged, F
  <2>4. AbsorbResult(h, B, h, B, c, L)
    BY <1>1, <2>3 DEF AbsorbResult, Heap, Untouched, F
  <2> QED BY <2>1, <2>4, <1>2 DEF AbsorbSome
<1>6. CASE h[n].fnext # 0
  <2>1. n # Last /\ n \in F
    BY <1>1, <1>2, <1>3, <1>6 DEF Grounded
  <2>2. Absorbed(h, c) = k
    BY <1>6 DEF Absorbed, n
  <2>3. s \in Offset /\ h[n].size \in Nat /\ h[c].size \in Nat
    <3>1. NextBlock(h, n) = n + h[n].size /\ NextBlock(h, n) <= Last /\ n = c + h[c].size
      BY <1>1, <1>2, <1>3, <2>1, TilingTypes DEF n
    <3>2. h[n].size \in Nat /\ h[c].size \in Nat
      BY <1>2, <1>3, FieldTypes
    <3>3. s \in Nat /\ s <= Last /\ Last <= Size
      BY <3>1, <3>2, <1>3, Layout DEF Offset
    <3> QED BY <3>2, <3>3, Layout DEF Offset
  <2>4. s = h[c].size + h[n].size
    OBVIOUS
  <2> HIDE DEF s
  <2>5. g \in [Offset -> Header]
        /\ \A o \in Offset: /\ g[o].size = IF o = c THEN s ELSE h[o].size
                            /\ g[o].prev_size = h[o].prev_size /\ g[o].fnext = h[o].fnext /\ g[o].fprev = h[o].fprev
    BY <1>2, <2>3, SetSize
  <2> HIDE DEF g
  <2>6. k \in [Offset -> Header] /\ \A o \in Offset \ {n}: k[o] = g[o]
    <3>1. NoHeader \in Header
      BY Layout DEF NoHeader, Header
    <3> QED BY <3>1, <2>5, <1>3
  <2> HIDE DEF k
  <2>7. \A o \in Offset \ {n}:
          /\ k[o].size = IF o = c THEN s ELSE h[o].size
          /\ k[o].prev_size = h[o].prev_size /\ k[o].fnext = h[o].fnext /\ k[o].fprev = h[o].fprev
    BY <2>5, <2>6
  <2>8. /\ Tiling(k, B2) /\ NextBlock(k, c) = NextBlock(h, n)
        /\ \A d \in B \ {c, n}: NextBlock(k, d) = NextBlock(h, d) /\ NextBlock(h, d) # n
    <3>1. Fuse(h, B, c, n, k)
      <4>1. k[c].size = h[c].size + h[n].size
        BY <2>4, <2>7, <1>2, <1>3
      <4>2. \A d \in B \ {c, n}: k[d].size = h[d].size
        BY <2>7, <1>2
      <4> QED BY <4>1, <4>2, <2>1, <2>6, <1>2 DEF Fuse, n
    <3>2. FuseTiling(h, B, c, n, k)
      BY <3>1, <1>1, TilingMerge
    <3> QED BY <3>2 DEF FuseTiling
  <2>9. Grounded(k)
    BY <2>1, <2>6, <2>7, <1>1, <1>2, <1>3 DEF Grounded
  <2>10. FreeIn(k, B2) = F \ {n} /\ UsedIn(k, B2) = U
    <3>1. n \notin U
      BY <2>1, <1>2 DEF F, FreeIn
    <3>2. \A o \in B2: /\ o \in FreeIn(k, B2) <=> o \in F \ {n}
                       /\ o \in UsedIn(k, B2) <=> o \in U
      BY <2>7, <1>2 DEF FreeIn, UsedIn, F, U
    <3>3. FreeIn(k, B2) \subseteq B2 /\ UsedIn(k, B2) \subseteq B2
      BY DEF FreeIn, UsedIn
    <3>4. F \ {n} \subseteq B2 /\ U \subseteq B2
      BY <3>1 DEF F, U, FreeIn, UsedIn
    <3> HIDE DEF B2
    <3> QED BY <3>2, <3>3, <3>4
  <2>11. L = {o \in F \ {n}: o < c} /\ n \notin L /\ c \notin L
    <3>1. ~(n < c) /\ ~(c < c)
      BY <1>3
    <3> QED BY <3>1, <1>1
  <2>12. Listed(k, L)
    <3>1. L \subseteq Offset \ {n} /\ First \in Offset \ {n} /\ Last \in Offset \ {n}
      BY <2>1, <2>11, <1>1, <1>2, <1>3
    <3>2. \A o \in L \cup {First}: k[o].fnext = h[o].fnext
      BY <2>7, <3>1
    <3>3. \A o \in L \cup {Last}: k[o].fprev = h[o].fprev
      BY <2>7, <3>1
    <3> QED BY <3>2, <3>3, <1>1, ListedFrame
  <2>13. Tagged(k, B2, c)
    <3>1. k[Start].prev_size = 0
      <4>1. Start # n /\ Start \in Offset
        BY <1>3, Layout
      <4> QED BY <4>1, <2>7, <1>1
    <3>2. ASSUME NEW b \in B2 \ {Last}
          PROVE  IF b \in F \ {n}
                   THEN NextBlock(k, b) \notin F \ {n} /\ (b = c \/ k[NextBlock(k, b)].prev_size = k[b].size)
                   ELSE k[NextBlock(k, b)].prev_size = 0
      <4>1. CASE b = c
        <5>1. NextBlock(h, n) \notin F
          BY <2>1, <1>3, <1>4
        <5> QED BY <5>1, <4>1, <2>8, <1>1, <1>3
      <4>2. CASE b # c
        <5>1. b \in B \ {Last, c} /\ b \in B \ {c, n} /\ b \in Offset \ {n}
          BY <4>2, <1>2
        <5>2. NextBlock(k, b) = NextBlock(h, b) /\ NextBlock(h, b) # n /\ NextBlock(h, b) \in Offset \ {n}
          BY <5>1, <2>8, <1>1, <1>2, TilingTypes
        <5>3. k[NextBlock(h, b)].prev_size = h[NextBlock(h, b)].prev_size /\ k[b].size = h[b].size
          BY <5>1, <5>2, <2>7
        <5> QED BY <5>1, <5>2, <5>3, <1>4
      <4> QED BY <4>1, <4>2
    <3> QED BY <3>1, <3>2, <2>10 DEF Tagged
  <2>14. Untouched(h, k, U)
    <3> SUFFICES ASSUME NEW v \in U PROVE k[v].size = h[v].size /\ k[v].fprev = h[v].fprev
      BY DEF Untouched
    <3>1. v \in Offset \ {n} /\ v # c
      BY <2>1, <1>1, <1>2, <1>3 DEF U, UsedIn, F, FreeIn
    <3> QED BY <3>1, <2>7
  <2>15. Total(k, F \ {n}) = Total(h, F)
    <3> DEFINE G == (F \ {n}) \ {c}
               M == F \ {n}
    <3>1. /\ M \in SUBSET Offset /\ G \in SUBSET Offset /\ c \in M /\ G = M \ {c} /\ F \in SUBSET Offset
      BY <1>1, <1>2, <1>3
    <3>2. Total(k, M) = k[c].size + Total(k, G) /\ Total(h, M) = h[c].size + Total(h, G)
          /\ Total(h, F) = h[n].size + Total(h, M)
      BY <3>1, <2>1, <2>6, <1>2, TotalTakes
    <3>3. Total(k, G) = Total(h, G) /\ Total(h, G) \in Nat
      <4>1. \A o \in G: k[o].size = h[o].size
        BY <3>1, <2>7
      <4> QED BY <4>1, <3>1, <2>6, <1>2, TotalFrame, TotalTakes
    <3>4. k[c].size = h[c].size + h[n].size
      BY <2>4, <2>7, <1>2, <1>3
    <3>5. Total(k, M) = Total(h, F)
      <4> DEFINE x == Total(h, G)
      <4>1. x \in Nat /\ Total(k, M) = (h[c].size + h[n].size) + x /\ Total(h, F) = h[n].size + (h[c].size + x)
        BY <3>2, <3>3, <3>4
      <4> HIDE DEF x, G, M
      <4> QED BY <4>1, <2>3
    <3> QED BY <3>5
  <2>16. AbsorbResult(h, B, k, B2, c, L)
    <3>1. c \in F \ {n}
      BY <1>1, <1>3
    <3>2. \A o \in L: NextBlock(k, o) = NextBlock(h, o)
      <4>1. \A o \in L: o \in B \ {c, n}
        BY <2>11, <1>1 DEF F, FreeIn
      <4> QED BY <4>1, <2>8
    <3> HIDE DEF B2
    <3> QED BY <3>1, <3>2, <2>8, <2>9, <2>10, <2>11, <2>12, <2>13, <2>14, <2>15 DEF AbsorbResult, Heap, F, U
  <2>17. B2 \in SUBSET Offset
    BY <1>2
  <2> HIDE DEF B2
  <2> QED BY <2>2, <2>16, <2>17 DEF AbsorbSome
<1> QED BY <1>5, <1>6

-----------------------------------------------------------------------------
(* The other steps of a defragmentation *)

PassedIn(h, B, c) == {o \in FreeIn(h, B): o < c}

\* A step that changes no block: the list is now that of the blocks in front of c.
PassResult(h, B, k, c) ==
  /\ Heap(k, B, c, PassedIn(k, B, c)) /\ FreeIn(k, B) = FreeIn(h, B) /\ UsedIn(k, B) = UsedIn(h, B)
  /\ Untouched(h, k, UsedIn(h, B)) /\ Total(k, FreeIn(k, B)) = Total(h, FreeIn(h, B))
  /\ \A o \in B: NextBlock(k, o) = NextBlock(h, o)

Emptied(h) == [h EXCEPT ![First].fnext = Last, ![Last].fprev = First]

LEMMA EmptiedKeeps ==
  ASSUME NEW h, NEW B, Heap(h, B, Null, FreeIn(h, B))
  PROVE  PassResult(h, B, Emptied(h), Start)
<1> DEFINE g == [h EXCEPT ![First].fnext = Last]
           k == [g EXCEPT ![Last].fprev = First]
           F == FreeIn(h, B)
           U == UsedIn(h, B)
<1>1. Tiling(h, B) /\ Grounded(h) /\ Tagged(h, B, Null)
  BY DEF Heap
<1>2. /\ F \subseteq Start..(Last - 1) /\ F \subseteq Offset /\ U \subseteq Offset
      /\ Null \notin B /\ First \notin B /\ B \subseteq Offset /\ h \in [Offset -> Header]
      /\ Last \notin F /\ Last \notin U
      /\ First \in Offset /\ Last \in Offset /\ Null \in Offset /\ First # Last /\ First # Null /\ Last # Null
  BY <1>1, HeapSets, Layout
<1>3. Emptied(h) = k
  BY DEF Emptied
<1>4. g \in [Offset -> Header]
      /\ \A o \in Offset: /\ g[o].fnext = IF o = First THEN Last ELSE h[o].fnext
                          /\ g[o].size = h[o].size /\ g[o].prev_size = h[o].prev_size /\ g[o].fprev = h[o].fprev
  BY <1>2, SetFnext
<1> HIDE DEF g
<1>5. k \in [Offset -> Header]
      /\ \A o \in Offset: /\ k[o].fprev = IF o = Last THEN First ELSE g[o].fprev
                          /\ k[o].size = g[o].size /\ k[o].prev_size = g[o].prev_size /\ k[o].fnext = g[o].fnext
  BY <1>2, <1>4, SetFprev
<1> HIDE DEF k
<1>6. \A o \in Offset: /\ k[o].size = h[o].size /\ k[o].prev_size = h[o].prev_size
                       /\ k[o].fnext = IF o = First THEN Last ELSE h[o].fnext
                       /\ k[o].fprev = IF o = Last THEN First ELSE h[o].fprev
  BY <1>4, <1>5
<1>7. Tiling(k, B) /\ \A b \in B: NextBlock(k, b) = NextBlock(h, b)
  <2>1. \A b \in B: NextBlock(k, b) = NextBlock(h, b) /\ k[b].size = h[b].size
    BY <1>2, <1>6 DEF NextBlock
  <2> QED BY <2>1, <1>1, <1>5 DEF Tiling
<1>8. FreeIn(k, B) = F /\ UsedIn(k, B) = U
  <2>1. \A b \in B: k[b].fnext = h[b].fnext
    BY <1>2, <1>6
  <2> QED BY <2>1 DEF FreeIn, UsedIn
<1> HIDE DEF F, U
<1>9. Grounded(k)
  BY <1>1, <1>2, <1>5, <1>6 DEF Grounded
<1>10. Tagged(k, B, Start)
  <2>1. k[Start].prev_size = 0
    BY <1>1, <1>6, Layout DEF Tagged
  <2>2. ASSUME NEW b \in B \ {Last}
        PROVE  IF b \in F
                 THEN NextBlock(h, b) \notin F /\ (b = Start \/ k[NextBlock(h, b)].prev_size = k[b].size)
                 ELSE k[NextBlock(h, b)].prev_size = 0
    <3>1. NextBlock(h, b) \in Offset /\ b \in Offset /\ b # Null
      BY <1>1, TilingTypes
    <3>2. IF b \in F
            THEN NextBlock(h, b) \notin F /\ (b = Null \/ h[NextBlock(h, b)].prev_size = h[b].size)
            ELSE h[NextBlock(h, b)].prev_size = 0
      BY <1>1 DEF Tagged, F
    <3> QED BY <3>1, <3>2, <1>6
  <2> QED BY <2>1, <2>2, <1>7, <1>8 DEF Tagged
<1>11. PassedIn(k, B, Start) = {}
  <2>1. \A o \in F: o \in Nat /\ Start <= o
    BY <1>1, TilingTypes DEF F, FreeIn
  <2>2. \A o \in F: ~(o < Start)
    BY <2>1, Layout
  <2> QED BY <2>2, <1>8 DEF PassedIn
<1>12. Listed(k, {})
  <2> DEFINE rk == [o \in Offset |-> IF o = First THEN 1 ELSE 0]
  <2>1. rk \in [Offset -> Nat] /\ rk[First] = 1 /\ rk[Last] = 0
    BY <1>2
  <2>2. k[First].fnext = Last /\ k[Last].fprev = First
    BY <1>2, <1>6
  <2> HIDE DEF rk
  <2>3. Links(k, {}, rk)
    BY <2>1, <2>2 DEF Links
  <2> QED BY <2>1, <2>3 DEF Listed
<1>13. Untouched(h, k, U)
  BY <1>2, <1>6 DEF Untouched
<1>14. Total(k, F) = Total(h, F)
  <2>1. \A o \in F: k[o].size = h[o].size
    BY <1>2, <1>6
  <2> QED BY <2>1, <1>2, <1>5, TotalFrame
<1> QED BY <1>3, <1>7, <1>8, <1>9, <1>10, <1>11, <1>12, <1>13, <1>14 DEF PassResult, Heap, F, U

\* The offsets at which the list of passed blocks changes.
LEMMA PassedGrows ==
  ASSUME NEW h, NEW B, Tiling(h, B), NEW b \in B \ {Last}, NEW c, c = NextBlock(h, b)
  PROVE  PassedIn(h, B, c) = PassedIn(h, B, b) \cup ({b} \cap FreeIn(h, B))
<1>1. \A o \in B: o \in Nat /\ (o <= b \/ c <= o)
  BY NextApart, TilingTypes
<1>2. b \in Nat /\ c \in Nat /\ b < c /\ FreeIn(h, B) \subseteq B
  BY TilingTypes DEF FreeIn
<1>3. ASSUME NEW o \in FreeIn(h, B) PROVE o < c <=> o < b \/ o = b
  <2>1. o \in Nat /\ (o <= b \/ c <= o)
    BY <1>1, <1>2
  <2> QED BY <2>1, <1>2
<1> QED BY <1>3 DEF PassedIn

LEMMA SkipKeeps ==
  ASSUME NEW h, NEW B, NEW b \in UsedIn(h, B), Heap(h, B, b, PassedIn(h, B, b))
  PROVE  PassResult(h, B, h, NextBlock(h, b))
<1>1. Tiling(h, B) /\ b \in B \ {Last} /\ b \notin FreeIn(h, B)
  BY DEF Heap, UsedIn, FreeIn
<1>2. PassedIn(h, B, NextBlock(h, b)) = PassedIn(h, B, b)
  BY <1>1, PassedGrows
<1>3. Tagged(h, B, NextBlock(h, b))
  BY <1>1 DEF Tagged, Heap
<1> QED BY <1>2, <1>3 DEF Heap, PassResult, Untouched

LEMMA EndKeeps ==
  ASSUME NEW h, NEW B, Heap(h, B, Last, PassedIn(h, B, Last))
  PROVE  Heap(h, B, Null, FreeIn(h, B))
<1>1. Tiling(h, B)
  BY DEF Heap
<1>2. PassedIn(h, B, Last) = FreeIn(h, B)
  <2>1. \A o \in FreeIn(h, B): o < Last
    BY <1>1, TilingTypes DEF FreeIn
  <2> QED BY <2>1 DEF PassedIn
<1>3. Tagged(h, B, Null)
  BY DEF Tagged, Heap
<1> QED BY <1>2, <1>3 DEF Heap

\* The free block b stays: it is put on the list, and the block behind it is passed too.
Stayed(h, b) ==
  [Link(h, b) EXCEPT ![b].prev_size = 0, ![NextBlock(h, b)].prev_size = h[b].size]

LEMMA StayedKeeps ==
  ASSUME NEW h, NEW B, NEW b \in FreeIn(h, B), Heap(h, B, b, PassedIn(h, B, b))
  PROVE  PassResult(h, B, Stayed(h, b), NextBlock(h, NextBlock(h, b)))
<1> DEFINE F == FreeIn(h, B)
           U == UsedIn(h, B)
           L == PassedIn(h, B, b)
           n == NextBlock(h, b)
           c == NextBlock(h, n)
           g == Link(h, b)
           g1 == [g EXCEPT ![b].prev_size = 0]
           k == [g1 EXCEPT ![n].prev_size = h[b].size]
<1>1. Tiling(h, B) /\ Grounded(h) /\ Tagged(h, B, b) /\ Listed(h, L)
  BY DEF Heap
<1>2. /\ F \subseteq Start..(Last - 1) /\ F \subseteq Offset /\ U \subseteq Offset
      /\ Null \notin B /\ First \notin B /\ B \subseteq Offset /\ h \in [Offset -> Header]
      /\ \A o \in B \ {Last}: o \in F <=> o \notin U
      /\ \A o \in B: o \in F <=> o # Last /\ h[o].fnext # Null
      /\ Last \notin F /\ Last \notin U
      /\ First \in Offset /\ Last \in Offset /\ Null \in Offset /\ First # Last /\ First # Null /\ Last # Null
      /\ 0 = Null /\ 0 \in Offset /\ b \in B \ {Last} /\ b \in Offset /\ b \in F
  BY <1>1, HeapSets, Layout DEF FreeIn
<1>3. n \in B /\ n \in Offset /\ n # b /\ h[b].size \in Offset /\ n # Start /\ c \in B
  <2>1. n \in B /\ b < n /\ b \in Nat /\ n \in Nat /\ Start <= b
    BY <1>1, <1>2, TilingTypes
  <2>2. h[b].size \in Offset
    BY <1>2, FieldTypes
  <2>3. n # b /\ n # Start
    BY <2>1, Layout
  <2>4. c \in B
    BY <2>1, <1>1, TilingTypes
  <2> QED BY <2>1, <2>2, <2>3, <2>4, <1>2
<1>4. L \subseteq F /\ b \notin L
  <2>1. b \in Nat
    BY <1>1, <1>2, TilingTypes
  <2>2. ~(b < b)
    BY <2>1
  <2> QED BY <2>2 DEF PassedIn
<1>5. Stayed(h, b) = k
  BY DEF Stayed
<1> HIDE DEF F, U, L, n, c
<1>6. /\ Grounded(g) /\ Listed(g, L \cup {b}) /\ g[b].fnext # Null
      /\ \A o \in Offset:
           /\ g[o].size = h[o].size
           /\ g[o].prev_size = h[o].prev_size
           /\ o # b => (g[o].fnext = Null <=> h[o].fnext = Null)
           /\ o \notin L \cup {Last, b} => g[o].fprev = h[o].fprev
  <2>1. L \subseteq Start..(Last - 1) /\ b \in Start..(Last - 1)
    BY <1>2, <1>4
  <2>2. Linked(h, L, b, g)
    BY <2>1, <1>1, <1>4, LinkKeeps
  <2> QED BY <2>2 DEF Linked
<1> HIDE DEF g
<1>7. g \in [Offset -> Header]
  BY <1>6 DEF Grounded
<1>8. g1 \in [Offset -> Header]
      /\ \A o \in Offset: /\ g1[o].prev_size = IF o = b THEN 0 ELSE g[o].prev_size
                          /\ g1[o].size = g[o].size /\ g1[o].fnext = g[o].fnext /\ g1[o].fprev = g[o].fprev
  BY <1>2, <1>7, SetPrevSize
<1> HIDE DEF g1
<1>9. k \in [Offset -> Header]
      /\ \A o \in Offset: /\ k[o].prev_size = IF o = n THEN h[b].size ELSE g1[o].prev_size
                          /\ k[o].size = g1[o].size /\ k[o].fnext = g1[o].fnext /\ k[o].fprev = g1[o].fprev
  BY <1>3, <1>8, SetPrevSize
<1> HIDE DEF k
<1>10. \A o \in Offset:
         /\ k[o].size = h[o].size
         /\ k[o].prev_size = IF o = n THEN h[b].size ELSE IF o = b THEN 0 ELSE h[o].prev_size
         /\ k[o].fnext = g[o].fnext /\ k[o].fprev = g[o].fprev
         /\ o # b => (k[o].fnext = Null <=> h[o].fnext = Null)
  BY <1>6, <1>8, <1>9
<1>11. Tiling(k, B) /\ \A o \in B: NextBlock(k, o) = NextBlock(h, o)
  <2>1. \A o \in B: NextBlock(k, o) = NextBlock(h, o) /\ k[o].size = h[o].size
    BY <1>2, <1>10 DEF NextBlock
  <2> QED BY <2>1, <1>1, <1>9 DEF Tiling
<1>12. FreeIn(k, B) = F /\ UsedIn(k, B) = U
  <2>1. k[b].fnext # Null /\ h[b].fnext # Null
    BY <1>2, <1>6, <1>10
  <2>2. \A o \in B: k[o].fnext = Null <=> h[o].fnext = Null
    BY <2>1, <1>2, <1>10
  <2> QED BY <2>2 DEF FreeIn, UsedIn, F, U
<1>13. n \notin F
  BY <1>1, <1>2 DEF Tagged, F, n
<1>14. PassedIn(k, B, c) = L \cup {b}
  <2>1. PassedIn(h, B, n) = L \cup {b}
    <3>1. PassedIn(h, B, n) = PassedIn(h, B, b) \cup ({b} \cap FreeIn(h, B))
      BY <1>1, <1>2, PassedGrows DEF n
    <3> QED BY <3>1, <1>2 DEF L, F
  <2>2. PassedIn(h, B, c) = PassedIn(h, B, n)
    <3>1. CASE n = Last
      <4>1. c = n
        <5>1. h[Last].size = 0 /\ Last \in Nat
          BY <1>1, Layout DEF Tiling
        <5>2. Last + 0 = Last
          BY <5>1
        <5> QED BY <5>1, <5>2, <3>1 DEF c, NextBlock
      <4> QED BY <4>1
    <3>2. CASE n # Last
      <4>1. PassedIn(h, B, c) = PassedIn(h, B, n) \cup ({n} \cap FreeIn(h, B))
        BY <3>2, <1>1, <1>3, PassedGrows DEF c
      <4> QED BY <4>1, <1>13 DEF F
    <3> QED BY <3>1, <3>2
  <2> QED BY <2>1, <2>2, <1>12 DEF PassedIn, F
<1>15. Grounded(k)
  <2>1. Last # b /\ Null # b
    BY <1>2
  <2> QED BY <2>1, <1>1, <1>2, <1>9, <1>10 DEF Grounded
<1>16. Listed(k, L \cup {b})
  <2>1. L \subseteq Offset
    BY <1>2, <1>4
  <2>2. \A o \in (L \cup {b}) \cup {First}: k[o].fnext = g[o].fnext
    BY <2>1, <1>2, <1>10
  <2>3. \A o \in (L \cup {b}) \cup {Last}: k[o].fprev = g[o].fprev
    BY <2>1, <1>2, <1>10
  <2> QED BY <2>2, <2>3, <1>6, ListedFrame
<1>17. Tagged(k, B, c)
  <2>1. k[Start].prev_size = 0
    <3>1. h[Start].prev_size = 0 /\ Start \in Offset
      BY <1>1, Layout DEF Tagged
    <3> QED BY <3>1, <1>3, <1>10
  <2>2. ASSUME NEW d \in B \ {Last}
        PROVE  IF d \in F
                 THEN NextBlock(h, d) \notin F /\ k[NextBlock(h, d)].prev_size = k[d].size
                 ELSE k[NextBlock(h, d)].prev_size = 0
    <3>1. IF d \in F
            THEN NextBlock(h, d) \notin F /\ (d = b \/ h[NextBlock(h, d)].prev_size = h[d].size)
            ELSE h[NextBlock(h, d)].prev_size = 0
      BY <1>1 DEF Tagged, F
    <3>2. NextBlock(h, d) \in Offset /\ d \in Offset
      BY <1>1, <1>2, TilingTypes
    <3>3. CASE d = b
      BY <3>1, <3>2, <3>3, <1>2, <1>10 DEF n
    <3>4. CASE d # b
      <4>1. NextBlock(h, d) # n
        BY <3>4, <1>1, <1>2, NextApart DEF n
      <4>2. CASE NextBlock(h, d) = b
        BY <4>2, <4>1, <3>1, <3>2, <1>2, <1>10
      <4>3. CASE NextBlock(h, d) # b
        BY <4>1, <4>3, <3>1, <3>2, <3>4, <1>10
      <4> QED BY <4>2, <4>3
    <3> QED BY <3>3, <3>4
  <2> QED BY <2>1, <2>2, <1>11, <1>12 DEF Tagged
<1>18. Untouched(h, k, U)
  <2> SUFFICES ASSUME NEW v \in U PROVE k[v].size = h[v].size /\ k[v].fprev = h[v].fprev
    BY DEF Untouched
  <2>1. v \in Offset /\ v \notin L \cup {Last, b}
    BY <1>2, <1>4 DEF U, UsedIn
  <2> QED BY <2>1, <1>6, <1>10
<1>19. Total(k, F) = Total(h, F)
  <2>1. \A o \in F: k[o].size = h[o].size
    BY <1>2, <1>10
  <2> QED BY <2>1, <1>2, <1>9, TotalFrame
<1>20. PassResult(h, B, k, c)
  BY <1>11, <1>12, <1>14, <1>15, <1>16, <1>17, <1>18, <1>19 DEF PassResult, Heap, F, U
<1> QED BY <1>5, <1>20 DEF c, n

-----------------------------------------------------------------------------
(* The client *)

\* Every allocation of the client is in an allocated block with its data and room for it,
\* every allocated block is a client's, and the cache header is in the first one.
Clients(h, B, dat, lv, nd) ==
  /\ \A id \in Id: lv[id] # Null =>
       /\ lv[id] \in UsedIn(h, B) /\ dat[lv[id]] = id /\ nd[id] # 0
       /\ h[lv[id]].fprev = BlockSize + nd[id] /\ h[lv[id]].fprev <= h[lv[id]].size
  /\ \A b \in UsedIn(h, B): lv[dat[b]] = b
  /\ lv[CacheHeader] \in {Null, Start}
  /\ lv[CacheHeader] = Null => \A id \in Id: lv[id] = Null

LEMMA ClientsMalloc ==
  ASSUME NEW h, NEW B, NEW dat \in [Offset -> Id], NEW lv \in [Id -> Offset], NEW nd \in [Id -> Nat],
         Clients(h, B, dat, lv, nd), Null \notin B, B \subseteq Offset,
         NEW id \in Id, NEW n \in Nat \ {0}, lv[id] = Null, lv[CacheHeader] = Null <=> id = CacheHeader,
         NEW k, NEW B2, NEW c \in Offset, c \notin UsedIn(h, B), c # Null, id = CacheHeader => c = Start,
         UsedIn(k, B2) = UsedIn(h, B) \cup {c}, Untouched(h, k, UsedIn(h, B)),
         k[c].fprev = BlockSize + n, k[c].fprev <= k[c].size
  PROVE  Clients(k, B2, [dat EXCEPT ![c] = id], [lv EXCEPT ![id] = c], [nd EXCEPT ![id] = n])
<1> DEFINE D == [dat EXCEPT ![c] = id]
           V == [lv EXCEPT ![id] = c]
           W == [nd EXCEPT ![id] = n]
           U == UsedIn(h, B)
<1>1. /\ \A o \in Offset: D[o] = IF o = c THEN id ELSE dat[o]
      /\ \A i \in Id: V[i] = IF i = id THEN c ELSE lv[i]
      /\ \A i \in Id: W[i] = IF i = id THEN n ELSE nd[i]
  OBVIOUS
<1> HIDE DEF D, V, W
<1>2. ASSUME NEW i \in Id, V[i] # Null
      PROVE  /\ V[i] \in UsedIn(k, B2) /\ D[V[i]] = i /\ W[i] # 0
             /\ k[V[i]].fprev = BlockSize + W[i] /\ k[V[i]].fprev <= k[V[i]].size
  <2>1. CASE i = id
    BY <2>1, <1>1
  <2>2. CASE i # id
    <3>1. V[i] = lv[i] /\ W[i] = nd[i]
      BY <2>2, <1>1
    <3>2. /\ lv[i] \in U /\ dat[lv[i]] = i /\ nd[i] # 0
          /\ h[lv[i]].fprev = BlockSize + nd[i] /\ h[lv[i]].fprev <= h[lv[i]].size
      BY <3>1, <1>2 DEF Clients
    <3>3. lv[i] # c /\ D[lv[i]] = dat[lv[i]]
      BY <3>2, <1>1
    <3>4. k[lv[i]].size = h[lv[i]].size /\ k[lv[i]].fprev = h[lv[i]].fprev
      BY <3>2 DEF Untouched
    <3> QED BY <3>1, <3>2, <3>3, <3>4
  <2> QED BY <2>1, <2>2
<1>3. ASSUME NEW b \in UsedIn(k, B2) PROVE V[D[b]] = b
  <2>1. CASE b = c
    BY <2>1, <1>1
  <2>2. CASE b # c
    <3>1. b \in U /\ lv[dat[b]] = b /\ b # Null
      BY <2>2 DEF Clients, UsedIn
    <3>2. D[b] = dat[b] /\ dat[b] \in Id
      <4>1. b \in Offset
        BY <3>1 DEF UsedIn
      <4> QED BY <4>1, <2>2, <1>1
    <3>3. dat[b] # id
      BY <3>1
    <3> QED BY <3>1, <3>2, <3>3, <1>1
  <2> QED BY <2>1, <2>2
<1>4. V[CacheHeader] \in {Null, Start} /\ V[CacheHeader] # Null
  <2>1. CacheHeader \in Id /\ lv[CacheHeader] \in {Null, Start}
    BY SegmentAssumption DEF Clients
  <2> QED BY <2>1, <1>1
<1>5. Clients(k, B2, D, V, W)
  BY <1>2, <1>3, <1>4 DEF Clients
<1> QED BY <1>5 DEF D, V, W

LEMMA ClientsSame ==
  ASSUME NEW h, NEW B, NEW dat, NEW lv, NEW nd, Clients(h, B, dat, lv, nd),
         NEW k, NEW B2, UsedIn(k, B2) = UsedIn(h, B), Untouched(h, k, UsedIn(h, B))
  PROVE  Clients(k, B2, dat, lv, nd)
BY DEF Clients, Untouched

LEMMA ClientsFree ==
  ASSUME NEW h, NEW B, NEW dat \in [Offset -> Id], NEW lv \in [Id -> Offset], NEW nd \in [Id -> Nat],
         Clients(h, B, dat, lv, nd), B \subseteq Offset,
         NEW id \in Id, lv[id] # Null, id # CacheHeader, NEW c, c = lv[id],
         NEW k, NEW B2, UsedIn(k, B2) = UsedIn(h, B) \ {c}, Untouched(h, k, UsedIn(h, B) \ {c})
  PROVE  Clients(k, B2, [dat EXCEPT ![c] = CacheHeader], [lv EXCEPT ![id] = Null], [nd EXCEPT ![id] = 0])
<1> DEFINE D == [dat EXCEPT ![c] = CacheHeader]
           V == [lv EXCEPT ![id] = Null]
           W == [nd EXCEPT ![id] = 0]
           U == UsedIn(h, B)
<1>1. /\ \A o \in Offset: D[o] = IF o = c THEN CacheHeader ELSE dat[o]
      /\ \A i \in Id: V[i] = IF i = id THEN Null ELSE lv[i]
      /\ \A i \in Id: W[i] = IF i = id THEN 0 ELSE nd[i]
  OBVIOUS
<1>0. c \in Offset /\ dat[c] = id /\ CacheHeader \in Id
  BY SegmentAssumption DEF Clients
<1> HIDE DEF D, V, W
<1>2. ASSUME NEW i \in Id, V[i] # Null
      PROVE  /\ V[i] \in UsedIn(k, B2) /\ D[V[i]] = i /\ W[i] # 0
             /\ k[V[i]].fprev = BlockSize + W[i] /\ k[V[i]].fprev <= k[V[i]].size
  <2>1. i # id /\ V[i] = lv[i] /\ W[i] = nd[i]
    BY <1>1, <1>2
  <2>2. /\ lv[i] \in U /\ dat[lv[i]] = i /\ nd[i] # 0
        /\ h[lv[i]].fprev = BlockSize + nd[i] /\ h[lv[i]].fprev <= h[lv[i]].size
    BY <2>1, <1>2 DEF Clients
  <2>3. lv[i] # c /\ D[lv[i]] = dat[lv[i]]
    BY <2>1, <2>2, <1>0, <1>1
  <2>4. k[lv[i]].size = h[lv[i]].size /\ k[lv[i]].fprev = h[lv[i]].fprev
    BY <2>2, <2>3 DEF Untouched
  <2> QED BY <2>1, <2>2, <2>3, <2>4
<1>3. ASSUME NEW b \in UsedIn(k, B2) PROVE V[D[b]] = b
  <2>1. b \in U /\ b # c /\ lv[dat[b]] = b /\ b \in Offset
    BY DEF Clients, UsedIn
  <2>2. D[b] = dat[b] /\ dat[b] \in Id /\ dat[b] # id
    BY <2>1, <1>1
  <2> QED BY <2>1, <2>2, <1>1
<1>4. V[CacheHeader] = lv[CacheHeader] /\ lv[CacheHeader] \in {Null, Start} /\ lv[CacheHeader] # Null
  BY <1>0, <1>1 DEF Clients
<1>5. Clients(k, B2, D, V, W)
  BY <1>2, <1>3, <1>4 DEF Clients
<1> QED BY <1>5 DEF D, V, W

LEMMA ClientsMove ==
  ASSUME NEW h, NEW B, NEW dat \in [Offset -> Id], NEW lv \in [Id -> Offset], NEW nd \in [Id -> Nat],
         Clients(h, B, dat, lv, nd), B \subseteq Offset, Null \notin B, h \in [Offset -> Header],
         NEW n \in UsedIn(h, B), n # Start, NEW b \in B, b \notin UsedIn(h, B),
         NEW k, NEW B2, UsedIn(k, B2) = (UsedIn(h, B) \ {n}) \cup {b}, Untouched(h, k, UsedIn(h, B) \ {n}),
         k[b].size = h[n].fprev, k[b].fprev = h[n].fprev
  PROVE  /\ Clients(k, B2, [dat EXCEPT ![n] = CacheHeader, ![b] = dat[n]], [lv EXCEPT ![dat[n]] = b], nd)
         /\ dat[n] # CacheHeader
<1> DEFINE id == dat[n]
           D == [dat EXCEPT ![n] = CacheHeader, ![b] = id]
           V == [lv EXCEPT ![id] = b]
           U == UsedIn(h, B)
<1>0. /\ n \in Offset /\ b \in Offset /\ b # n /\ id \in Id /\ lv[id] = n /\ b # Null /\ n # Null
      /\ CacheHeader \in Id /\ lv[CacheHeader] \in {Null, Start}
  BY SegmentAssumption DEF Clients, UsedIn
<1>1. /\ \A o \in Offset \ {n}: D[o] = IF o = b THEN id ELSE dat[o]
      /\ \A i \in Id: V[i] = IF i = id THEN b ELSE lv[i]
  BY <1>0
<1>2. /\ \A i \in Id: lv[i] # Null =>
           /\ lv[i] \in U /\ dat[lv[i]] = i /\ nd[i] # 0
           /\ h[lv[i]].fprev = BlockSize + nd[i] /\ h[lv[i]].fprev <= h[lv[i]].size
  BY DEF Clients
<1>3. id # CacheHeader
  BY <1>0
<1>4. h[n].fprev = BlockSize + nd[id] /\ nd[id] # 0 /\ h[n].fprev \in Nat
  <2>1. h[n].fprev = BlockSize + nd[id] /\ nd[id] # 0
    BY <1>0, <1>2
  <2>2. h[n].fprev \in Nat
    BY <1>0, FieldTypes
  <2> QED BY <2>1, <2>2
<1> HIDE DEF D, V, id
<1>5. ASSUME NEW i \in Id, V[i] # Null
      PROVE  /\ V[i] \in UsedIn(k, B2) /\ D[V[i]] = i /\ nd[i] # 0
             /\ k[V[i]].fprev = BlockSize + nd[i] /\ k[V[i]].fprev <= k[V[i]].size
  <2>1. CASE i = id
    <3>1. V[i] = b /\ D[b] = id /\ b \in UsedIn(k, B2)
      BY <2>1, <1>0, <1>1
    <3>2. k[b].fprev <= k[b].size
      BY <1>4
    <3> QED BY <3>1, <3>2, <2>1, <1>4
  <2>2. CASE i # id
    <3>1. V[i] = lv[i]
      BY <2>2, <1>1
    <3>2. /\ lv[i] \in U /\ dat[lv[i]] = i /\ nd[i] # 0
          /\ h[lv[i]].fprev = BlockSize + nd[i] /\ h[lv[i]].fprev <= h[lv[i]].size
      BY <3>1, <1>2, <1>5
    <3>3. lv[i] # n
      BY <3>2, <2>2 DEF id
    <3>4. D[lv[i]] = i
      <4>1. lv[i] # b /\ lv[i] \in Offset
        BY <3>2
      <4> QED BY <4>1, <3>2, <3>3, <1>1
    <3>5. k[lv[i]].size = h[lv[i]].size /\ k[lv[i]].fprev = h[lv[i]].fprev
      BY <3>2, <3>3 DEF Untouched
    <3> QED BY <3>1, <3>2, <3>3, <3>4, <3>5
  <2> QED BY <2>1, <2>2
<1>6. ASSUME NEW o \in UsedIn(k, B2) PROVE V[D[o]] = o
  <2>1. CASE o = b
    BY <2>1, <1>0, <1>1
  <2>2. CASE o # b
    <3>1. o \in U /\ o # n /\ lv[dat[o]] = o /\ o \in Offset
      BY <2>2 DEF Clients, UsedIn
    <3>2. D[o] = dat[o] /\ dat[o] \in Id /\ dat[o] # id
      BY <2>2, <3>1, <1>0, <1>1
    <3> QED BY <3>1, <3>2, <1>1
  <2> QED BY <2>1, <2>2
<1>7. V[CacheHeader] = lv[CacheHeader] /\ (lv[CacheHeader] = Null => \A i \in Id: lv[i] = Null)
  BY <1>0, <1>1, <1>3 DEF Clients
<1>8. lv[CacheHeader] # Null
  BY <1>0, <1>7
<1>9. Clients(k, B2, D, V, nd)
  BY <1>0, <1>5, <1>6, <1>7, <1>8 DEF Clients
<1> QED BY <1>3, <1>9 DEF D, V, id

\* While nothing is allocated the segment is one free block.
LEMMA AllFree ==
  ASSUME NEW h, NEW B, Tiling(h, B), Tagged(h, B, Null), UsedIn(h, B) = {}, NEW c \in FreeIn(h, B)
  PROVE  c = Start
<1>1. \A b \in B \ {Last}: b \in FreeIn(h, B) /\ NextBlock(h, b) \in B /\ NextBlock(h, b) \notin FreeIn(h, B)
  <2> TAKE b \in B \ {Last}
  <2>1. b \in FreeIn(h, B)
    BY DEF FreeIn, UsedIn
  <2>2. NextBlock(h, b) \notin FreeIn(h, B)
    BY <2>1 DEF Tagged
  <2> QED BY <2>1, <2>2, TilingTypes
<1>2. Start \in B \ {Last} /\ c \in B \ {Last}
  BY Layout DEF Tiling, FreeIn
<1>3. NextBlock(h, Start) = Last
  BY <1>1, <1>2
<1>4. c <= Start \/ Last <= c
  BY <1>2, <1>3, NextApart
<1>5. c \in Nat /\ Start <= c /\ c < Last
  BY <1>2, TilingTypes
<1> QED BY <1>4, <1>5, Layout

-----------------------------------------------------------------------------
(* The inductive invariant *)

SmaTypes ==
  /\ data \in [Offset -> Id] /\ live \in [Id -> Offset] /\ need \in [Id -> Nat]
  /\ pinned \in SUBSET Id /\ kept \in SUBSET Id
  /\ avail \in Nat /\ reclaimed \in Nat /\ cur \in Offset

\* The segment is in order; the list holds the free blocks, those already passed while a
\* defragmentation runs.
HeapAt(B) == Heap(hdr, B, cur, IF cur = Null THEN FreeIn(hdr, B) ELSE PassedIn(hdr, B, cur))

\* avail and what a defragmentation has found are the free space.
SumAt(B) == avail + reclaimed = Total(hdr, FreeIn(hdr, B))

\* What a defragmentation has passed is in front of the end or of a block that was
\* pinned when it started.
PinnedBehind(h, B, dat, kp, c) ==
  \A b \in PassedIn(h, B, c):
    NextBlock(h, b) = Last \/ (NextBlock(h, b) \in UsedIn(h, B) /\ dat[NextBlock(h, b)] \in kp)

SweepAt(B) ==
  /\ cur = Null => reclaimed = 0
  /\ cur # Null => /\ cur \in B /\ live[CacheHeader] # Null /\ pinned \subseteq kept
                   /\ PinnedBehind(hdr, B, data, kept, cur)

BlocksInv(B) == HeapAt(B) /\ SumAt(B) /\ Clients(hdr, B, data, live, need) /\ SweepAt(B)

SmaInv == SmaTypes /\ \E B \in SUBSET Offset: BlocksInv(B)

LEMMA MallocStep ==
  ASSUME SmaInv, NEW id \in Id, NEW n \in Requests, Malloc(id, n)
  PROVE  SmaInv'
<1> DEFINE c == FindBlock(hdr, RealSize(n))
           real == RealSize(n)
           k == Allocated(hdr, c, real)
<1>1. PICK B \in SUBSET Offset: BlocksInv(B)
  BY DEF SmaInv
<1>2. SmaTypes
  BY DEF SmaInv
<1>3. /\ cur = Null /\ live[id] = Null /\ (live[CacheHeader] = Null <=> id = CacheHeader)
      /\ c # Null /\ hdr' = k /\ avail' = avail - hdr'[c].size
      /\ data' = [data EXCEPT ![c] = id] /\ live' = [live EXCEPT ![id] = c]
      /\ need' = [need EXCEPT ![id] = n] /\ pinned' = pinned \cup ({id} \ {CacheHeader})
      /\ cur' = cur /\ reclaimed' = reclaimed /\ kept' = kept
  BY DEF Malloc, Idle
<1>4. n \in Nat \ {0} /\ real = n + BlockSize /\ real \in Nat /\ real > BlockSize /\ n \in Nat
  BY SegmentAssumption DEF RealSize
<1> HIDE DEF c, real
<1>5. /\ Heap(hdr, B, Null, FreeIn(hdr, B)) /\ Clients(hdr, B, data, live, need)
      /\ avail = Total(hdr, FreeIn(hdr, B)) /\ reclaimed = 0
  <2>1. Heap(hdr, B, Null, FreeIn(hdr, B)) /\ Clients(hdr, B, data, live, need) /\ reclaimed = 0
    BY <1>1, <1>3 DEF BlocksInv, HeapAt, SweepAt
  <2>2. avail + reclaimed = Total(hdr, FreeIn(hdr, B)) /\ avail \in Nat
    BY <1>1, <1>2 DEF BlocksInv, SumAt, SmaTypes
  <2> QED BY <2>1, <2>2
<1>6. /\ Tiling(hdr, B) /\ Grounded(hdr) /\ Listed(hdr, FreeIn(hdr, B)) /\ Tagged(hdr, B, Null)
      /\ FreeIn(hdr, B) \subseteq Start..(Last - 1) /\ Null \notin B /\ B \subseteq Offset
  <2>1. Tiling(hdr, B) /\ Grounded(hdr) /\ Listed(hdr, FreeIn(hdr, B)) /\ Tagged(hdr, B, Null)
    BY <1>5 DEF Heap
  <2> QED BY <2>1, HeapSets
<1>7. c \in FreeIn(hdr, B) /\ hdr[c].size >= real
  BY <1>3, <1>4, <1>6, FindBlockFinds DEF c, real
<1>8. c \in Offset /\ c \notin UsedIn(hdr, B)
  BY <1>6, <1>7, HeapSets DEF FreeIn, UsedIn
<1>9. PICK B2 \in SUBSET Offset: AllocResult(hdr, B, c, real, k, B2)
  <2>1. AllocResultSome(hdr, B, c, real, k)
    BY <1>4, <1>5, <1>7, AllocateKeeps
  <2> HIDE DEF k
  <2> QED BY <2>1 DEF AllocResultSome
<1> HIDE DEF k
<1>10. /\ Heap(k, B2, Null, FreeIn(k, B2))
       /\ UsedIn(k, B2) = UsedIn(hdr, B) \cup {c} /\ Untouched(hdr, k, UsedIn(hdr, B))
       /\ k[c].fprev = real /\ k[c].size >= real
       /\ Total(k, FreeIn(k, B2)) + k[c].size = Total(hdr, FreeIn(hdr, B))
  BY <1>9 DEF AllocResult
<1>11. Tiling(k, B2) /\ k \in [Offset -> Header] /\ B2 \subseteq Offset /\ FreeIn(k, B2) \in SUBSET Offset
  <2>1. Tiling(k, B2)
    BY <1>10 DEF Heap
  <2> QED BY <2>1, HeapSets
<1>12. k[c].size \in Nat /\ Total(k, FreeIn(k, B2)) \in Nat
  BY <1>8, <1>11, FieldTypes, TotalTakes
<1>13. avail' = Total(k, FreeIn(k, B2)) /\ avail' \in Nat
  BY <1>3, <1>5, <1>10, <1>12
<1>14. id = CacheHeader => c = Start
  <2> SUFFICES ASSUME id = CacheHeader PROVE c = Start
    OBVIOUS
  <2>1. \A i \in Id: live[i] = Null
    BY <1>3, <1>5 DEF Clients
  <2>2. UsedIn(hdr, B) = {}
    <3> SUFFICES ASSUME NEW b \in UsedIn(hdr, B) PROVE FALSE
      OBVIOUS
    <3>1. live[data[b]] = b /\ b \in B /\ b \in Offset
      BY <1>5, <1>6 DEF Clients, UsedIn
    <3>2. data[b] \in Id
      BY <3>1, <1>2 DEF SmaTypes
    <3> QED BY <3>1, <3>2, <2>1, <1>6
  <2> QED BY <2>2, <1>6, <1>7, AllFree
<1>15. Clients(k, B2, data', live', need')
  <2>1. k[c].fprev = BlockSize + n /\ k[c].fprev <= k[c].size
    BY <1>4, <1>10, <1>12, Layout
  <2> QED BY <2>1, <1>2, <1>3, <1>4, <1>5, <1>6, <1>8, <1>10, <1>14, ClientsMalloc DEF SmaTypes
<1>16. SmaTypes'
  BY <1>2, <1>3, <1>4, <1>8, <1>13 DEF SmaTypes
<1>17. BlocksInv(B2)'
  <2>1. cur' = Null /\ reclaimed' = 0
    BY <1>3, <1>5
  <2>2. HeapAt(B2)' /\ SweepAt(B2)'
    BY <2>1, <1>3, <1>10 DEF HeapAt, SweepAt
  <2>3. SumAt(B2)'
    BY <2>1, <1>3, <1>12, <1>13 DEF SumAt
  <2> QED BY <2>2, <2>3, <1>3, <1>15 DEF BlocksInv
<1> QED BY <1>16, <1>17 DEF SmaInv

LEMMA FreeStep ==
  ASSUME SmaInv, NEW id \in Id, FreeBlock(id)
  PROVE  SmaInv'
<1> DEFINE c == live[id]
           k == Deallocated(hdr, c)
<1>1. PICK B \in SUBSET Offset: BlocksInv(B)
  BY DEF SmaInv
<1>2. SmaTypes
  BY DEF SmaInv
<1>3. /\ cur = Null /\ c # Null /\ id # CacheHeader /\ hdr' = k /\ avail' = avail + hdr[c].size
      /\ data' = [data EXCEPT ![c] = CacheHeader] /\ live' = [live EXCEPT ![id] = Null]
      /\ need' = [need EXCEPT ![id] = 0] /\ pinned' = pinned \ {id}
      /\ cur' = cur /\ reclaimed' = reclaimed /\ kept' = kept
  BY DEF FreeBlock, Idle
<1>4. /\ Heap(hdr, B, Null, FreeIn(hdr, B)) /\ Clients(hdr, B, data, live, need)
      /\ avail = Total(hdr, FreeIn(hdr, B)) /\ reclaimed = 0
  <2>1. Heap(hdr, B, Null, FreeIn(hdr, B)) /\ Clients(hdr, B, data, live, need) /\ reclaimed = 0
    BY <1>1, <1>3 DEF BlocksInv, HeapAt, SweepAt
  <2>2. avail + reclaimed = Total(hdr, FreeIn(hdr, B)) /\ avail \in Nat
    BY <1>1, <1>2 DEF BlocksInv, SumAt, SmaTypes
  <2> QED BY <2>1, <2>2
<1>5. Tiling(hdr, B) /\ B \subseteq Offset /\ hdr \in [Offset -> Header]
  <2>1. Tiling(hdr, B)
    BY <1>4 DEF Heap
  <2> QED BY <2>1, HeapSets
<1>6. c \in UsedIn(hdr, B) /\ c \in Offset
  BY <1>3, <1>4, <1>2 DEF Clients, SmaTypes
<1>0. c = live[id]
  OBVIOUS
<1> HIDE DEF c
<1>7. PICK B2 \in SUBSET Offset: FreeResult(hdr, B, c, k, B2)
  <2>1. FreeResultSome(hdr, B, c, k)
    BY <1>4, <1>6, DeallocateKeeps
  <2> HIDE DEF k
  <2> QED BY <2>1 DEF FreeResultSome
<1> HIDE DEF k
<1>8. /\ Heap(k, B2, Null, FreeIn(k, B2))
      /\ UsedIn(k, B2) = UsedIn(hdr, B) \ {c} /\ Untouched(hdr, k, UsedIn(hdr, B) \ {c})
      /\ Total(k, FreeIn(k, B2)) = Total(hdr, FreeIn(hdr, B) \ {c}) + hdr[c].size
  BY <1>7 DEF FreeResult
<1>9. FreeIn(hdr, B) \ {c} = FreeIn(hdr, B)
  BY <1>6 DEF FreeIn, UsedIn
<1>10. avail' = Total(k, FreeIn(k, B2)) /\ avail' \in Nat
  <2> DEFINE x == Total(hdr, FreeIn(hdr, B))
             y == Total(k, FreeIn(k, B2))
             s == hdr[c].size
  <2>1. s \in Nat
    BY <1>5, <1>6, FieldTypes
  <2>2. y = x + s
    BY <1>8, <1>9
  <2>3. avail = x /\ avail \in Nat
    BY <1>2, <1>4 DEF SmaTypes
  <2>4. avail' = avail + s
    BY <1>3
  <2> HIDE DEF x, y, s
  <2>5. avail' = y /\ avail' \in Nat
    BY <2>1, <2>2, <2>3, <2>4
  <2> QED BY <2>5 DEF y
<1>11. Clients(k, B2, data', live', need')
  BY <1>0, <1>2, <1>3, <1>4, <1>5, <1>8, ClientsFree DEF SmaTypes
<1>12. SmaTypes'
  BY <1>2, <1>3, <1>6, <1>10, Layout, SegmentAssumption DEF SmaTypes
<1>13. BlocksInv(B2)'
  <2>1. cur' = Null /\ reclaimed' = 0
    BY <1>3, <1>4
  <2>2. HeapAt(B2)' /\ SweepAt(B2)'
    BY <2>1, <1>3, <1>8 DEF HeapAt, SweepAt
  <2>3. SumAt(B2)'
    BY <2>1, <1>3, <1>10 DEF SumAt
  <2> QED BY <2>2, <2>3, <1>3, <1>11 DEF BlocksInv
<1> QED BY <1>12, <1>13 DEF SmaInv

\* What holds in the middle of a defragmentation.
LEMMA InSweep ==
  ASSUME SmaTypes, cur # Null, NEW B \in SUBSET Offset, BlocksInv(B)
  PROVE  /\ Heap(hdr, B, cur, PassedIn(hdr, B, cur)) /\ Tiling(hdr, B) /\ Grounded(hdr) /\ Tagged(hdr, B, cur)
         /\ hdr \in [Offset -> Header] /\ Null \notin B
         /\ cur \in B /\ live[CacheHeader] # Null /\ pinned \subseteq kept /\ PinnedBehind(hdr, B, data, kept, cur)
         /\ Clients(hdr, B, data, live, need)
         /\ avail + reclaimed = Total(hdr, FreeIn(hdr, B)) /\ avail \in Nat /\ reclaimed \in Nat
         /\ hdr[cur].size = 0 <=> cur = Last
<1>1. Heap(hdr, B, cur, PassedIn(hdr, B, cur)) /\ Clients(hdr, B, data, live, need)
  BY DEF BlocksInv, HeapAt
<1>2. /\ cur \in B /\ live[CacheHeader] # Null /\ pinned \subseteq kept
      /\ PinnedBehind(hdr, B, data, kept, cur)
  BY DEF BlocksInv, SweepAt
<1>3. Tiling(hdr, B) /\ Grounded(hdr) /\ Tagged(hdr, B, cur)
  BY <1>1 DEF Heap
<1>4. hdr \in [Offset -> Header] /\ Null \notin B
  BY <1>3, HeapSets
<1>5. hdr[cur].size = 0 <=> cur = Last
  <2>1. cur # Last => hdr[cur].size > 0
    BY <1>2, <1>3, TilingTypes
  <2>2. hdr[cur].size \in Nat
    BY <1>2, <1>3, TilingTypes
  <2>3. hdr[Last].size = 0
    BY <1>3 DEF Tiling
  <2> QED BY <2>1, <2>2, <2>3
<1>6. avail + reclaimed = Total(hdr, FreeIn(hdr, B)) /\ avail \in Nat /\ reclaimed \in Nat
  BY DEF BlocksInv, SumAt, SmaTypes
<1> QED BY <1>1, <1>2, <1>3, <1>4, <1>5, <1>6

\* A step of the sweep that changes no block keeps the invariant if it passes no block
\* that is neither at the end nor in front of a pinned one.
LEMMA PassStep ==
  ASSUME SmaTypes, NEW B \in SUBSET Offset, Clients(hdr, B, data, live, need), SumAt(B), Tiling(hdr, B),
         NEW c \in B, c = cur', PassResult(hdr, B, hdr', c), live[CacheHeader] # Null, pinned \subseteq kept',
         PinnedBehind(hdr', B, data, kept', c),
         reclaimed' = reclaimed, UNCHANGED <<avail, data, client>>, kept' \in SUBSET Id
  PROVE  SmaInv'
<1>1. /\ Heap(hdr', B, c, PassedIn(hdr', B, c)) /\ UsedIn(hdr', B) = UsedIn(hdr, B)
      /\ Untouched(hdr, hdr', UsedIn(hdr, B)) /\ Total(hdr', FreeIn(hdr', B)) = Total(hdr, FreeIn(hdr, B))
  BY DEF PassResult
<1>2. c # Null /\ c \in Offset
  BY HeapSets
<1>3. Clients(hdr', B, data, live, need)
  BY <1>1, ClientsSame
<1>4. HeapAt(B)' /\ SweepAt(B)'
  BY <1>1, <1>2 DEF HeapAt, SweepAt, client
<1>5. SumAt(B)'
  BY <1>1 DEF SumAt
<1>6. SmaTypes'
  BY <1>2 DEF SmaTypes, client
<1>7. BlocksInv(B)'
  BY <1>3, <1>4, <1>5 DEF BlocksInv, client
<1> QED BY <1>6, <1>7 DEF SmaInv

LEMMA DefragStartStep ==
  ASSUME SmaInv, DefragStart
  PROVE  SmaInv'
<1>1. PICK B \in SUBSET Offset: BlocksInv(B)
  BY DEF SmaInv
<1>2. SmaTypes
  BY DEF SmaInv
<1>3. /\ cur = Null /\ live[CacheHeader] # Null /\ hdr' = Emptied(hdr) /\ cur' = Start
      /\ reclaimed' = 0 /\ kept' = pinned /\ UNCHANGED <<avail, data, client>>
  BY DEF DefragStart, Idle, Emptied
<1>4. /\ Heap(hdr, B, Null, FreeIn(hdr, B)) /\ Clients(hdr, B, data, live, need)
      /\ SumAt(B) /\ reclaimed = 0
  BY <1>1, <1>3 DEF BlocksInv, HeapAt, SweepAt
<1>5. PassResult(hdr, B, hdr', Start)
  BY <1>3, <1>4, EmptiedKeeps
<1>6. Tiling(hdr, B) /\ Start \in B
  BY <1>4 DEF Heap, Tiling
<1>7. PassedIn(hdr', B, Start) = {}
  <2>1. \A o \in FreeIn(hdr', B): o \in B
    BY DEF FreeIn
  <2>2. \A o \in B: o \in Nat /\ Start <= o
    BY <1>6, TilingTypes
  <2>3. ASSUME NEW o \in FreeIn(hdr', B) PROVE ~(o < Start)
    <3>1. o \in Nat /\ Start <= o /\ Start \in Nat
      BY <2>1, <2>2, Layout
    <3> QED BY <3>1
  <2> QED BY <2>3 DEF PassedIn
<1>8. PinnedBehind(hdr', B, data, kept', Start)
  BY <1>7 DEF PinnedBehind
<1> QED BY <1>2, <1>3, <1>4, <1>5, <1>6, <1>8, PassStep DEF SmaTypes

LEMMA DefragSkipStep ==
  ASSUME SmaInv, DefragSkip
  PROVE  SmaInv'
<1>1. PICK B \in SUBSET Offset: BlocksInv(B)
  BY DEF SmaInv
<1>2. SmaTypes
  BY DEF SmaInv
<1>3. /\ cur # Null /\ hdr[cur].size # 0 /\ hdr[cur].fnext = Null /\ cur' = NextBlock(hdr, cur)
      /\ UNCHANGED <<hdr, avail, data, client, reclaimed, kept>>
  BY DEF DefragSkip, Defragmenting, Idle, Null
<1>4. /\ Heap(hdr, B, cur, PassedIn(hdr, B, cur)) /\ Tiling(hdr, B) /\ cur \in B \ {Last}
      /\ live[CacheHeader] # Null /\ pinned \subseteq kept /\ PinnedBehind(hdr, B, data, kept, cur)
      /\ Clients(hdr, B, data, live, need)
  BY <1>1, <1>2, <1>3, InSweep
<1>5. cur \in UsedIn(hdr, B) /\ cur \notin FreeIn(hdr, B) /\ cur' \in B
  BY <1>3, <1>4, TilingTypes DEF UsedIn, FreeIn
<1>6. PassResult(hdr, B, hdr', cur')
  BY <1>3, <1>4, <1>5, SkipKeeps
<1>7. PassedIn(hdr, B, cur') = PassedIn(hdr, B, cur)
  BY <1>3, <1>4, <1>5, PassedGrows
<1>8. PinnedBehind(hdr', B, data, kept', cur')
  BY <1>3, <1>4, <1>7 DEF PinnedBehind
<1>9. SumAt(B)
  BY <1>1 DEF BlocksInv
<1> QED BY <1>2, <1>3, <1>4, <1>5, <1>6, <1>8, <1>9, PassStep DEF SmaTypes

LEMMA DefragStayStep ==
  ASSUME SmaInv, DefragStay
  PROVE  SmaInv'
<1> DEFINE n == NextBlock(hdr, cur)
<1>1. PICK B \in SUBSET Offset: BlocksInv(B)
  BY DEF SmaInv
<1>2. SmaTypes
  BY DEF SmaInv
<1>3. /\ cur # Null /\ hdr[cur].size # 0 /\ hdr[cur].fnext # Null /\ ~Moves(n)
      /\ hdr' = Stayed(hdr, cur) /\ cur' = NextBlock(hdr, n)
      /\ UNCHANGED <<avail, data, client, reclaimed, kept>>
  BY DEF DefragStay, Defragmenting, Idle, Null, Stayed
<1>4. /\ Heap(hdr, B, cur, PassedIn(hdr, B, cur)) /\ Tiling(hdr, B) /\ Tagged(hdr, B, cur) /\ cur \in B \ {Last}
      /\ live[CacheHeader] # Null /\ pinned \subseteq kept /\ PinnedBehind(hdr, B, data, kept, cur)
      /\ Clients(hdr, B, data, live, need)
  BY <1>1, <1>2, <1>3, InSweep
<1>5. cur \in FreeIn(hdr, B) /\ n \in B /\ cur' \in B
  BY <1>3, <1>4, TilingTypes DEF FreeIn
<1>6. n \notin FreeIn(hdr, B)
  BY <1>4, <1>5 DEF Tagged
<1>7. PassResult(hdr, B, hdr', cur')
  BY <1>3, <1>4, <1>5, StayedKeeps
<1>8. PassedIn(hdr, B, n) = PassedIn(hdr, B, cur) \cup {cur}
  <2>1. PassedIn(hdr, B, n) = PassedIn(hdr, B, cur) \cup ({cur} \cap FreeIn(hdr, B))
    BY <1>4, PassedGrows
  <2> QED BY <2>1, <1>5
<1>9. n = Last \/ (n \in UsedIn(hdr, B) /\ data[n] \in kept)
  <2> SUFFICES ASSUME n # Last PROVE n \in UsedIn(hdr, B) /\ data[n] \in kept
    OBVIOUS
  <2>1. n \in B \ {Last} /\ hdr[n].size # 0
    <3>1. hdr[n].size > 0 /\ hdr[n].size \in Nat
      BY <1>4, <1>5, TilingTypes
    <3> QED BY <3>1, <1>5
  <2>2. n \in UsedIn(hdr, B)
    BY <2>1, <1>4, <1>6, HeapSets
  <2> QED BY <2>1, <2>2, <1>3, <1>4 DEF Moves
<1>10. PassedIn(hdr, B, cur') = PassedIn(hdr, B, n)
  <2>1. CASE n = Last
    <3>1. hdr[Last].size = 0 /\ Last \in Nat
      BY <1>4, Layout DEF Tiling
    <3>2. cur' = n
      BY <3>1, <2>1, <1>3 DEF NextBlock
    <3> QED BY <3>2
  <2>2. CASE n # Last
    <3>1. PassedIn(hdr, B, cur') = PassedIn(hdr, B, n) \cup ({n} \cap FreeIn(hdr, B))
      BY <2>2, <1>3, <1>4, <1>5, PassedGrows
    <3> QED BY <3>1, <1>6
  <2> QED BY <2>1, <2>2
<1>11. /\ FreeIn(hdr', B) = FreeIn(hdr, B) /\ UsedIn(hdr', B) = UsedIn(hdr, B)
       /\ \A o \in B: NextBlock(hdr', o) = NextBlock(hdr, o)
  BY <1>7 DEF PassResult
<1>12. PassedIn(hdr', B, cur') = PassedIn(hdr, B, cur) \cup {cur} /\ PassedIn(hdr', B, cur') \subseteq B
  BY <1>8, <1>10, <1>11 DEF PassedIn, FreeIn
<1> HIDE DEF n
<1>13. PinnedBehind(hdr', B, data, kept', cur')
  <2>1. ASSUME NEW b \in PassedIn(hdr', B, cur')
        PROVE  NextBlock(hdr, b) = Last \/ (NextBlock(hdr, b) \in UsedIn(hdr, B) /\ data[NextBlock(hdr, b)] \in kept)
    BY <1>4, <1>9, <1>12 DEF PinnedBehind, n
  <2> QED BY <2>1, <1>3, <1>11, <1>12 DEF PinnedBehind
<1>14. SumAt(B)
  BY <1>1 DEF BlocksInv
<1> QED BY <1>2, <1>3, <1>4, <1>5, <1>7, <1>13, <1>14, PassStep DEF SmaTypes

\* The block behind the free block b moves: what has changed when the space behind it has
\* been made one block.
MoveResult(h, B, b, n, used, k, B2, c) ==
  /\ Heap(k, B2, c, PassedIn(k, B2, c)) /\ PassedIn(k, B2, c) = PassedIn(h, B, b) /\ c \in FreeIn(k, B2)
  /\ UsedIn(k, B2) = (UsedIn(h, B) \ {n}) \cup {b} /\ Untouched(h, k, UsedIn(h, B) \ {n})
  /\ k[b].size = used /\ k[b].fprev = used
  /\ Total(k, FreeIn(k, B2)) = Total(h, FreeIn(h, B)) + (h[n].size - used)
  /\ \A o \in PassedIn(h, B, b): NextBlock(k, o) = NextBlock(h, o)
MoveSome(h, B, b, n, used, k, c) == \E B2 \in SUBSET Offset: MoveResult(h, B, b, n, used, k, B2, c)

LEMMA MoveKeeps ==
  ASSUME NEW h, NEW B, NEW b, NEW n, NEW used, Heap(h, B, b, PassedIn(h, B, b)),
         Movable(h, B, b, n, used), n \in UsedIn(h, B)
  PROVE  MoveSome(h, B, b, n, used, Absorbed(Slid(h, b), b + used), b + used)
<1> DEFINE L == PassedIn(h, B, b)
           g == Slid(h, b)
           c == b + used
           C == (B \ {n}) \cup {c}
           k == Absorbed(g, c)
<1>1. L = {o \in FreeIn(h, B): o < b} /\ Heap(h, B, b, L)
  BY DEF PassedIn
<1> HIDE DEF L
<1>2. Sliding(g, C, c, L) /\ SlideKept(h, B, g, C, b, n, c, used, L)
  BY <1>1, SlidKeeps
<1> HIDE DEF g, C, c
<1>3. PICK B2 \in SUBSET Offset: AbsorbResult(g, C, k, B2, c, L)
  <2>1. AbsorbSome(g, C, k, c, L)
    BY <1>2, AbsorbedKeeps
  <2> HIDE DEF k
  <2> QED BY <2>1 DEF AbsorbSome
<1> HIDE DEF k
<1>4. /\ Heap(k, B2, c, L) /\ L = {o \in FreeIn(k, B2): o < c} /\ c \in FreeIn(k, B2)
      /\ UsedIn(k, B2) = UsedIn(g, C) /\ Untouched(g, k, UsedIn(g, C))
      /\ Total(k, FreeIn(k, B2)) = Total(g, FreeIn(g, C))
      /\ \A o \in L: NextBlock(k, o) = NextBlock(g, o)
  BY <1>3 DEF AbsorbResult
<1>5. /\ UsedIn(g, C) = (UsedIn(h, B) \ {n}) \cup {b}
      /\ Untouched(h, g, UsedIn(h, B) \ {n}) /\ g[b].size = used /\ g[b].fprev = used
      /\ Total(g, FreeIn(g, C)) = Total(h, FreeIn(h, B)) + (h[n].size - used)
      /\ \A o \in L: NextBlock(g, o) = NextBlock(h, o)
  BY <1>2 DEF SlideKept
<1>6. PassedIn(k, B2, c) = L
  BY <1>4 DEF PassedIn
<1>7. Heap(k, B2, c, PassedIn(k, B2, c))
  BY <1>4, <1>6
<1>8. Untouched(h, k, UsedIn(h, B) \ {n}) /\ k[b].size = used /\ k[b].fprev = used
  BY <1>4, <1>5 DEF Untouched
<1>9. MoveResult(h, B, b, n, used, k, B2, c)
  BY <1>4, <1>5, <1>6, <1>7, <1>8 DEF MoveResult, L
<1> QED BY <1>9 DEF MoveSome, k, g, c

LEMMA DefragMoveStep ==
  ASSUME SmaInv, DefragMove
  PROVE  SmaInv'
<1> DEFINE n == NextBlock(hdr, cur)
           used == hdr[n].fprev
           c == cur + used
           k == Absorbed(Slid(hdr, cur), c)
<1>1. PICK B \in SUBSET Offset: BlocksInv(B)
  BY DEF SmaInv
<1>2. SmaTypes
  BY DEF SmaInv
<1>3. /\ cur # Null /\ hdr[cur].size # 0 /\ hdr[cur].fnext # Null /\ Moves(n)
      /\ hdr' = k /\ cur' = c /\ reclaimed' = reclaimed + (hdr[n].size - used)
      /\ data' = [data EXCEPT ![n] = CacheHeader, ![cur] = data[n]]
      /\ live' = [live EXCEPT ![data[n]] = cur]
      /\ UNCHANGED <<avail, need, pinned, kept>>
  BY DEF DefragMove, Defragmenting, Idle, Null, Slid, Absorbed
<1>4. /\ Heap(hdr, B, cur, PassedIn(hdr, B, cur)) /\ Tiling(hdr, B) /\ Tagged(hdr, B, cur) /\ cur \in B \ {Last}
      /\ live[CacheHeader] # Null /\ pinned \subseteq kept /\ PinnedBehind(hdr, B, data, kept, cur)
      /\ Clients(hdr, B, data, live, need) /\ hdr \in [Offset -> Header] /\ Null \notin B
      /\ avail + reclaimed = Total(hdr, FreeIn(hdr, B)) /\ avail \in Nat /\ reclaimed \in Nat
  BY <1>1, <1>2, <1>3, InSweep
<1>5. cur \in FreeIn(hdr, B) /\ n \in B /\ cur \in B /\ cur \notin UsedIn(hdr, B)
  BY <1>3, <1>4, TilingTypes DEF FreeIn, UsedIn
<1>6. n # Last /\ n # Start /\ n \in Offset /\ hdr[n].size \in Nat /\ used \in Nat
  <2>1. n # Last
    BY <1>3, <1>4 DEF Moves, Tiling
  <2>2. cur \in Nat /\ Start <= cur /\ cur < n /\ n \in Nat
    BY <1>4, <1>5, TilingTypes
  <2>3. n # Start
    BY <2>2, Layout
  <2> QED BY <2>1, <2>3, <1>4, <1>5, FieldTypes
<1>7. n \in UsedIn(hdr, B)
  <2>1. n \notin FreeIn(hdr, B)
    BY <1>4, <1>5 DEF Tagged
  <2> QED BY <2>1, <1>4, <1>5, <1>6, HeapSets
<1>8. used > BlockSize /\ used <= hdr[n].size
  <2>1. live[data[n]] = n /\ data[n] \in Id /\ n # Null
    BY <1>2, <1>4, <1>5, <1>6, <1>7 DEF Clients, SmaTypes
  <2>2. used = BlockSize + need[data[n]] /\ need[data[n]] # 0 /\ used <= hdr[n].size
    BY <2>1, <1>4 DEF Clients
  <2>3. need[data[n]] \in Nat
    BY <2>1, <1>2 DEF SmaTypes
  <2> QED BY <2>2, <2>3, Layout
<1>9. Movable(hdr, B, cur, n, used)
  BY <1>5, <1>6, <1>8 DEF Movable
<1>10. PICK B2 \in SUBSET Offset: MoveResult(hdr, B, cur, n, used, k, B2, c)
  <2> HIDE DEF n, used
  <2>1. MoveSome(hdr, B, cur, n, used, k, c)
    BY <1>4, <1>7, <1>9, MoveKeeps
  <2> HIDE DEF k, c
  <2> QED BY <2>1 DEF MoveSome
<1> HIDE DEF k, c, n, used
<1>11. /\ Heap(k, B2, c, PassedIn(k, B2, c)) /\ PassedIn(k, B2, c) = PassedIn(hdr, B, cur) /\ c \in FreeIn(k, B2)
       /\ UsedIn(k, B2) = (UsedIn(hdr, B) \ {n}) \cup {cur} /\ Untouched(hdr, k, UsedIn(hdr, B) \ {n})
       /\ k[cur].size = used /\ k[cur].fprev = used
       /\ Total(k, FreeIn(k, B2)) = Total(hdr, FreeIn(hdr, B)) + (hdr[n].size - used)
       /\ \A o \in PassedIn(hdr, B, cur): NextBlock(k, o) = NextBlock(hdr, o)
  BY <1>10 DEF MoveResult
<1>12. c \in B2 /\ c \in Offset /\ c # Null
  <2>1. Tiling(k, B2)
    BY <1>11 DEF Heap
  <2>2. c \in B2
    BY <1>11 DEF FreeIn
  <2> QED BY <2>1, <2>2, HeapSets
<1>13. /\ Clients(k, B2, data', live', need) /\ data[n] # CacheHeader
  <2>1. k[cur].size = hdr[n].fprev /\ k[cur].fprev = hdr[n].fprev
    BY <1>11 DEF used
  <2> QED BY <2>1, <1>2, <1>3, <1>4, <1>5, <1>6, <1>7, <1>11, ClientsMove DEF SmaTypes
<1>14. PinnedBehind(k, B2, data', kept, c)
  <2> SUFFICES ASSUME NEW o \in PassedIn(hdr, B, cur)
               PROVE  \/ NextBlock(k, o) = Last
                      \/ NextBlock(k, o) \in UsedIn(k, B2) /\ data'[NextBlock(k, o)] \in kept
    BY <1>11 DEF PinnedBehind
  <2> DEFINE d == NextBlock(hdr, o)
  <2>1. NextBlock(k, o) = d
    BY <1>11
  <2>2. d = Last \/ (d \in UsedIn(hdr, B) /\ data[d] \in kept)
    BY <1>4 DEF PinnedBehind
  <2>3. CASE d # Last
    <3>1. o \in B \ {Last} /\ o # cur
      <4>1. o \in B \ {Last} /\ o < cur
        BY DEF PassedIn, FreeIn
      <4>2. cur \in Nat
        BY <1>4, TilingTypes
      <4> QED BY <4>1, <4>2
    <3>2. d # n
      <4> SUFFICES ASSUME d = n PROVE FALSE
        OBVIOUS
      <4>1. NextBlock(hdr, o) = NextBlock(hdr, cur)
        BY DEF n
      <4> QED BY <4>1, <3>1, <1>4, NextApart
    <3>3. d # cur /\ d \in UsedIn(hdr, B) /\ d \in Offset
      BY <2>2, <2>3, <1>4, <1>5, HeapSets
    <3>4. data'[d] = data[d]
      BY <3>2, <3>3, <1>2, <1>3 DEF SmaTypes
    <3>5. d \in UsedIn(k, B2)
      BY <3>2, <3>3, <1>11
    <3> QED BY <3>4, <3>5, <2>1, <2>2, <2>3
  <2> QED BY <2>1, <2>3
<1>15. SmaTypes' /\ SumAt(B2)'
  <2> DEFINE x == Total(hdr, FreeIn(hdr, B))
             y == Total(k, FreeIn(k, B2))
             s == hdr[n].size
  <2>1. avail + reclaimed = x /\ y = x + (s - used) /\ reclaimed' = reclaimed + (s - used) /\ s \in Nat
    BY <1>3, <1>4, <1>6, <1>11
  <2>2. used \in Nat /\ used <= s
    BY <1>6, <1>8
  <2> HIDE DEF x, y, s
  <2>3. reclaimed' \in Nat /\ avail + reclaimed' = y
    BY <2>1, <2>2, <1>4
  <2>4. SumAt(B2)'
    BY <2>3, <1>3 DEF SumAt, y
  <2>5. data' \in [Offset -> Id] /\ live' \in [Id -> Offset]
    BY <1>2, <1>3, <1>4, <1>5, <1>6, SegmentAssumption DEF SmaTypes
  <2> QED BY <2>3, <2>4, <2>5, <1>2, <1>3, <1>12 DEF SmaTypes
<1>16. HeapAt(B2)' /\ SweepAt(B2)'
  <2>1. live'[CacheHeader] # Null
    BY <1>13, <1>2, <1>3, <1>4, SegmentAssumption DEF SmaTypes
  <2> QED BY <2>1, <1>3, <1>4, <1>11, <1>12, <1>14 DEF HeapAt, SweepAt
<1>17. BlocksInv(B2)'
  BY <1>3, <1>13, <1>15, <1>16 DEF BlocksInv
<1> QED BY <1>15, <1>17 DEF SmaInv

LEMMA DefragEndStep ==
  ASSUME SmaInv, DefragEnd
  PROVE  SmaInv'
<1>1. PICK B \in SUBSET Offset: BlocksInv(B)
  BY DEF SmaInv
<1>2. SmaTypes
  BY DEF SmaInv
<1>3. /\ cur # Null /\ hdr[cur].size = 0 /\ avail' = avail + reclaimed /\ cur' = Null
      /\ reclaimed' = 0 /\ kept' = {} /\ UNCHANGED <<hdr, data, client>>
  BY DEF DefragEnd, Idle
<1>4. /\ Heap(hdr, B, Last, PassedIn(hdr, B, Last)) /\ Clients(hdr, B, data, live, need)
      /\ avail + reclaimed = Total(hdr, FreeIn(hdr, B)) /\ avail \in Nat /\ reclaimed \in Nat
  BY <1>1, <1>2, <1>3, InSweep
<1>5. Heap(hdr, B, Null, FreeIn(hdr, B))
  BY <1>4, EndKeeps
<1>6. HeapAt(B)' /\ SweepAt(B)'
  BY <1>3, <1>5 DEF HeapAt, SweepAt
<1>7. SumAt(B)' /\ avail' \in Nat /\ reclaimed' \in Nat
  BY <1>3, <1>4 DEF SumAt
<1>8. BlocksInv(B)'
  BY <1>3, <1>4, <1>6, <1>7 DEF BlocksInv, client
<1>9. SmaTypes'
  BY <1>2, <1>3, <1>7, Layout DEF SmaTypes, client
<1> QED BY <1>8, <1>9 DEF SmaInv

\* References change nothing but the set of pinned allocations.
LEMMA PinsStep ==
  ASSUME SmaInv, pinned' \in SUBSET Id, cur # Null => pinned' \subseteq pinned,
         UNCHANGED <<hdr, avail, data, live, need, cur, reclaimed, kept>>
  PROVE  SmaInv'
<1>1. PICK B \in SUBSET Offset: BlocksInv(B)
  BY DEF SmaInv
<1>2. HeapAt(B)' /\ SumAt(B)' /\ Clients(hdr, B, data, live, need)'
  BY <1>1 DEF BlocksInv, HeapAt, SumAt
<1>3. SweepAt(B)'
  BY <1>1 DEF BlocksInv, SweepAt
<1>4. BlocksInv(B)'
  BY <1>2, <1>3 DEF BlocksInv
<1>5. SmaTypes'
  BY DEF SmaInv, SmaTypes
<1> QED BY <1>4, <1>5 DEF SmaInv

\* A new segment is one free block.
LEMMA InitSma ==
  ASSUME Init
  PROVE  SmaInv
<1> DEFINE B == {Start, Last}
           size == Size - HeaderSize - 2 * BlockSize
           rk == [o \in Offset |-> IF o = First THEN 2 ELSE IF o = Start THEN 1 ELSE 0]
<1>1. /\ First \in Offset /\ Start \in Offset /\ Last \in Offset /\ First # Start /\ First # Last /\ Start # Last
      /\ First # Null /\ Start # Null /\ Last # Null /\ Null \in Offset
      /\ size \in Nat /\ size \in Offset /\ size > BlockSize /\ Start + size = Last /\ Start < Last
      /\ Start \in Nat /\ Last \in Nat /\ Null = 0
  BY SegmentAssumption DEF First, Start, Last, Offset, Null
<1>2. /\ avail = size
      /\ hdr = [o \in Offset |->
           CASE o = First -> [size |-> 0, prev_size |-> 0, fnext |-> Start, fprev |-> 0]
             [] o = Start -> [size |-> avail, prev_size |-> 0, fnext |-> Last, fprev |-> First]
             [] o = Last  -> [size |-> 0, prev_size |-> avail, fnext |-> 0, fprev |-> Start]
             [] OTHER     -> NoHeader]
      /\ cur = Null /\ reclaimed = 0 /\ kept = {} /\ pinned = {}
      /\ data = [o \in Offset |-> CacheHeader] /\ live = [id \in Id |-> Null] /\ need = [id \in Id |-> 0]
  BY DEF Init
<1> HIDE DEF size
<1>3. /\ hdr[First] = [size |-> 0, prev_size |-> 0, fnext |-> Start, fprev |-> 0]
      /\ hdr[Start] = [size |-> size, prev_size |-> 0, fnext |-> Last, fprev |-> First]
      /\ hdr[Last] = [size |-> 0, prev_size |-> size, fnext |-> 0, fprev |-> Start]
      /\ \A o \in Offset: o \notin {First, Start, Last} => hdr[o] = NoHeader
  BY <1>1, <1>2
<1>4. hdr \in [Offset -> Header]
  <2>1. \A o \in Offset: hdr[o] \in Header
    BY <1>1, <1>3 DEF Header, NoHeader
  <2>2. hdr = [o \in Offset |-> hdr[o]]
    BY <1>2
  <2> QED BY <2>1, <2>2
<1>5. NextBlock(hdr, Start) = Last /\ NextBlock(hdr, Last) = Last
  BY <1>1, <1>3 DEF NextBlock
<1>6. Tiling(hdr, B)
  <2>1. B \subseteq Start..Last
    BY <1>1
  <2>2. \A b \in B \ {Last}: b = Start
    OBVIOUS
  <2>3. hdr[Last].size = 0 /\ hdr[Start].size > BlockSize
    BY <1>1, <1>3
  <2>4. \A c \in B: c > Start => c >= Last
    BY <1>1
  <2> QED BY <2>1, <2>2, <2>3, <2>4, <1>1, <1>4, <1>5 DEF Tiling
<1>7. FreeIn(hdr, B) = {Start} /\ UsedIn(hdr, B) = {}
  BY <1>1, <1>3 DEF FreeIn, UsedIn
<1>8. Grounded(hdr)
  <2>1. hdr[Null] = NoHeader
    BY <1>1, <1>3
  <2> QED BY <2>1, <1>1, <1>3, <1>4 DEF Grounded, NoHeader
<1>9. Tagged(hdr, B, Null)
  BY <1>1, <1>3, <1>5, <1>7 DEF Tagged
<1>10. Listed(hdr, {Start})
  <2>1. rk \in [Offset -> Nat] /\ rk[First] = 2 /\ rk[Start] = 1 /\ rk[Last] = 0
    BY <1>1
  <2> HIDE DEF rk
  <2>2. Links(hdr, {Start}, rk)
    BY <2>1, <1>1, <1>3 DEF Links
  <2> QED BY <2>1, <2>2 DEF Listed
<1>11. HeapAt(B)
  BY <1>2, <1>6, <1>7, <1>8, <1>9, <1>10 DEF HeapAt, Heap
<1>12. Total(hdr, FreeIn(hdr, B)) = size
  <2>1. {Start} \in SUBSET Offset /\ {Start} \ {Start} = {} /\ {} \in SUBSET Offset
    BY <1>1
  <2>2. Total(hdr, {Start}) = hdr[Start].size + Total(hdr, {Start} \ {Start})
    BY <2>1, <1>4, TotalTakes
  <2>3. Total(hdr, {}) = 0
    BY <2>1, <1>4, TotalTakes
  <2>4. hdr[Start].size = size
    BY <1>3
  <2> QED BY <2>1, <2>2, <2>3, <2>4, <1>1, <1>7
<1>13. SumAt(B)
  BY <1>1, <1>2, <1>12 DEF SumAt
<1>14. Clients(hdr, B, data, live, need)
  BY <1>2, <1>7, SegmentAssumption DEF Clients
<1>15. SweepAt(B)
  BY <1>2 DEF SweepAt
<1>16. BlocksInv(B) /\ B \in SUBSET Offset
  BY <1>1, <1>11, <1>13, <1>14, <1>15 DEF BlocksInv
<1>17. SmaTypes
  BY <1>1, <1>2, SegmentAssumption DEF SmaTypes
<1> QED BY <1>16, <1>17 DEF SmaInv

LEMMA SmaStep ==
  ASSUME SmaInv, [Next]_vars
  PROVE  SmaInv'
<1>1. CASE \E id \in Id: \/ \E n \in Requests: Malloc(id, n)
                         \/ FreeBlock(id) \/ Pin(id) \/ Unpin(id)
  <2>1. PICK id \in Id: \/ \E n \in Requests: Malloc(id, n)
                        \/ FreeBlock(id) \/ Pin(id) \/ Unpin(id)
    BY <1>1
  <2>2. CASE \E n \in Requests: Malloc(id, n)
    BY <2>2, MallocStep
  <2>3. CASE FreeBlock(id)
    BY <2>3, FreeStep
  <2>4. CASE Pin(id)
    BY <2>4, PinsStep DEF Pin, Idle, SmaInv, SmaTypes
  <2>5. CASE Unpin(id)
    BY <2>5, PinsStep DEF Unpin, SmaInv, SmaTypes
  <2> QED BY <2>1, <2>2, <2>3, <2>4, <2>5
<1>2. CASE DefragStart
  BY <1>2, DefragStartStep
<1>3. CASE DefragSkip
  BY <1>3, DefragSkipStep
<1>4. CASE DefragStay
  BY <1>4, DefragStayStep
<1>5. CASE DefragMove
  BY <1>5, DefragMoveStep
<1>6. CASE DefragEnd
  BY <1>6, DefragEndStep
<1>7. CASE UNCHANGED vars
  BY <1>7, PinsStep DEF vars, client, SmaInv, SmaTypes
<1> QED BY <1>1, <1>2, <1>3, <1>4, <1>5, <1>6, <1>7 DEF Next

\* The allocator: through allocation, deallocation and every step of a defragmentation the
\* blocks tile the segment, the clients' blocks are theirs, the list holds the free blocks,
\* the tags are right, avail is their sum, and what a defragmentation has passed is in
\* front of the end or of a pinned block.
THEOREM SmaInvariant == Spec => []SmaInv
<1>1. Init => SmaInv
  BY InitSma
<1>2. SmaInv /\ [Next]_vars => SmaInv'
  BY SmaStep
<1> QED BY <1>1, <1>2, PTL DEF Spec

-----------------------------------------------------------------------------
(* What the invariant gives *)

\* The walk finds the blocks of the invariant, and those that are not free are the clients'.
LEMMA BlocksFound ==
  ASSUME SmaTypes, NEW B \in SUBSET Offset, BlocksInv(B)
  PROVE  /\ Walk(hdr) = B /\ Blocks = B \ {Last}
         /\ FreeBlocks = FreeIn(hdr, B) /\ Owned = UsedIn(hdr, B)
         /\ Tiling(hdr, B) /\ Clients(hdr, B, data, live, need)
<1>1. Tiling(hdr, B) /\ Clients(hdr, B, data, live, need)
  BY DEF BlocksInv, HeapAt, Heap
<1>2. Walk(hdr) = B
  BY <1>1, WalkFindsBlocks
<1>3. FreeBlocks = FreeIn(hdr, B)
  BY <1>2 DEF FreeBlocks, Blocks, FreeIn, Null
<1>4. Owned = UsedIn(hdr, B)
  <2>1. ASSUME NEW o \in Owned PROVE o \in UsedIn(hdr, B)
    BY <1>1 DEF Owned, Clients
  <2>2. ASSUME NEW o \in UsedIn(hdr, B) PROVE o \in Owned
    <3>1. live[data[o]] = o /\ o \in Offset /\ o # Null
      BY <1>1, HeapSets DEF Clients, UsedIn
    <3>2. data[o] \in Id
      BY <3>1 DEF SmaTypes
    <3> QED BY <3>1, <3>2 DEF Owned
  <2> QED BY <2>1, <2>2
<1> QED BY <1>1, <1>2, <1>3, <1>4 DEF Blocks

\* While no defragmentation runs.
LEMMA IdleHeap ==
  ASSUME SmaTypes, NEW B \in SUBSET Offset, BlocksInv(B), Idle
  PROVE  /\ Grounded(hdr) /\ Tagged(hdr, B, Null) /\ Listed(hdr, FreeIn(hdr, B))
         /\ FreeIn(hdr, B) \subseteq Start..(Last - 1)
         /\ avail = Total(hdr, FreeIn(hdr, B)) /\ avail \in Nat
<1>1. cur = Null
  BY DEF Idle
<1>2. Heap(hdr, B, Null, FreeIn(hdr, B)) /\ reclaimed = 0 /\ avail + reclaimed = Total(hdr, FreeIn(hdr, B))
  BY <1>1 DEF BlocksInv, HeapAt, SumAt, SweepAt
<1>3. Tiling(hdr, B) /\ Grounded(hdr) /\ Tagged(hdr, B, Null) /\ Listed(hdr, FreeIn(hdr, B))
  BY <1>2 DEF Heap
<1>4. avail \in Nat
  BY DEF SmaTypes
<1>5. avail = Total(hdr, FreeIn(hdr, B))
  BY <1>2, <1>4
<1> QED BY <1>3, <1>4, <1>5, HeapSets

LEMMA InvTypeOK ==
  ASSUME SmaInv
  PROVE  TypeOK
<1>1. PICK B \in SUBSET Offset: BlocksInv(B)
  BY DEF SmaInv
<1>2. SmaTypes
  BY DEF SmaInv
<1>3. Tiling(hdr, B) /\ hdr \in [Offset -> Header] /\ FreeIn(hdr, B) \in SUBSET (B \ {Last})
  BY <1>1, <1>2, BlocksFound, HeapSets DEF FreeIn
<1>4. avail + reclaimed = Total(hdr, FreeIn(hdr, B)) /\ avail \in Nat /\ reclaimed \in Nat
  BY <1>1, <1>2 DEF BlocksInv, SumAt, SmaTypes
<1>5. avail \in 0..Size /\ reclaimed \in 0..Size
  <2> DEFINE x == Total(hdr, FreeIn(hdr, B))
  <2>1. x <= Last - Start /\ x \in Nat
    BY <1>3, TotalBelow
  <2>2. avail + reclaimed = x
    BY <1>4
  <2> HIDE DEF x
  <2>3. Last - Start <= Size
    BY SegmentAssumption DEF Last, Start
  <2> QED BY <2>1, <2>2, <2>3, <1>4, Layout
<1> QED BY <1>2, <1>3, <1>5 DEF TypeOK, SmaTypes

LEMMA InvTiled ==
  ASSUME SmaInv
  PROVE  Tiled
<1>1. PICK B \in SUBSET Offset: BlocksInv(B)
  BY DEF SmaInv
<1>2. SmaTypes
  BY DEF SmaInv
<1>3. Last \in B /\ UsedIn(hdr, B) \subseteq B \ {Last}
  BY <1>1, <1>2, BlocksFound DEF Tiling, UsedIn
<1> QED BY <1>1, <1>2, <1>3, BlocksFound DEF Tiled

LEMMA InvClientsIntact ==
  ASSUME SmaInv
  PROVE  ClientsIntact
<1>1. PICK B \in SUBSET Offset: BlocksInv(B)
  BY DEF SmaInv
<1>2. SmaTypes
  BY DEF SmaInv
<1>3. Tiling(hdr, B) /\ Clients(hdr, B, data, live, need)
  BY <1>1, <1>2, BlocksFound
<1>4. ASSUME NEW id \in Id, live[id] # Null
      PROVE  /\ data[live[id]] = id /\ hdr[live[id]].fnext = 0
             /\ hdr[live[id]].size >= hdr[live[id]].fprev
             /\ hdr[live[id]].fprev = BlockSize + need[id]
  <2>1. /\ live[id] \in UsedIn(hdr, B) /\ data[live[id]] = id
        /\ hdr[live[id]].fprev = BlockSize + need[id] /\ hdr[live[id]].fprev <= hdr[live[id]].size
    BY <1>3, <1>4 DEF Clients
  <2>2. hdr[live[id]].size \in Nat /\ hdr[live[id]].fprev \in Nat
    BY <2>1, <1>3, HeapSets, FieldTypes
  <2>3. hdr[live[id]].fnext = 0
    BY <2>1 DEF UsedIn, Null
  <2> QED BY <2>1, <2>2, <2>3
<1> QED BY <1>4 DEF ClientsIntact

LEMMA InvFreeListExact ==
  ASSUME SmaInv
  PROVE  FreeListExact
<1> SUFFICES ASSUME Idle
             PROVE  /\ FreeBlocks = Blocks \ Owned
                    /\ {FreeList(hdr)[i]: i \in DOMAIN FreeList(hdr)} = FreeBlocks
                    /\ \A o \in FreeBlocks \cup {First}: hdr[hdr[o].fnext].fprev = o
  BY DEF FreeListExact
<1>1. PICK B \in SUBSET Offset: BlocksInv(B)
  BY DEF SmaInv
<1>2. SmaTypes
  BY DEF SmaInv
<1>3. Blocks = B \ {Last} /\ FreeBlocks = FreeIn(hdr, B) /\ Owned = UsedIn(hdr, B) /\ Tiling(hdr, B)
  BY <1>1, <1>2, BlocksFound
<1>4. Grounded(hdr) /\ Listed(hdr, FreeIn(hdr, B)) /\ FreeIn(hdr, B) \subseteq Start..(Last - 1)
  BY <1>1, <1>2, IdleHeap
<1>5. FreeBlocks = Blocks \ Owned
  BY <1>3 DEF FreeIn, UsedIn
<1>6. {FreeList(hdr)[i]: i \in DOMAIN FreeList(hdr)} = FreeIn(hdr, B)
  <2>1. Enumerates(FreeList(hdr), FreeIn(hdr, B))
    BY <1>4, FreeListHolds
  <2> QED BY <2>1 DEF Enumerates
<1>7. \A o \in FreeIn(hdr, B) \cup {First}: hdr[hdr[o].fnext].fprev = o
  BY <1>4 DEF Listed, Links
<1> QED BY <1>3, <1>5, <1>6, <1>7

LEMMA InvTagsExact ==
  ASSUME SmaInv
  PROVE  TagsExact
<1> SUFFICES ASSUME Idle, NEW o \in Blocks
             PROVE  IF o \in FreeBlocks
                      THEN NextBlock(hdr, o) \notin FreeBlocks /\ hdr[NextBlock(hdr, o)].prev_size = hdr[o].size
                      ELSE hdr[NextBlock(hdr, o)].prev_size = 0
  BY DEF TagsExact
<1>1. PICK B \in SUBSET Offset: BlocksInv(B)
  BY DEF SmaInv
<1>2. SmaTypes
  BY DEF SmaInv
<1>3. Blocks = B \ {Last} /\ FreeBlocks = FreeIn(hdr, B) /\ Null \notin B
  BY <1>1, <1>2, BlocksFound, HeapSets
<1>4. Tagged(hdr, B, Null)
  BY <1>1, <1>2, IdleHeap
<1> QED BY <1>3, <1>4 DEF Tagged

LEMMA InvAvailExact ==
  ASSUME SmaInv
  PROVE  AvailExact
<1> SUFFICES ASSUME Idle PROVE avail = Total(hdr, FreeBlocks)
  BY DEF AvailExact
<1>1. PICK B \in SUBSET Offset: BlocksInv(B)
  BY DEF SmaInv
<1>2. SmaTypes
  BY DEF SmaInv
<1> QED BY <1>1, <1>2, BlocksFound, IdleHeap

\* A block is at most as large as the free space it is part of.
LEMMA InvFindsFit ==
  ASSUME SmaInv
  PROVE  FindsFit
<1> SUFFICES ASSUME Idle, NEW real \in {RealSize(n): n \in Requests}
             PROVE  IF \E o \in FreeBlocks: hdr[o].size >= real
                      THEN FindBlock(hdr, real) \in FreeBlocks /\ hdr[FindBlock(hdr, real)].size >= real
                      ELSE FindBlock(hdr, real) = Null
  BY DEF FindsFit
<1>0. real \in Nat
  BY SegmentAssumption DEF RealSize
<1>1. PICK B \in SUBSET Offset: BlocksInv(B)
  BY DEF SmaInv
<1>2. SmaTypes
  BY DEF SmaInv
<1>3. /\ FreeBlocks = FreeIn(hdr, B) /\ Tiling(hdr, B) /\ hdr \in [Offset -> Header] /\ Null \notin B
      /\ FreeIn(hdr, B) \in SUBSET Offset
  BY <1>1, <1>2, BlocksFound, HeapSets
<1>4. /\ Grounded(hdr) /\ Listed(hdr, FreeIn(hdr, B)) /\ FreeIn(hdr, B) \subseteq Start..(Last - 1)
      /\ avail = Total(hdr, FreeIn(hdr, B))
  BY <1>1, <1>2, IdleHeap
<1>5. /\ FindBlock(hdr, real) # Null =>
           FindBlock(hdr, real) \in FreeIn(hdr, B) /\ hdr[FindBlock(hdr, real)].size >= real
      /\ ~(avail < real) /\ (\E o \in FreeIn(hdr, B): hdr[o].size >= real) => FindBlock(hdr, real) # Null
  BY <1>0, <1>4, FindBlockFinds
<1>6. ASSUME NEW o \in FreeIn(hdr, B), hdr[o].size >= real PROVE ~(avail < real)
  <2> DEFINE x == Total(hdr, FreeIn(hdr, B))
             y == Total(hdr, FreeIn(hdr, B) \ {o})
             s == hdr[o].size
  <2>1. x = s + y /\ y \in Nat
    BY <1>3, TotalTakes
  <2>2. s \in Nat /\ s >= real /\ avail = x
    BY <1>3, <1>4, <1>6, FieldTypes
  <2> HIDE DEF x, y, s
  <2> QED BY <2>1, <2>2, <1>0
<1>7. CASE \E o \in FreeIn(hdr, B): hdr[o].size >= real
  <2>1. ~(avail < real)
    BY <1>6, <1>7
  <2>2. FindBlock(hdr, real) # Null
    BY <2>1, <1>5, <1>7
  <2> QED BY <2>2, <1>3, <1>5, <1>7
<1>8. CASE ~\E o \in FreeIn(hdr, B): hdr[o].size >= real
  <2>1. FindBlock(hdr, real) = Null
    BY <1>5, <1>8
  <2> QED BY <2>1, <1>3, <1>8
<1> QED BY <1>7, <1>8

\* A step moves nothing but the block behind the free one that a defragmentation has come to.
PinnedStayStep ==
  \A id \in Id:
    live[id] # Null /\ live'[id] \notin {live[id], Null} => ~Idle /\ id \notin pinned \cup {CacheHeader}

LEMMA MovesUnpinned ==
  ASSUME SmaInv, [Next]_vars
  PROVE  PinnedStayStep
<1> SUFFICES ASSUME NEW id \in Id, live[id] # Null, live'[id] \notin {live[id], Null}
             PROVE  ~Idle /\ id \notin pinned \cup {CacheHeader}
  BY DEF PinnedStayStep
<1>0. SmaTypes /\ live \in [Id -> Offset]
  BY DEF SmaInv, SmaTypes
<1>1. ASSUME NEW i \in Id, NEW n \in Requests, Malloc(i, n) PROVE FALSE
  BY <1>0, <1>1 DEF Malloc
<1>2. ASSUME NEW i \in Id, FreeBlock(i) PROVE FALSE
  BY <1>0, <1>2 DEF FreeBlock
<1>3. ASSUME live' = live PROVE FALSE
  BY <1>3
<1>4. CASE DefragMove
  <2> DEFINE n == NextBlock(hdr, cur)
  <2>1. PICK B \in SUBSET Offset: BlocksInv(B)
    BY DEF SmaInv
  <2>2. /\ ~Idle /\ cur # Null /\ hdr[cur].size # 0 /\ hdr[cur].fnext # Null
        /\ hdr[n].size # 0 /\ data[n] \notin pinned
        /\ live' = [live EXCEPT ![data[n]] = cur]
    BY <1>4 DEF DefragMove, Defragmenting, Idle, Moves, Null
  <2>3. id = data[n]
    BY <2>2, <1>0
  <2>4. /\ Tiling(hdr, B) /\ cur \in B \ {Last} /\ Tagged(hdr, B, cur) /\ Clients(hdr, B, data, live, need)
    BY <2>1, <2>2, <1>0, InSweep
  <2>5. n \in B /\ n # Last /\ n # Start /\ cur \in FreeIn(hdr, B)
    <3>1. n # Last
      BY <2>2, <2>4 DEF Tiling
    <3>2. cur \in Nat /\ Start <= cur /\ cur < n /\ n \in Nat /\ n \in B
      BY <2>4, TilingTypes
    <3>3. n # Start
      BY <3>2, Layout
    <3> QED BY <3>1, <3>2, <3>3, <2>2, <2>4 DEF FreeIn
  <2>6. n \in UsedIn(hdr, B)
    <3>1. n \notin FreeIn(hdr, B)
      BY <2>4, <2>5 DEF Tagged
    <3> QED BY <3>1, <2>4, <2>5, HeapSets
  <2>7. live[data[n]] = n /\ live[CacheHeader] \in {Null, Start}
    BY <2>4, <2>6 DEF Clients
  <2>8. n # Null
    BY <2>4, <2>5, TilingTypes
  <2> QED BY <2>2, <2>3, <2>5, <2>7, <2>8
<1>5. CASE (\E i \in Id: Pin(i) \/ Unpin(i)) \/ DefragStart \/ DefragSkip \/ DefragStay \/ DefragEnd \/ UNCHANGED vars
  <2>1. live' = live
    BY <1>5 DEF Pin, Unpin, DefragStart, DefragSkip, DefragStay, DefragEnd, vars, client
  <2> QED BY <2>1, <1>3
<1> QED BY <1>1, <1>2, <1>4, <1>5 DEF Next

CompactStep ==
  ~Idle /\ cur' = Null =>
    /\ avail' >= avail
    /\ \A o \in FreeBlocks: LET n == NextBlock(hdr, o)
                            IN n = Last \/ (n \in Owned /\ data[n] \in kept)

LEMMA EndsCompact ==
  ASSUME SmaInv, [Next]_vars
  PROVE  CompactStep
<1> SUFFICES ASSUME ~Idle, cur' = Null
             PROVE  /\ avail' >= avail
                    /\ \A o \in FreeBlocks:
                         \/ NextBlock(hdr, o) = Last
                         \/ NextBlock(hdr, o) \in Owned /\ data[NextBlock(hdr, o)] \in kept
  BY DEF CompactStep
<1>1. SmaTypes
  BY DEF SmaInv
<1>2. PICK B \in SUBSET Offset: BlocksInv(B)
  BY DEF SmaInv
<1>3. cur # Null
  BY DEF Idle
<1>4. /\ Heap(hdr, B, cur, PassedIn(hdr, B, cur)) /\ Tiling(hdr, B) /\ cur \in B
      /\ PinnedBehind(hdr, B, data, kept, cur) /\ Clients(hdr, B, data, live, need)
      /\ avail \in Nat /\ reclaimed \in Nat /\ (hdr[cur].size = 0 <=> cur = Last)
      /\ Null \notin B
  BY <1>1, <1>2, <1>3, InSweep
<1>5. DefragEnd
  <2>1. ~DefragSkip
    <3>1. DefragSkip => cur' \in B
      BY <1>4, TilingTypes DEF DefragSkip
    <3> QED BY <3>1, <1>4
  <2>2. ~DefragStay
    <3>1. DefragStay => cur' \in B
      <4>1. NextBlock(hdr, cur) \in B
        BY <1>4, TilingTypes
      <4>2. NextBlock(hdr, NextBlock(hdr, cur)) \in B
        BY <4>1, <1>4, TilingTypes
      <4> QED BY <4>2 DEF DefragStay
    <3> QED BY <3>1, <1>4
  <2>3. ~DefragMove
    <3>1. DefragMove => cur' = cur + hdr[NextBlock(hdr, cur)].fprev
      BY DEF DefragMove
    <3>2. cur \in Nat /\ cur # 0
      BY <1>3, <1>4, TilingTypes DEF Null
    <3>3. NextBlock(hdr, cur) \in Offset
      BY <1>4, TilingTypes
    <3>4. hdr[NextBlock(hdr, cur)].fprev \in Nat
      BY <3>3, <1>4, HeapSets, FieldTypes
    <3> QED BY <3>1, <3>2, <3>4 DEF Null
  <2>4. ~(\E i \in Id: (\E n \in Requests: Malloc(i, n)) \/ FreeBlock(i) \/ Pin(i)) /\ ~DefragStart
    BY DEF Malloc, FreeBlock, Pin, DefragStart
  <2>5. ~(\E i \in Id: Unpin(i)) /\ ~UNCHANGED vars
    BY <1>3 DEF Unpin, vars
  <2> QED BY <2>1, <2>2, <2>3, <2>4, <2>5 DEF Next
<1>6. cur = Last /\ avail' = avail + reclaimed
  BY <1>4, <1>5 DEF DefragEnd
<1>7. FreeBlocks = FreeIn(hdr, B) /\ Owned = UsedIn(hdr, B)
  BY <1>1, <1>2, BlocksFound
<1>8. FreeIn(hdr, B) \subseteq PassedIn(hdr, B, Last)
  <2>1. ASSUME NEW o \in FreeIn(hdr, B) PROVE o < Last
    BY <1>4, TilingTypes DEF FreeIn
  <2> QED BY <2>1 DEF PassedIn
<1> QED BY <1>4, <1>6, <1>7, <1>8 DEF PinnedBehind

\* Every field stays in its range through all the pointer arithmetic of sma_allocate,
\* sma_deallocate and apc_sma_defrag.
THEOREM SmaTyped == Spec => []TypeOK
<1> QED BY SmaInvariant, InvTypeOK, PTL

\* The blocks tile the segment, also between two iterations of apc_sma_defrag: the walk by
\* size that it relies on comes to the last block and passes every block of a client.
THEOREM AlwaysTiled == Spec => []Tiled
<1> QED BY SmaInvariant, InvTiled, PTL

\* No allocation, merge, split or move of another block overwrites a client's block, and a
\* client's pointer follows its block when the block moves.
THEOREM AlwaysIntact == Spec => []ClientsIntact
<1> QED BY SmaInvariant, InvClientsIntact, PTL

\* Between operations a block is owned or free, and find_block's list holds exactly the
\* free blocks, linked both ways.
THEOREM FreeListAlwaysExact == Spec => []FreeListExact
<1> QED BY SmaInvariant, InvFreeListExact, PTL

\* Between operations no two free blocks are consecutive, and prev_size is the size of the
\* block in front if that is free and 0 if not, as sma_deallocate takes it to be.
THEOREM TagsAlwaysExact == Spec => []TagsExact
<1> QED BY SmaInvariant, InvTagsExact, PTL

\* smaheader->avail is the sum of the free blocks whenever the mutex is free.
THEOREM AvailAlwaysExact == Spec => []AvailExact
<1> QED BY SmaInvariant, InvAvailExact, PTL

\* find_block fails only if no free block is large enough, and never returns one too small,
\* whatever best-fit limit it searches with.
THEOREM SearchFindsFit == Spec => []FindsFit
<1> QED BY SmaInvariant, InvFindsFit, PTL

\* apc_sma_defrag alone moves allocations, none that a process holds, and never the cache
\* header.
THEOREM PinnedNeverMove == Spec => PinnedStay
<1>1. SmaInv /\ [Next]_vars => [PinnedStayStep]_vars
  BY MovesUnpinned
<1> QED BY <1>1, SmaInvariant, PTL DEF Spec, PinnedStay, PinnedStayStep

\* A defragmentation ends with every free block in front of the end of the segment or of a
\* block that was pinned when it started, and gives back no less than it found.
THEOREM DefragCompacts == Spec => Compact
<1>1. SmaInv /\ [Next]_vars => [CompactStep]_vars
  BY EndsCompact
<1> QED BY <1>1, SmaInvariant, PTL DEF Spec, Compact, CompactStep
=============================================================================

------------------------------ MODULE SumLemmas ------------------------------
(***************************************************************************)
(* What the proofs about the allocator and about the chains of the cache   *)
(* have in common: induction over the naturals, and sums over a finite set *)
(* (SumFunctionOnSet, which adds in an order nobody knows).                *)
(***************************************************************************)
EXTENDS Integers, FiniteSets, Functions, WellFoundedInduction, FiniteSetTheorems, TLAPS

\* Induction: every non-empty set of naturals has a least member.
LEMMA LeastNat ==
  ASSUME NEW T, T \subseteq Nat, T # {}
  PROVE  \E x \in T: \A y \in T: x <= y
<1>1. IsWellFoundedOn(OpToRel(<, Nat), Nat)
  BY NatLessThanWellFounded
<1>2. PICK x \in T: \A y \in T: ~(<<y, x>> \in OpToRel(<, Nat))
  BY <1>1, WFMin
<1>3. \A y \in T: <<y, x>> \in OpToRel(<, Nat) <=> y < x
  BY DEF OpToRel
<1>4. \A y \in T: ~(y < x)
  BY <1>2, <1>3
<1>5. \A y \in T: x <= y
  BY <1>4
<1> QED BY <1>5

\* And every bounded one has a greatest.
LEMMA GreatestNat ==
  ASSUME NEW T, T \subseteq Nat, T # {}, NEW n \in Nat, \A t \in T: t <= n
  PROVE  \E x \in T: \A y \in T: y <= x
<1> DEFINE D == {n - t: t \in T}
<1>1. D \subseteq Nat
  <2> SUFFICES ASSUME NEW t \in T PROVE n - t \in Nat
    OBVIOUS
  <2> QED OBVIOUS
<1>0. D # {}
  OBVIOUS
<1>2. PICK d \in D: \A e \in D: d <= e
  BY <1>1, <1>0, LeastNat
<1>3. PICK x \in T: d = n - x
  OBVIOUS
<1>4. \A y \in T: y <= x
  BY <1>2, <1>3
<1> QED BY <1>4

\* Induction over the naturals.
LEMMA FromZero ==
  ASSUME NEW T, 0 \in T, \A i \in Nat: i \in T => i + 1 \in T
  PROVE  Nat \subseteq T
<1> DEFINE Bad == Nat \ T
<1>1. SUFFICES ASSUME Bad # {} PROVE FALSE
  OBVIOUS
<1>2. PICK i \in Bad: \A j \in Bad: i <= j
  <2>1. Bad \subseteq Nat
    OBVIOUS
  <2> HIDE DEF Bad
  <2> QED
    BY <1>1, <2>1, LeastNat
<1>3. i \in Nat /\ i # 0 /\ i \notin T
  BY <1>2
<1>4. i - 1 \in Nat /\ i - 1 \notin Bad
  BY <1>2, <1>3
<1> QED
  BY <1>3, <1>4

\* A function that computes each value from the one before exists.
Rules(X, n) == [(1..n) \X X -> X]
Iteration(X, x0, n, G) ==
  \E f \in [0..n -> X]: f[0] = x0 /\ \A i \in 1..n: f[i] = G[<<i, f[i - 1]>>]

LEMMA IterationExists ==
  ASSUME NEW X, NEW x0 \in X, NEW n \in Nat, NEW G \in Rules(X, n)
  PROVE  Iteration(X, x0, n, G)
<1>0. G \in [(1..n) \X X -> X]
  BY DEF Rules
<1> DEFINE Fine(m) == \E f \in [0..m -> X]: f[0] = x0 /\ \A i \in 1..m: f[i] = G[<<i, f[i - 1]>>]
           T == {m \in Nat: m <= n => Fine(m)}
<1>1. 0 \in T
  <2>1. [i \in 0..0 |-> x0] \in [0..0 -> X] /\ [i \in 0..0 |-> x0][0] = x0
    OBVIOUS
  <2>2. \A i \in 1..0: FALSE
    OBVIOUS
  <2>3. Fine(0)
    BY <2>1, <2>2
  <2> QED
    BY <2>3
<1>2. ASSUME NEW m \in Nat, m \in T PROVE m + 1 \in T
  <2>1. SUFFICES ASSUME m + 1 <= n PROVE Fine(m + 1)
    OBVIOUS
  <2>2. PICK f \in [0..m -> X]: f[0] = x0 /\ \A i \in 1..m: f[i] = G[<<i, f[i - 1]>>]
    BY <1>2, <2>1
  <2> DEFINE g == [i \in 0..(m + 1) |-> IF i <= m THEN f[i] ELSE G[<<m + 1, f[m]>>]]
  <2>3. G[<<m + 1, f[m]>>] \in X
    <3>1. m + 1 \in 1..n /\ f[m] \in X
      BY <2>1
    <3>2. <<m + 1, f[m]>> \in (1..n) \X X
      BY <3>1
    <3> QED
      BY <3>2, <1>0
  <2>4. g \in [0..(m + 1) -> X] /\ g[0] = x0
    BY <2>2, <2>3
  <2>5. ASSUME NEW i \in 1..(m + 1) PROVE g[i] = G[<<i, g[i - 1]>>]
    <3>1. CASE i <= m
      BY <2>2, <3>1
    <3>2. CASE i = m + 1
      <4>1. g[m + 1] = G[<<m + 1, f[m]>>] /\ g[m] = f[m] /\ i - 1 = m
        BY <3>2
      <4> HIDE DEF g
      <4> QED
        BY <3>2, <4>1
    <3> QED
      BY <3>1, <3>2
  <2> HIDE DEF g
  <2> QED
    BY <2>4, <2>5
<1> HIDE DEF Fine
<1>3. Nat \subseteq T
  <2> HIDE DEF T
  <2> QED
    BY <1>1, <1>2, FromZero
<1>4. Fine(n)
  BY <1>3
<1> QED
  BY <1>4 DEF Fine, Iteration

-----------------------------------------------------------------------------
(* Sums *)

PickOne(s) == CHOOSE x \in s: TRUE

\* A set that is not empty has a member to pick.
LEMMA PickOneIn ==
  ASSUME NEW s, s # {}
  PROVE  PickOne(s) \in s
BY DEF PickOne

\* The sizes of the subsets of a finite set.
LEMMA SubsetsOf ==
  ASSUME NEW D, IsFiniteSet(D), NEW s \in SUBSET D
  PROVE  /\ IsFiniteSet(s) /\ Cardinality(s) \in Nat /\ (Cardinality(s) = 0 <=> s = {})
         /\ Cardinality(s) <= Cardinality(D)
         /\ \A x \in s: s \ {x} \in SUBSET D /\ Cardinality(s \ {x}) = Cardinality(s) - 1
<1>1. IsFiniteSet(s) /\ Cardinality(s) <= Cardinality(D)
  BY FS_Subset
<1>2. Cardinality(s) \in Nat
  BY <1>1, FS_CardinalityType
<1>3. Cardinality(s) = 0 <=> s = {}
  BY <1>1, FS_EmptySet
<1>4. \A x \in s: Cardinality(s \ {x}) = Cardinality(s) - 1
  BY <1>1, FS_RemoveElement
<1> QED BY <1>1, <1>2, <1>3, <1>4

\* it adds up f over every subset of D, in the order in which members are picked.
IsSum(f, D, it) ==
  it = [s \in SUBSET D |-> IF s = {} THEN 0 ELSE f[PickOne(s)] + it[s \ {PickOne(s)}]]

\* The definition of the library.
LEMMA SumIs ==
  ASSUME NEW f, NEW D
  PROVE  SumFunctionOnSet(f, D) = (CHOOSE it: IsSum(f, D, it))[D]
BY DEF SumFunctionOnSet, FoldFunctionOnSet, MapThenFoldSet, IsSum, PickOne

\* f can be added up over D.
Weighs(f, D) == IsFiniteSet(D) /\ \A x \in D: f[x] \in Nat

\* Adding up in this order is well defined.
LEMMA SumExists ==
  ASSUME NEW f, NEW D, Weighs(f, D)
  PROVE  \E it \in [SUBSET D -> Nat]: IsSum(f, D, it)
<1> DEFINE Step(it, s) == IF s = {} THEN 0 ELSE f[PickOne(s)] + it[s \ {PickOne(s)}]
           Good(n) == {it \in [SUBSET D -> Nat]: \A s \in SUBSET D: Cardinality(s) <= n => it[s] = Step(it, s)}
           Bad == {n \in Nat: Good(n) = {}}
<1>1. \A s \in SUBSET D: Cardinality(s) \in Nat /\ (Cardinality(s) = 0 <=> s = {})
  BY SubsetsOf DEF Weighs
<1>2. ASSUME NEW s \in SUBSET D, s # {}
      PROVE  /\ PickOne(s) \in D /\ f[PickOne(s)] \in Nat /\ s \ {PickOne(s)} \in SUBSET D
             /\ Cardinality(s \ {PickOne(s)}) = Cardinality(s) - 1
  <2>1. PickOne(s) \in s
    BY <1>2, PickOneIn
  <2> QED BY <2>1, SubsetsOf DEF Weighs
<1>4. \A n \in Nat: Good(n) # {}
  <2>1. SUFFICES ASSUME Bad # {} PROVE FALSE
    OBVIOUS
  <2>2. PICK n \in Bad: \A m \in Bad: n <= m
    BY <2>1, LeastNat, Bad \subseteq Nat
  <2>3. n # 0
    <3> DEFINE z == [s \in SUBSET D |-> 0]
    <3>1. \A s \in SUBSET D: Cardinality(s) <= 0 => z[s] = Step(z, s)
      BY <1>1
    <3>2. z \in [SUBSET D -> Nat]
      OBVIOUS
    <3> HIDE DEF z, Step
    <3>3. z \in Good(0)
      BY <3>1, <3>2
    <3> QED BY <3>3
  <2>4. n - 1 \in Nat /\ n - 1 \notin Bad
    <3>1. n \in Nat
      OBVIOUS
    <3> HIDE DEF Bad
    <3> QED BY <3>1, <2>2, <2>3
  <2>5. PICK it: it \in Good(n - 1)
    BY <2>4
  <2> DEFINE k == [s \in SUBSET D |-> IF Cardinality(s) <= n - 1 THEN it[s] ELSE Step(it, s)]
  <2>6. it \in [SUBSET D -> Nat] /\ \A s \in SUBSET D: Cardinality(s) <= n - 1 => it[s] = Step(it, s)
    BY <2>5
  <2>7. k \in [SUBSET D -> Nat]
    <3>1. \A s \in SUBSET D: Step(it, s) \in Nat
      <4> TAKE s \in SUBSET D
      <4>1. CASE s # {}
        <5>1. it[s \ {PickOne(s)}] \in Nat /\ f[PickOne(s)] \in Nat
          BY <4>1, <1>2, <2>6
        <5> QED BY <5>1, <4>1
      <4> QED BY <4>1
    <3> HIDE DEF Step
    <3> QED BY <2>6, <3>1
  <2>8. \A s \in SUBSET D: k[s] = IF Cardinality(s) <= n - 1 THEN it[s] ELSE Step(it, s)
    OBVIOUS
  <2> HIDE DEF k
  <2>9. ASSUME NEW s \in SUBSET D, Cardinality(s) <= n PROVE k[s] = Step(k, s)
    <3>1. k[s] = Step(it, s)
      BY <2>6, <2>8
    <3>2. ASSUME s # {} PROVE it[s \ {PickOne(s)}] = k[s \ {PickOne(s)}]
      <4>1. Cardinality(s \ {PickOne(s)}) <= n - 1
        BY <3>2, <1>1, <1>2, <2>9, <2>4
      <4> QED BY <4>1, <3>2, <1>2, <2>8
    <3> QED BY <3>1, <3>2
  <2> HIDE DEF Step
  <2>10. k \in Good(n)
    BY <2>7, <2>9
  <2> QED BY <2>10
<1>5. PICK it: it \in Good(Cardinality(D))
  BY <1>1, <1>4
<1>6. ASSUME NEW s \in SUBSET D PROVE it[s] = Step(it, s)
  <2>1. Cardinality(s) <= Cardinality(D)
    BY SubsetsOf DEF Weighs
  <2> HIDE DEF Step
  <2> QED BY <1>5, <2>1
<1>7. it \in [SUBSET D -> Nat]
  BY <1>5
<1>8. IsSum(f, D, it)
  BY <1>6, <1>7 DEF IsSum
<1> QED BY <1>7, <1>8

\* Two such sums agree where the functions do.
LEMMA SumsAgree ==
  ASSUME NEW f, NEW g, NEW D, NEW E, IsFiniteSet(D),
         NEW it, IsSum(f, D, it), NEW jt, IsSum(g, E, jt),
         NEW t \in SUBSET (D \cap E), \A x \in t: f[x] = g[x]
  PROVE  it[t] = jt[t]
<1> DEFINE R == {s \in SUBSET t: it[s] # jt[s]}
           C == {Cardinality(s): s \in R}
<1>1. SUFFICES ASSUME R # {} PROVE FALSE
  BY t \in SUBSET t
<1>2. C \subseteq Nat /\ C # {}
  BY <1>1, SubsetsOf
<1>3. PICK c \in C: \A d \in C: c <= d
  <2> HIDE DEF C
  <2> QED BY <1>2, LeastNat
<1>4. PICK s \in R: c = Cardinality(s)
  OBVIOUS
<1>5. \A u \in R: Cardinality(s) <= Cardinality(u)
  BY <1>3, <1>4
<1>6. s \in SUBSET D /\ s \in SUBSET E
  BY <1>4
<1>7. s # {}
  <2>1. s = {} => it[s] = 0 /\ jt[s] = 0
    BY <1>6 DEF IsSum
  <2> QED BY <2>1, <1>4
<1> DEFINE x == PickOne(s)
           r == s \ {x}
<1>8. x \in s
  BY <1>7, PickOneIn
<1>9. it[s] = f[x] + it[r] /\ jt[s] = g[x] + jt[r]
  BY <1>6, <1>7 DEF IsSum
<1>10. r \in SUBSET t /\ Cardinality(r) = Cardinality(s) - 1 /\ Cardinality(s) \in Nat
  BY <1>4, <1>6, <1>8, SubsetsOf
<1>11. r \notin R
  BY <1>5, <1>10
<1>12. it[r] = jt[r] /\ f[x] = g[x]
  BY <1>11, <1>10, <1>8, <1>4
<1> QED BY <1>4, <1>9, <1>12

\* The sums over all the subsets at once.
LEMMA SumIsSum ==
  ASSUME NEW f, NEW D, Weighs(f, D)
  PROVE  \E it \in [SUBSET D -> Nat]:
           IsSum(f, D, it) /\ \A E \in SUBSET D: SumFunctionOnSet(f, E) = it[E]
<1>1. PICK it \in [SUBSET D -> Nat]: IsSum(f, D, it)
  BY SumExists
<1>2. ASSUME NEW E \in SUBSET D PROVE SumFunctionOnSet(f, E) = it[E]
  <2> DEFINE jt == CHOOSE j: IsSum(f, E, j)
  <2>1. Weighs(f, E)
    BY SubsetsOf DEF Weighs
  <2>2. \E j: IsSum(f, E, j)
    BY <2>1, SumExists
  <2>3. IsSum(f, E, jt)
    BY <2>2
  <2>4. SumFunctionOnSet(f, E) = jt[E]
    BY SumIs
  <2> HIDE DEF jt
  <2>5. E \in SUBSET (D \cap E) /\ \A x \in E: f[x] = f[x]
    OBVIOUS
  <2>6. it[E] = jt[E]
    BY <1>1, <2>3, <2>5, SumsAgree DEF Weighs
  <2> QED BY <2>4, <2>6
<1> QED BY <1>1, <1>2

\* The sum depends on what f is on the set.
LEMMA SumFrame ==
  ASSUME NEW f, NEW g, NEW D, Weighs(f, D), \A x \in D: f[x] = g[x]
  PROVE  SumFunctionOnSet(f, D) = SumFunctionOnSet(g, D)
<1>1. Weighs(g, D)
  BY DEF Weighs
<1>2. PICK it \in [SUBSET D -> Nat]: IsSum(f, D, it) /\ \A E \in SUBSET D: SumFunctionOnSet(f, E) = it[E]
  BY SumIsSum
<1>3. PICK jt \in [SUBSET D -> Nat]: IsSum(g, D, jt) /\ \A E \in SUBSET D: SumFunctionOnSet(g, E) = jt[E]
  BY <1>1, SumIsSum
<1>4. D \in SUBSET (D \cap D) /\ D \in SUBSET D
  OBVIOUS
<1>5. it[D] = jt[D]
  BY <1>2, <1>3, <1>4, SumsAgree DEF Weighs
<1> QED BY <1>2, <1>3, <1>4, <1>5

\* Any member can be taken out of a sum.
LEMMA SumTakes ==
  ASSUME NEW f, NEW D, Weighs(f, D)
  PROVE  /\ SumFunctionOnSet(f, D) \in Nat
         /\ D = {} => SumFunctionOnSet(f, D) = 0
         /\ \A x \in D: SumFunctionOnSet(f, D) = f[x] + SumFunctionOnSet(f, D \ {x})
<1>1. PICK it \in [SUBSET D -> Nat]: IsSum(f, D, it) /\ \A E \in SUBSET D: SumFunctionOnSet(f, E) = it[E]
  BY SumIsSum
<1>2. D \in SUBSET D /\ \A x \in D: D \ {x} \in SUBSET D
  OBVIOUS
<1>3. it[D] \in Nat /\ (D = {} => it[D] = 0)
  BY <1>1, <1>2 DEF IsSum
<1>4. \A s \in SUBSET D: s # {} => it[s] = f[PickOne(s)] + it[s \ {PickOne(s)}]
  BY <1>1 DEF IsSum
<1>5. IsFiniteSet(D) /\ \A x \in D: f[x] \in Nat
  BY DEF Weighs
<1>6. \A s \in SUBSET D: \A x \in s: it[s] = f[x] + it[s \ {x}]
  <2> DEFINE Odd(s) == \E x \in s: it[s] # f[x] + it[s \ {x}]
             R == {s \in SUBSET D: Odd(s)}
             C == {Cardinality(s): s \in R}
  <2>1. SUFFICES ASSUME R # {} PROVE FALSE
    OBVIOUS
  <2>2. C \subseteq Nat /\ C # {}
    <3>1. R \subseteq SUBSET D
      OBVIOUS
    <3> HIDE DEF R
    <3> QED BY <3>1, <2>1, <1>5, SubsetsOf
  <2>3. PICK c \in C: \A d \in C: c <= d
    <3> HIDE DEF C
    <3> QED BY <2>2, LeastNat
  <2>4. PICK s \in R: c = Cardinality(s)
    OBVIOUS
  <2>5. \A u \in R: Cardinality(s) <= Cardinality(u)
    BY <2>3, <2>4
  <2>6. PICK x \in s: it[s] # f[x] + it[s \ {x}]
    BY <2>4
  <2> DEFINE y == PickOne(s)
  <2>7. y \in s /\ it[s] = f[y] + it[s \ {y}] /\ s \in SUBSET D
    BY <2>6, <1>4, PickOneIn
  <2> HIDE DEF y
  <2>8. x # y
    BY <2>6, <2>7
  <2>9. ASSUME NEW z \in s
        PROVE  /\ s \ {z} \in SUBSET D
               /\ \A v \in s \ {z}: it[s \ {z}] = f[v] + it[(s \ {z}) \ {v}]
    <3>1. Cardinality(s \ {z}) = Cardinality(s) - 1 /\ Cardinality(s) \in Nat
      BY <2>7, <1>5, SubsetsOf
    <3>2. s \ {z} \notin R
      <4> HIDE DEF R
      <4> QED BY <3>1, <2>5
    <3>3. s \ {z} \in SUBSET D
      BY <2>7
    <3> QED BY <3>2, <3>3
  <2>10. it[s \ {y}] = f[x] + it[(s \ {y}) \ {x}]
    BY <2>7, <2>8, <2>9
  <2>11. it[s \ {x}] = f[y] + it[(s \ {x}) \ {y}]
    BY <2>7, <2>8, <2>9
  <2>12. (s \ {y}) \ {x} = (s \ {x}) \ {y} /\ (s \ {y}) \ {x} \in SUBSET D
    BY <2>7
  <2>13. f[x] \in Nat /\ f[y] \in Nat /\ it[(s \ {y}) \ {x}] \in Nat
    BY <2>7, <2>12, <1>5
  <2> DEFINE z == it[(s \ {y}) \ {x}]
  <2>14. it[s] = f[x] + it[s \ {x}]
    <3>1. it[s \ {y}] = f[x] + z /\ it[s \ {x}] = f[y] + z /\ z \in Nat
      BY <2>10, <2>11, <2>12, <2>13
    <3>2. it[s] = f[y] + it[s \ {y}]
      BY <2>7
    <3> HIDE DEF z
    <3> QED BY <3>1, <3>2, <2>13
  <2> QED BY <2>6, <2>14
<1> QED BY <1>1, <1>2, <1>3, <1>6

=============================================================================

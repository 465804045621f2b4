---------------------------- MODULE ApcCopyProofs ----------------------------
(***************************************************************************)
(* Theorems about the two passes of ApcPersist, for every value: the one   *)
(* that adds up the size and the one that copies agree to the word.        *)
(*                                                                         *)
(* The invariant follows a value through the passes:                       *)
(*   Pass   the size counted so far is that of the structures in the       *)
(*          table, and the list has all that they lead to (StartInv);      *)
(*   Half   the block has a copy of each structure in the table, and takes *)
(*          as many words as were counted for them (CopyInv).              *)
(***************************************************************************)
EXTENDS ApcPersist, SumLemmas, SequenceTheorems

-----------------------------------------------------------------------------
(* Worklists *)

Members(s) == {s[i]: i \in 1..Len(s)}
\* No element is twice in s.
Once(s) == \A i, j \in 1..Len(s): s[i] = s[j] => i = j

\* The members of a list and of its tail.
LEMMA TailMembers ==
  ASSUME NEW E, NEW s \in Seq(E), s # << >>
  PROVE  /\ Len(s) \in Nat /\ Len(s) > 0 /\ Tail(s) \in Seq(E)
         /\ Head(s) = s[1] /\ Head(s) \in Members(s)
         /\ Members(Tail(s)) \subseteq Members(s)
         /\ Members(s) = Members(Tail(s)) \cup {Head(s)}
         /\ Once(s) => Head(s) \notin Members(Tail(s)) /\ Once(Tail(s))
<1> DEFINE t == Tail(s)
<1>1. /\ Len(s) \in Nat /\ Len(s) > 0 /\ t \in Seq(E) /\ Len(t) = Len(s) - 1
      /\ \A i \in 1..Len(t): t[i] = s[i + 1]
  OBVIOUS
<1>2. Head(s) = s[1]
  OBVIOUS
<1> HIDE DEF t
<1>3. Head(s) \in Members(s)
  <2>1. 1 \in 1..Len(s)
    BY <1>1
  <2> QED
    BY <2>1, <1>2 DEF Members
<1>4. \A i \in 1..Len(t): i + 1 \in 1..Len(s)
  BY <1>1
<1>5. Members(t) \subseteq Members(s)
  BY <1>1, <1>4 DEF Members
<1>6. ASSUME NEW i \in 1..Len(s) PROVE s[i] \in Members(t) \cup {s[1]}
  <2>1. i = 1 \/ (i - 1 \in 1..Len(t) /\ t[i - 1] = s[i])
    BY <1>1
  <2> QED
    BY <2>1 DEF Members
<1>7. Members(s) \subseteq Members(t) \cup {Head(s)}
  BY <1>6, <1>2 DEF Members
<1>8. ASSUME Once(s) PROVE Head(s) \notin Members(t) /\ Once(t)
  <2>1. \A i \in 1..Len(t): i + 1 # 1 /\ i \in Nat
    BY <1>1
  <2>2. 1 \in 1..Len(s)
    BY <1>1
  <2>3. Head(s) \notin Members(t)
    BY <1>8, <1>1, <1>2, <1>4, <2>1, <2>2 DEF Members, Once
  <2>4. Once(t)
    <3> SUFFICES ASSUME NEW i \in 1..Len(t), NEW j \in 1..Len(t), t[i] = t[j] PROVE i = j
      BY DEF Once
    <3>1. s[i + 1] = s[j + 1] /\ i + 1 \in 1..Len(s) /\ j + 1 \in 1..Len(s)
      BY <1>1, <1>4
    <3>2. i + 1 = j + 1
      BY <3>1, <1>8 DEF Once
    <3> QED
      BY <3>2
  <2> QED
    BY <2>3, <2>4
<1> QED
  BY <1>1, <1>2, <1>3, <1>5, <1>7, <1>8 DEF t

\* The members of two lists one after the other.
LEMMA BothMembers ==
  ASSUME NEW E, NEW s \in Seq(E), NEW t \in Seq(E)
  PROVE  /\ s \o t \in Seq(E) /\ Members(s \o t) = Members(s) \cup Members(t)
         /\ Once(s) /\ Once(t) /\ Members(s) \cap Members(t) = {} => Once(s \o t)
<1> DEFINE c == s \o t
<1>1. /\ c \in Seq(E) /\ Len(c) = Len(s) + Len(t) /\ Len(s) \in Nat /\ Len(t) \in Nat
      /\ \A i \in 1..Len(c): c[i] = IF i <= Len(s) THEN s[i] ELSE t[i - Len(s)]
  OBVIOUS
<1> HIDE DEF c
<1>2. ASSUME NEW i \in 1..Len(c)
      PROVE  \/ i \in 1..Len(s) /\ c[i] = s[i]
             \/ i - Len(s) \in 1..Len(t) /\ c[i] = t[i - Len(s)] /\ ~(i <= Len(s))
  BY <1>1
<1>3. Members(c) \subseteq Members(s) \cup Members(t)
  BY <1>2 DEF Members
<1>4. \A i \in 1..Len(s): i \in 1..Len(c) /\ c[i] = s[i]
  BY <1>1
<1>5. ASSUME NEW i \in 1..Len(t) PROVE i + Len(s) \in 1..Len(c) /\ c[i + Len(s)] = t[i]
  <2>1. i \in Nat /\ i > 0 /\ i <= Len(t)
    BY <1>1
  <2> DEFINE j == i + Len(s)
  <2>2. j \in 1..Len(c) /\ ~(j <= Len(s)) /\ j - Len(s) = i
    BY <1>1, <2>1
  <2> HIDE DEF j
  <2>3. c[j] = t[i]
    BY <1>1, <2>2
  <2> QED
    BY <2>2, <2>3 DEF j
<1>6. Members(s) \subseteq Members(c)
  BY <1>4 DEF Members
<1>7. Members(t) \subseteq Members(c)
  BY <1>5 DEF Members
<1>8. ASSUME Once(s), Once(t), Members(s) \cap Members(t) = {} PROVE Once(c)
  <2> SUFFICES ASSUME NEW i \in 1..Len(c), NEW j \in 1..Len(c), c[i] = c[j] PROVE i = j
    BY DEF Once
  <2>0. i \in Int /\ j \in Int /\ Len(s) \in Int
    BY <1>1
  <2>1. CASE i \in 1..Len(s) /\ c[i] = s[i] /\ j \in 1..Len(s) /\ c[j] = s[j]
    BY <2>1, <1>8 DEF Once
  <2>2. CASE i \in 1..Len(s) /\ c[i] = s[i] /\ j - Len(s) \in 1..Len(t) /\ c[j] = t[j - Len(s)]
    BY <2>2, <1>8 DEF Members
  <2>3. CASE j \in 1..Len(s) /\ c[j] = s[j] /\ i - Len(s) \in 1..Len(t) /\ c[i] = t[i - Len(s)]
    BY <2>3, <1>8 DEF Members
  <2>4. CASE /\ i - Len(s) \in 1..Len(t) /\ c[i] = t[i - Len(s)]
             /\ j - Len(s) \in 1..Len(t) /\ c[j] = t[j - Len(s)]
    <3>1. i - Len(s) = j - Len(s)
      BY <2>4, <1>8 DEF Once
    <3> QED
      BY <3>1, <2>0
  <2> QED
    BY <1>2, <2>1, <2>2, <2>3, <2>4
<1> QED
  BY <1>1, <1>3, <1>6, <1>7, <1>8 DEF c

\* A step takes the first element and puts others in its place.
LEMMA NextMembers ==
  ASSUME NEW E, NEW s \in Seq(E), s # << >>, Once(s), NEW t \in Seq(E), Once(t),
         Members(t) \cap Members(s) = {}
  PROVE  /\ t \o Tail(s) \in Seq(E) /\ Once(t \o Tail(s))
         /\ Members(t \o Tail(s)) = Members(t) \cup (Members(s) \ {Head(s)})
         /\ Head(s) \in Members(s)
<1>1. /\ Tail(s) \in Seq(E) /\ Head(s) \in Members(s)
      /\ Members(s) = Members(Tail(s)) \cup {Head(s)}
      /\ Head(s) \notin Members(Tail(s)) /\ Once(Tail(s))
  BY TailMembers
<1>2. Members(t) \cap Members(Tail(s)) = {} /\ Members(Tail(s)) = Members(s) \ {Head(s)}
  BY <1>1
<1>3. /\ t \o Tail(s) \in Seq(E) /\ Members(t \o Tail(s)) = Members(t) \cup Members(Tail(s))
      /\ Once(t \o Tail(s))
  BY <1>1, <1>2, BothMembers
<1> QED
  BY <1>1, <1>2, <1>3

\* An empty list has no members, and only it.
LEMMA NoMembers ==
  ASSUME NEW E, NEW s \in Seq(E)
  PROVE  /\ << >> \in Seq(E) /\ Once(<< >>) /\ Members(<< >>) = {} /\ Len(s) \in Nat
         /\ s = << >> <=> Members(s) = {}
<1>1. Len(s) \in Nat /\ (s = << >> <=> Len(s) = 0) /\ Len(<< >>) = 0 /\ << >> \in Seq(E)
  OBVIOUS
<1>2. Once(<< >>) /\ Members(<< >>) = {}
  BY <1>1 DEF Once, Members
<1>3. Len(s) > 0 => 1 \in 1..Len(s)
  BY <1>1
<1>4. Len(s) > 0 => Members(s) # {}
  BY <1>3 DEF Members
<1> QED
  BY <1>1, <1>2, <1>4

\* The list of one element.
LEMMA OneMember ==
  ASSUME NEW E, NEW e \in E
  PROVE  <<e>> \in Seq(E) /\ Once(<<e>>) /\ Members(<<e>>) = {e} /\ Head(<<e>>) = e /\ <<e>> # << >>
<1>1. <<e>> \in Seq(E) /\ Len(<<e>>) = 1 /\ <<e>>[1] = e /\ Head(<<e>>) = e
  OBVIOUS
<1>2. 1..1 = {1}
  OBVIOUS
<1>3. Once(<<e>>) /\ Members(<<e>>) = {e}
  BY <1>1, <1>2 DEF Once, Members
<1>4. <<e>> # << >>
  BY <1>1
<1> QED
  BY <1>1, <1>3, <1>4

\* A list with one element, which another list is.
LEMMA OnlyMember ==
  ASSUME NEW E, NEW s \in Seq(E), Once(s), NEW e, Members(s) \subseteq {e}, s # << >>
  PROVE  s = <<e>> /\ Head(s) = e /\ Tail(s) = << >>
<1>1. Len(s) \in Nat /\ Len(s) > 0 /\ Head(s) = s[1]
  BY TailMembers
<1>2. \A i \in 1..Len(s): s[i] = e
  BY DEF Members
<1>3. 1 \in 1..Len(s) /\ (Len(s) > 1 => 2 \in 1..Len(s))
  BY <1>1
<1>4. ~(Len(s) > 1)
  <2>1. Len(s) > 1 => s[1] = s[2]
    BY <1>2, <1>3
  <2>2. Len(s) > 1 => 1 = 2
    BY <2>1, <1>3 DEF Once
  <2> QED
    BY <2>2
<1>5. Len(s) = 1 /\ s[1] = e
  <2>1. Len(s) = 1
    BY <1>1, <1>4
  <2> QED
    BY <1>2, <1>3, <2>1
<1>6. s = <<e>>
  BY <1>5, <1>1
<1> QED
  BY <1>6

\* The zvals of a structure.
LEMMA EachMembers ==
  ASSUME NEW a \in Nat, NEW els, NEW n \in Nat, DOMAIN els = 1..n
  PROVE  /\ Each(a, els) \in Seq(Nat \X Nat) /\ Once(Each(a, els))
         /\ Members(Each(a, els)) = {<<a, i>>: i \in DOMAIN els}
<1> DEFINE s == [i \in 1..n |-> <<a, i>>]
<1>2. Each(a, els) = s
  BY DEF Each
<1>3. \A i \in 1..n: <<a, i>> \in Nat \X Nat
  OBVIOUS
<1>4. s \in Seq(Nat \X Nat) /\ Len(s) = n
  BY <1>3
<1>5. \A i \in 1..n: s[i] = <<a, i>>
  OBVIOUS
<1> HIDE DEF s
<1>6. Once(s)
  <2> SUFFICES ASSUME NEW i \in 1..n, NEW j \in 1..n, s[i] = s[j] PROVE i = j
    BY <1>4 DEF Once
  <2>1. <<a, i>> = <<a, j>>
    BY <1>5
  <2> QED
    BY <2>1
<1>7. Members(s) = {<<a, i>>: i \in 1..n}
  BY <1>4, <1>5 DEF Members
<1> QED
  BY <1>2, <1>4, <1>6, <1>7

-----------------------------------------------------------------------------
(* More sums *)

\* What another member adds.
LEMMA SumAdds ==
  ASSUME NEW f, NEW S, NEW x, x \notin S, Weighs(f, S \cup {x})
  PROVE  /\ SumFunctionOnSet(f, S \cup {x}) = SumFunctionOnSet(f, S) + f[x]
         /\ SumFunctionOnSet(f, S) \in Nat /\ f[x] \in Nat
<1>1. (S \cup {x}) \ {x} = S /\ x \in S \cup {x}
  OBVIOUS
<1>2. SumFunctionOnSet(f, S \cup {x}) = f[x] + SumFunctionOnSet(f, (S \cup {x}) \ {x})
  BY <1>1, SumTakes
<1>3. Weighs(f, S)
  <2>1. IsFiniteSet(S)
    BY FS_Subset DEF Weighs
  <2> QED
    BY <2>1 DEF Weighs
<1>4. SumFunctionOnSet(f, S) \in Nat /\ f[x] \in Nat
  <2>1. f[x] \in Nat
    BY <1>1 DEF Weighs
  <2> QED
    BY <1>3, <2>1, SumTakes
<1>5. SumFunctionOnSet(f, S \cup {x}) = f[x] + SumFunctionOnSet(f, S)
  BY <1>1, <1>2
<1> QED
  BY <1>4, <1>5

\* A larger set has no smaller sum, and the same one if what it has more weighs nothing.
LEMMA SumGrows ==
  ASSUME NEW f, NEW S, Weighs(f, S), NEW T \in SUBSET S
  PROVE  /\ SumFunctionOnSet(f, T) <= SumFunctionOnSet(f, S)
         /\ (\A x \in S \ T: f[x] = 0) => SumFunctionOnSet(f, T) = SumFunctionOnSet(f, S)
<1> DEFINE Sum(U) == SumFunctionOnSet(f, U)
           Fine(U) == Sum(T) <= Sum(U) /\ ((\A x \in U \ T: f[x] = 0) => Sum(T) = Sum(U))
           R == {U \in SUBSET S: T \subseteq U /\ ~Fine(U)}
           C == {Cardinality(U): U \in R}
<1>1. SUFFICES ASSUME R # {} PROVE FALSE
  BY S \in SUBSET S
<1>2. C \subseteq Nat /\ C # {}
  <2>1. \A U \in R: U \in SUBSET S
    OBVIOUS
  <2> HIDE DEF R
  <2> QED
    BY <2>1, <1>1, SubsetsOf DEF Weighs
<1>3. PICK c \in C: \A d \in C: c <= d
  <2> HIDE DEF C
  <2> QED
    BY <1>2, LeastNat
<1>4. PICK U \in R: c = Cardinality(U)
  OBVIOUS
<1>5. \A V \in R: Cardinality(U) <= Cardinality(V)
  BY <1>3, <1>4
<1>6. U \in SUBSET S /\ T \subseteq U /\ ~Fine(U)
  BY <1>4
<1>7. \A V \in SUBSET S: Sum(V) \in Nat
  <2> SUFFICES ASSUME NEW V \in SUBSET S PROVE Sum(V) \in Nat
    OBVIOUS
  <2>1. Weighs(f, V)
    BY SubsetsOf DEF Weighs
  <2> QED
    BY <2>1, SumTakes
<1>8. U # T
  <2>1. Sum(T) <= Sum(T)
    BY <1>7, T \in SUBSET S
  <2> QED
    BY <2>1, <1>6
<1>9. PICK x \in U: x \notin T
  BY <1>6, <1>8
<1> DEFINE V == U \ {x}
<1>10. V \in SUBSET S /\ T \subseteq V /\ Cardinality(V) = Cardinality(U) - 1 /\ Cardinality(U) \in Nat
  BY <1>6, <1>9, SubsetsOf DEF Weighs
<1>11. Fine(V)
  <2>1. V \notin R
    <3> HIDE DEF R, V
    <3> QED
      BY <1>10, <1>5
  <2> HIDE DEF V, Fine
  <2> QED
    BY <2>1, <1>10
<1>12. Sum(U) = f[x] + Sum(V) /\ f[x] \in Nat
  <2>1. Weighs(f, U)
    BY <1>6, SubsetsOf DEF Weighs
  <2> QED
    BY <2>1, <1>9, SumTakes DEF Weighs
<1>13. Sum(T) \in Nat /\ Sum(V) \in Nat /\ Sum(U) \in Nat
  BY <1>6, <1>7, <1>10
<1>14. Sum(T) <= Sum(V) /\ ((\A y \in V \ T: f[y] = 0) => Sum(T) = Sum(V))
  BY <1>11
<1>15. (\A y \in U \ T: f[y] = 0) => f[x] = 0 /\ \A y \in V \ T: f[y] = 0
  BY <1>9
<1> HIDE DEF Sum, V
<1>16. Sum(T) <= Sum(U)
  BY <1>12, <1>13, <1>14
<1>17. (\A y \in U \ T: f[y] = 0) => Sum(T) = Sum(U)
  BY <1>12, <1>13, <1>14, <1>15
<1> QED
  BY <1>6, <1>16, <1>17

-----------------------------------------------------------------------------
(* Values *)

Storable == {"str", "arr", "ref"}
IsEmpty(s) == s.kind = "arr" /\ Elements(s.els) = {}
IsBucket(e) == e = [h |-> e.h, key |-> e.key, val |-> e.val]
IsKeyed(e) == e.val.type # "undef" /\ e.key # None

\* What is known of a bucket of a value.
LEMMA SlotFacts ==
  ASSUME NEW m, IsValue(m), NEW p \in DOMAIN m, NEW i \in DOMAIN m[p].els
  PROVE  LET e == m[p].els[i]
             z == e.val
         IN /\ IsBucket(e) /\ z = [type |-> z.type, p |-> z.p]
            /\ e.h \in Int /\ e.h <= MaxLong /\ (e.key = None \/ e.key \in Keys)
            /\ i \in Nat /\ i > 0 /\ i <= MaxLong /\ z.p \in Nat
            /\ Flat(z) => z.p = 0
            /\ ~Flat(z) => z.type = "indirect" \/ (z.p \in DOMAIN m \ {0} /\ m[z.p].kind = z.type)
            /\ z.type \in {"undef", "long", "indirect", "str", "arr", "ref", "obj", "res"}
            /\ m[p].kind \in {"zval", "arr", "ref"}
            /\ m[p].kind # "arr" => i = 1 /\ e.key = None /\ z.type \notin {"ref", "indirect"}
            /\ m[p].packed => e.key = None
<1> DEFINE e == m[p].els[i]
           z == e.val
<1>1. /\ DOMAIN m \subseteq Nat
      /\ m[p].kind \in {"zval", "str", "arr", "ref", "obj", "res"}
      /\ m[p].els \in Seq(Buckets(m)) /\ Len(m[p].els) <= MaxLong
      /\ m[p].kind \in {"zval", "ref"} =>
           /\ Len(m[p].els) = 1 /\ m[p].els[1].key = None
           /\ m[p].els[1].val.type \notin {"ref", "indirect"}
      /\ m[p].kind \in {"str", "obj", "res"} => m[p].els = << >>
      /\ m[p].packed => m[p].els[i].key = None
  BY DEF IsValue
<1>2. DOMAIN m[p].els = 1..Len(m[p].els) /\ Len(m[p].els) \in Nat /\ e \in Buckets(m)
  BY <1>1
<1>3. /\ IsBucket(e) /\ e.h \in Int /\ e.h <= MaxLong /\ (e.key = None \/ e.key \in Keys) /\ z \in Zvals(m)
  BY <1>2, SizeAssumption DEF Buckets, IsBucket
<1>4. i \in Nat /\ i > 0 /\ i <= MaxLong
  BY <1>1, <1>2, SizeAssumption
<1>5. \/ z \in [type: {"undef", "long", "indirect"}, p: {0}]
      \/ \E q \in DOMAIN m \ {0}: z = [type |-> m[q].kind, p |-> q]
  BY <1>3 DEF Zvals
<1>6. \A q \in DOMAIN m \ {0}: m[q].kind \in {"str", "arr", "ref", "obj", "res"}
  BY DEF IsValue
<1> DEFINE Fine(y) ==
      /\ y = [type |-> y.type, p |-> y.p] /\ y.p \in Nat
      /\ Flat(y) => y.p = 0
      /\ ~Flat(y) => y.type = "indirect" \/ (y.p \in DOMAIN m \ {0} /\ m[y.p].kind = y.type)
      /\ y.type \in {"undef", "long", "indirect", "str", "arr", "ref", "obj", "res"}
<1>7. Fine(z)
  <2>1. CASE z \in [type: {"undef", "long", "indirect"}, p: {0}]
    BY <2>1 DEF Flat
  <2>2. ASSUME NEW q \in DOMAIN m \ {0}, z = [type |-> m[q].kind, p |-> q] PROVE Fine(z)
    <3>1. z.p = q /\ z.type = m[q].kind /\ q \in Nat
      BY <2>2, <1>1
    <3> HIDE DEF z
    <3> QED
      BY <3>1, <1>6, <2>2 DEF Flat
  <2> HIDE DEF z, Fine
  <2> QED
    BY <1>5, <2>1, <2>2
<1>8. m[p].kind \in {"zval", "arr", "ref"}
  <2>1. m[p].els # << >>
    BY <1>2
  <2> QED
    BY <2>1, <1>1
<1>9. m[p].kind # "arr" => i = 1 /\ e.key = None /\ z.type \notin {"ref", "indirect"}
  <2>1. m[p].kind # "arr" => i = 1
    BY <1>1, <1>2, <1>8
  <2> QED
    BY <2>1, <1>1, <1>8
<1> HIDE DEF z, e
<1>10. m[p].packed => e.key = None
  BY <1>1 DEF e
<1> QED
  BY <1>3, <1>4, <1>7, <1>8, <1>9, <1>10 DEF z, e

\* What is known of a structure of a value.
LEMMA ValueFacts ==
  ASSUME NEW m, IsValue(m)
  PROVE  /\ IsFiniteSet(DOMAIN m) /\ DOMAIN m \subseteq Nat /\ 0 \in DOMAIN m
         /\ m[0].kind = "zval" /\ DOMAIN m[0].els = {1}
         /\ \A p \in DOMAIN m:
              /\ m[p].els \in Seq(Buckets(m))
              /\ DOMAIN m[p].els = 1..Len(m[p].els) /\ Len(m[p].els) \in Nat
              /\ m[p].len \in Nat /\ m[p].packed \in BOOLEAN /\ (m[p].packed => m[p].kind = "arr")
              /\ m[p].kind \in {"zval", "str", "arr", "ref", "obj", "res"} /\ (m[p].kind = "zval" <=> p = 0)
              /\ Len(m[p].els) <= MaxLong
              /\ m[p].kind = "str" => m[p].els = << >> /\ DOMAIN m[p].els = {}
              /\ m[p].kind \in {"ref", "zval"} => DOMAIN m[p].els = {1}
<1>1. /\ IsFiniteSet(DOMAIN m) /\ DOMAIN m \subseteq Nat /\ 0 \in DOMAIN m /\ m[0].kind = "zval"
  BY DEF IsValue
<1>2. ASSUME NEW p \in DOMAIN m
      PROVE  /\ m[p].els \in Seq(Buckets(m)) /\ m[p].len \in Nat /\ m[p].packed \in BOOLEAN
             /\ m[p].packed => m[p].kind = "arr"
             /\ m[p].kind \in {"zval", "str", "arr", "ref", "obj", "res"} /\ (m[p].kind = "zval" <=> p = 0)
             /\ Len(m[p].els) <= MaxLong
             /\ DOMAIN m[p].els = 1..Len(m[p].els) /\ Len(m[p].els) \in Nat
             /\ m[p].kind = "str" => m[p].els = << >> /\ DOMAIN m[p].els = {}
             /\ m[p].kind \in {"ref", "zval"} => DOMAIN m[p].els = {1}
  <2>1. /\ m[p].els \in Seq(Buckets(m)) /\ m[p].len \in Nat /\ m[p].packed \in BOOLEAN
        /\ m[p].packed => m[p].kind = "arr"
        /\ m[p].kind \in {"zval", "str", "arr", "ref", "obj", "res"} /\ (m[p].kind = "zval" <=> p = 0)
        /\ Len(m[p].els) <= MaxLong
        /\ m[p].kind = "str" => m[p].els = << >>
        /\ m[p].kind \in {"ref", "zval"} => Len(m[p].els) = 1
    BY DEF IsValue
  <2>2. DOMAIN m[p].els = 1..Len(m[p].els) /\ Len(m[p].els) \in Nat
    BY <2>1
  <2>3. 1..1 = {1} /\ DOMAIN << >> = {}
    OBVIOUS
  <2> QED
    BY <2>1, <2>2, <2>3
<1> QED
  BY <1>1, <1>2

\* The zvals of structures.
Slots(m, S) == {x \in S \X Nat: x[2] \in DOMAIN m[x[1]].els}
Keyed(m, S) == {x \in Slots(m, S \cup {0}): IsKeyed(m[x[1]].els[x[2]])}

\* The zvals of the structures S are their elements, by address and index.
LEMMA SlotIn ==
  ASSUME NEW m, IsValue(m), NEW S, S \subseteq DOMAIN m
  PROVE  /\ \A p, i: <<p, i>> \in Slots(m, S) <=> p \in S /\ i \in DOMAIN m[p].els
         /\ \A x \in Slots(m, S): x = <<x[1], x[2]>> /\ x[1] \in S /\ x[2] \in DOMAIN m[x[1]].els
<1>1. \A p \in S: \A i \in DOMAIN m[p].els: i \in Nat
  BY ValueFacts
<1> QED
  BY <1>1 DEF Slots

\* There are finitely many.
LEMMA SlotsFinite ==
  ASSUME NEW m, IsValue(m), NEW S, S \subseteq DOMAIN m
  PROVE  /\ IsFiniteSet(S) /\ IsFiniteSet(Slots(m, S)) /\ IsFiniteSet(Keyed(m, S))
         /\ IsFiniteSet(Slots(m, S \cup {0}))
<1>1. IsFiniteSet(S) /\ IsFiniteSet(S \cup {0}) /\ S \cup {0} \subseteq DOMAIN m
  <2>1. IsFiniteSet(DOMAIN m) /\ 0 \in DOMAIN m
    BY ValueFacts
  <2> QED
    BY <2>1, FS_Subset
<1>2. IsFiniteSet(1..MaxLong)
  BY SizeAssumption, FS_Interval
<1>3. ASSUME NEW T, T \subseteq DOMAIN m, IsFiniteSet(T) PROVE IsFiniteSet(Slots(m, T))
  <2>1. IsFiniteSet(T \X (1..MaxLong))
    BY <1>2, <1>3, FS_Product
  <2>2. Slots(m, T) \subseteq T \X (1..MaxLong)
    <3> SUFFICES ASSUME NEW x \in Slots(m, T) PROVE x \in T \X (1..MaxLong)
      OBVIOUS
    <3>1. x = <<x[1], x[2]>> /\ x[1] \in T /\ x[2] \in DOMAIN m[x[1]].els
      BY <1>3, SlotIn
    <3>2. x[2] \in Nat /\ x[2] > 0 /\ x[2] <= MaxLong
      BY <3>1, <1>3, SlotFacts
    <3>3. x[2] \in 1..MaxLong
      BY <3>2, SizeAssumption
    <3> QED
      BY <3>1, <3>3
  <2> QED
    BY <2>1, <2>2, FS_Subset
<1>4. IsFiniteSet(Slots(m, S)) /\ IsFiniteSet(Slots(m, S \cup {0}))
  BY <1>1, <1>3
<1>5. Keyed(m, S) \subseteq Slots(m, S \cup {0})
  BY DEF Keyed
<1> QED
  BY <1>1, <1>4, <1>5, FS_Subset

-----------------------------------------------------------------------------
(* Sizes *)

Weights(m) == [p \in DOMAIN m |-> IF m[p].kind \in Storable THEN Weight(m[p]) ELSE 0]
\* The entry, structures and keys.
SizeOf(m, S, K) ==
  EntrySize + SumFunctionOnSet(Weights(m), S) + StrSize(KeyLen) * Cardinality(K)
KeySize(e) == IF IsKeyed(e) THEN StrSize(KeyLen) ELSE 0

\* Sizes are naturals, and nothing that is stored has the size 0.
LEMMA SizeNumbers ==
  /\ \A n \in Nat: StrSize(n) \in Nat /\ StrSize(n) > 0
  /\ \A n \in Nat, packed \in BOOLEAN: DataSize(packed, n) \in Nat /\ DataSize(packed, n) > 0
  /\ HtSize \in Nat /\ HtSize > 0 /\ RefSize \in Nat /\ RefSize > 0 /\ KeyLen \in Nat /\ SerLen \in Nat
<1>1. \A n \in Nat: StrSize(n) \in Nat /\ StrSize(n) > 0
  BY DEF StrSize
<1>2. \A n \in Nat, packed \in BOOLEAN: DataSize(packed, n) \in Nat /\ DataSize(packed, n) > 0
  BY DEF DataSize
<1> QED
  BY <1>1, <1>2 DEF HtSize, RefSize, KeyLen, SerLen

\* What each kind of structure adds to the size of the block.
LEMMA WeightFacts ==
  ASSUME NEW m, IsValue(m), NEW S, S \subseteq DOMAIN m
  PROVE  /\ Weighs(Weights(m), S)
         /\ \A p \in DOMAIN m:
              /\ Weights(m)[p] \in Nat
              /\ IsEmpty(m[p]) => Weights(m)[p] = 0
              /\ m[p].kind \in Storable => Weights(m)[p] = Weight(m[p])
              /\ m[p].kind = "str" => Weights(m)[p] = StrSize(m[p].len)
              /\ m[p].kind = "ref" => Weights(m)[p] = RefSize
              /\ m[p].kind = "arr" /\ ~IsEmpty(m[p]) =>
                   Weights(m)[p] = HtSize + DataSize(m[p].packed, Len(m[p].els))
<1>1. ASSUME NEW p \in DOMAIN m PROVE
              /\ Weights(m)[p] \in Nat
              /\ IsEmpty(m[p]) => Weights(m)[p] = 0
              /\ m[p].kind \in Storable => Weights(m)[p] = Weight(m[p])
              /\ m[p].kind = "str" => Weights(m)[p] = StrSize(m[p].len)
              /\ m[p].kind = "ref" => Weights(m)[p] = RefSize
              /\ m[p].kind = "arr" /\ ~IsEmpty(m[p]) =>
                   Weights(m)[p] = HtSize + DataSize(m[p].packed, Len(m[p].els))
  <2>1. m[p].len \in Nat /\ m[p].packed \in BOOLEAN /\ Len(m[p].els) \in Nat
    BY ValueFacts
  <2>2. Weights(m)[p] = IF m[p].kind \in Storable THEN Weight(m[p]) ELSE 0
    BY DEF Weights
  <2>3. CASE m[p].kind \notin Storable
    BY <2>2, <2>3 DEF Storable, IsEmpty
  <2>4. CASE m[p].kind = "str"
    <3>1. Weight(m[p]) = StrSize(m[p].len)
      BY <2>4 DEF Weight
    <3> QED
      BY <3>1, <2>1, <2>2, <2>4, SizeNumbers DEF Storable, IsEmpty
  <2>5. CASE m[p].kind = "ref"
    <3>1. Weight(m[p]) = RefSize
      BY <2>5 DEF Weight
    <3> QED
      BY <3>1, <2>1, <2>2, <2>5, SizeNumbers DEF Storable, IsEmpty
  <2>6. CASE m[p].kind = "arr"
    <3>1. Weight(m[p]) = IF IsEmpty(m[p]) THEN 0 ELSE HtSize + DataSize(m[p].packed, Len(m[p].els))
      BY <2>6 DEF Weight, IsEmpty
    <3>2. DataSize(m[p].packed, Len(m[p].els)) \in Nat /\ HtSize \in Nat
      BY <2>1, SizeNumbers
    <3> QED
      BY <3>1, <3>2, <2>2, <2>6 DEF Storable, IsEmpty
  <2> QED
    BY <2>3, <2>4, <2>5, <2>6 DEF Storable
<1>2. IsFiniteSet(S)
  BY SlotsFinite
<1> QED
  BY <1>1, <1>2 DEF Weighs

\* The size of a part of a value is at least that of the entry.
LEMMA SizeIsNat ==
  ASSUME NEW m, IsValue(m), NEW S, S \subseteq DOMAIN m, NEW K, IsFiniteSet(K)
  PROVE  SizeOf(m, S, K) \in Nat /\ SizeOf(m, S, K) >= EntrySize
<1> DEFINE sum == SumFunctionOnSet(Weights(m), S)
<1>1. sum \in Nat
  BY WeightFacts, SumTakes
<1>2. Cardinality(K) \in Nat
  BY FS_CardinalityType
<1>3. StrSize(KeyLen) = 4 /\ EntrySize \in Nat
  BY SizeAssumption DEF StrSize, KeyLen
<1> HIDE DEF sum
<1>4. EntrySize + sum + 4 * Cardinality(K) \in Nat /\ EntrySize + sum + 4 * Cardinality(K) >= EntrySize
  BY <1>1, <1>2, <1>3
<1> QED
  BY <1>4, <1>3 DEF SizeOf, sum

\* The entry is what is counted at first (apc_persist_calc, the first line of apc_persist).
LEMMA SizeOfNothing ==
  ASSUME NEW m, IsValue(m)
  PROVE  SizeOf(m, {}, {}) = EntrySize
<1>1. SumFunctionOnSet(Weights(m), {}) = 0
  <2>1. Weighs(Weights(m), {})
    BY WeightFacts
  <2> QED
    BY <2>1, SumTakes
<1>2. Cardinality({}) = 0
  BY FS_EmptySet
<1>3. StrSize(KeyLen) = 4 /\ EntrySize \in Nat
  BY SizeAssumption DEF StrSize, KeyLen
<1> QED
  BY <1>1, <1>2, <1>3 DEF SizeOf

\* Another string key adds its bytes.
LEMMA SizeKey ==
  ASSUME NEW m, IsValue(m), NEW S, S \subseteq DOMAIN m, NEW K, IsFiniteSet(K), NEW x, x \notin K
  PROVE  SizeOf(m, S, K) \in Nat /\ SizeOf(m, S, K \cup {x}) = SizeOf(m, S, K) + StrSize(KeyLen)
<1> DEFINE sum == SumFunctionOnSet(Weights(m), S)
<1>1. sum \in Nat
  BY WeightFacts, SumTakes
<1>2. Cardinality(K) \in Nat /\ Cardinality(K \cup {x}) = Cardinality(K) + 1
  BY FS_CardinalityType, FS_AddElement
<1>3. StrSize(KeyLen) = 4 /\ EntrySize \in Nat
  BY SizeAssumption DEF StrSize, KeyLen
<1> HIDE DEF sum
<1>4. EntrySize + sum + 4 * (Cardinality(K) + 1) = EntrySize + sum + 4 * Cardinality(K) + 4
  BY <1>1, <1>2, <1>3
<1>5. SizeOf(m, S, K) \in Nat
  BY SizeIsNat
<1> QED
  BY <1>2, <1>3, <1>4, <1>5 DEF SizeOf, sum

\* Another structure adds its weight.
LEMMA SizeStructure ==
  ASSUME NEW m, IsValue(m), NEW S, S \subseteq DOMAIN m, NEW K, IsFiniteSet(K),
         NEW p, p \in DOMAIN m, p \notin S
  PROVE  /\ SizeOf(m, S, K) \in Nat /\ Weights(m)[p] \in Nat
         /\ SizeOf(m, S \cup {p}, K) = SizeOf(m, S, K) + Weights(m)[p]
<1> DEFINE sum == SumFunctionOnSet(Weights(m), S)
           w == Weights(m)[p]
<1>1. SumFunctionOnSet(Weights(m), S \cup {p}) = sum + w /\ w \in Nat /\ sum \in Nat
  <2>1. Weighs(Weights(m), S \cup {p})
    BY WeightFacts
  <2> QED
    BY <2>1, SumAdds
<1>2. Cardinality(K) \in Nat
  BY FS_CardinalityType
<1>3. StrSize(KeyLen) = 4 /\ EntrySize \in Nat
  BY SizeAssumption DEF StrSize, KeyLen
<1> HIDE DEF sum, w
<1>4. EntrySize + (sum + w) + 4 * Cardinality(K) = EntrySize + sum + 4 * Cardinality(K) + w
  BY <1>1, <1>2, <1>3
<1>5. SizeOf(m, S, K) \in Nat
  BY SizeIsNat
<1> QED
  BY <1>1, <1>3, <1>4, <1>5 DEF SizeOf, sum, w

\* Fewer structures and keys take no more, and as much if the others weigh nothing.
LEMMA SizeGrows ==
  ASSUME NEW m, IsValue(m), NEW S, S \subseteq DOMAIN m, NEW K, IsFiniteSet(K),
         NEW T \in SUBSET S, NEW L \in SUBSET K
  PROVE  /\ SizeOf(m, T, L) <= SizeOf(m, S, K)
         /\ L = K /\ (\A p \in S \ T: Weights(m)[p] = 0) => SizeOf(m, T, L) = SizeOf(m, S, K)
<1> DEFINE f == Weights(m)
           s == SumFunctionOnSet(f, S)
           t == SumFunctionOnSet(f, T)
<1>1. Weighs(f, S) /\ Weighs(f, T)
  BY WeightFacts
<1>2. t <= s /\ ((\A p \in S \ T: f[p] = 0) => t = s)
  <2> HIDE DEF f
  <2> QED
    BY <1>1, SumGrows
<1>3. s \in Nat /\ t \in Nat
  BY <1>1, SumTakes
<1>4. Cardinality(L) <= Cardinality(K) /\ Cardinality(L) \in Nat /\ Cardinality(K) \in Nat
  BY SubsetsOf
<1>5. StrSize(KeyLen) = 4 /\ EntrySize \in Nat
  BY SizeAssumption DEF StrSize, KeyLen
<1> HIDE DEF s, t
<1>6. EntrySize + t + 4 * Cardinality(L) <= EntrySize + s + 4 * Cardinality(K)
  BY <1>2, <1>3, <1>4, <1>5
<1> QED
  BY <1>2, <1>5, <1>6 DEF SizeOf, s, t

-----------------------------------------------------------------------------
(* The pass that adds up the size *)

Reaches(z, S) == Flat(z) \/ (z.type \in Storable /\ z.p \in S)
\* The structures S and the variable lead to no others, but for the zvals R.
ReachedBut(m, S, R) ==
  \A p \in S \cup {0}: \A i \in DOMAIN m[p].els: <<p, i>> \in R \/ Reaches(m[p].els[i].val, S)
Least(m, S) == \A T \in SUBSET DOMAIN m: ReachedBut(m, T, {}) => S \subseteq T
Structures(m, S) == S \subseteq DOMAIN m \ {0} /\ \A p \in S: m[p].kind \in Storable

\* c is the sum of a and b.
AddsUp(a, b, c) == a \in Nat /\ b \in Nat /\ c = a + b
\* The size when the zvals R have not been come to.
Counted(m, S, R) == SizeOf(m, S, Keyed(m, S) \ R)
\* The structures S are counted, the zvals R are not.
Pass(m, S, R, size) ==
  /\ Structures(m, S) /\ R \subseteq Slots(m, S \cup {0})
  /\ ReachedBut(m, S, R) /\ Least(m, S)
  /\ size = Counted(m, S, R)

\* The variable's own zval.
LEMMA RootSlot ==
  ASSUME NEW m, IsValue(m)
  PROVE  Slots(m, {0}) = {<<0, 1>>} /\ Slots(m, {} \cup {0}) = {<<0, 1>>} /\ Keyed(m, {}) = {}
<1>1. 0 \in DOMAIN m /\ DOMAIN m[0].els = {1} /\ m[0].kind = "zval"
  BY ValueFacts
<1>2. Slots(m, {0}) = {<<0, 1>>} /\ Slots(m, {} \cup {0}) = {<<0, 1>>}
  <2>1. \A x \in Slots(m, {0}): x = <<0, 1>>
    BY <1>1, SlotIn
  <2>2. <<0, 1>> \in Slots(m, {0})
    BY <1>1, SlotIn
  <2>3. {} \cup {0} = {0}
    OBVIOUS
  <2> QED
    BY <2>1, <2>2, <2>3
<1>3. m[0].els[1].key = None
  BY <1>1, SlotFacts
<1> QED
  BY <1>2, <1>3 DEF Keyed, IsKeyed

\* The pass begins with the variable's own zval.
LEMMA PassStart ==
  ASSUME NEW m, IsValue(m)
  PROVE  Pass(m, {}, {<<0, 1>>}, EntrySize)
<1>1. SizeOf(m, {}, {}) = EntrySize
  BY SizeOfNothing
<1>2. Keyed(m, {}) \ {<<0, 1>>} = {}
  BY RootSlot
<1>3. ReachedBut(m, {}, {<<0, 1>>})
  BY ValueFacts DEF ReachedBut
<1> QED
  BY <1>1, <1>2, <1>3, RootSlot DEF Pass, Structures, Least, Counted

\* A zval of R is come to.
LEMMA PassItem ==
  ASSUME NEW m, IsValue(m), NEW S, NEW R, NEW n, Pass(m, S, R, n), NEW x \in R
  PROVE  /\ x = <<x[1], x[2]>> /\ x[1] \in S \cup {0} /\ x[1] \in DOMAIN m /\ x[2] \in DOMAIN m[x[1]].els
         /\ S \subseteq DOMAIN m /\ 0 \notin S /\ n \in Nat /\ x \in Slots(m, S \cup {0})
<1>1. S \subseteq DOMAIN m /\ 0 \notin S /\ S \cup {0} \subseteq DOMAIN m /\ x \in Slots(m, S \cup {0})
  BY ValueFacts DEF Pass, Structures
<1>2. IsFiniteSet(Keyed(m, S) \ R)
  BY <1>1, SlotsFinite, FS_Subset
<1>3. n \in Nat
  BY <1>1, <1>2, SizeIsNat DEF Pass, Counted
<1> QED
  BY <1>1, <1>3, SlotIn

\* The key of a zval that has been come to counts.
LEMMA KeyCounts ==
  ASSUME NEW m, IsValue(m), NEW S, S \subseteq DOMAIN m, NEW R, NEW x, x \in R, x \in Slots(m, S \cup {0})
  PROVE  AddsUp(Counted(m, S, R), KeySize(m[x[1]].els[x[2]]), Counted(m, S, R \ {x}))
<1> DEFINE K == Keyed(m, S) \ R
           L == Keyed(m, S) \ (R \ {x})
           e == m[x[1]].els[x[2]]
<1>1. IsFiniteSet(K) /\ IsFiniteSet(L)
  BY SlotsFinite, FS_Subset
<1>2. SizeOf(m, S, K) \in Nat
  BY <1>1, SizeIsNat
<1>3. KeySize(e) \in Nat /\ (~IsKeyed(e) => KeySize(e) = 0) /\ (IsKeyed(e) => KeySize(e) = StrSize(KeyLen))
  BY SizeNumbers DEF KeySize
<1>4. ASSUME IsKeyed(e) PROVE SizeOf(m, S, L) = SizeOf(m, S, K) + KeySize(e)
  <2>1. x \notin K /\ L = K \cup {x}
    BY <1>4 DEF Keyed
  <2> HIDE DEF K, L, e
  <2>2. SizeOf(m, S, K \cup {x}) = SizeOf(m, S, K) + StrSize(KeyLen)
    BY <2>1, <1>1, SizeKey
  <2> QED
    BY <2>1, <2>2, <1>3, <1>4
<1>5. ASSUME ~IsKeyed(e) PROVE SizeOf(m, S, L) = SizeOf(m, S, K) + KeySize(e)
  <2>1. L = K
    BY <1>5 DEF Keyed
  <2> HIDE DEF K, L, e
  <2> QED
    BY <2>1, <1>2, <1>3, <1>5
<1> HIDE DEF e
<1> QED
  BY <1>2, <1>3, <1>4, <1>5 DEF Counted, e, AddsUp

\* So does a structure, if the zvals in it have yet to be come to or have no key.
LEMMA WeightCounts ==
  ASSUME NEW m, IsValue(m), NEW S, S \subseteq DOMAIN m, NEW R, NEW T,
         NEW q, q \in DOMAIN m, q \notin S, m[q].kind \in Storable,
         Keyed(m, S \cup {q}) \ T = Keyed(m, S) \ R
  PROVE  AddsUp(Counted(m, S, R), Weight(m[q]), Counted(m, S \cup {q}, T))
<1> DEFINE K == Keyed(m, S) \ R
<1>1. Weights(m)[q] = Weight(m[q])
  BY WeightFacts
<1>2. IsFiniteSet(K)
  BY SlotsFinite, FS_Subset
<1> HIDE DEF K
<1>3. SizeOf(m, S, K) \in Nat /\ Weights(m)[q] \in Nat
  BY <1>2, SizeStructure
<1>4. SizeOf(m, S \cup {q}, K) = SizeOf(m, S, K) + Weights(m)[q]
  BY <1>2, SizeStructure
<1> QED
  BY <1>1, <1>3, <1>4 DEF Counted, K, AddsUp

\* A zval that leads to nothing new.
LEMMA PassReached ==
  ASSUME NEW m, IsValue(m), NEW S, NEW R, NEW n, Pass(m, S, R, n), NEW x \in R,
         Reaches(m[x[1]].els[x[2]].val, S)
  PROVE  Pass(m, S, R \ {x}, n + KeySize(m[x[1]].els[x[2]]))
<1>1. /\ x = <<x[1], x[2]>> /\ S \subseteq DOMAIN m /\ x \in Slots(m, S \cup {0})
      /\ x[1] \in S \cup {0} /\ x[2] \in DOMAIN m[x[1]].els
  BY PassItem
<1>2. AddsUp(Counted(m, S, R), KeySize(m[x[1]].els[x[2]]), Counted(m, S, R \ {x}))
  BY <1>1, KeyCounts
<1>3. ReachedBut(m, S, R \ {x})
  <2> SUFFICES ASSUME NEW p \in S \cup {0}, NEW i \in DOMAIN m[p].els, ~Reaches(m[p].els[i].val, S)
               PROVE  <<p, i>> \in R \ {x}
    BY DEF ReachedBut
  <2>1. <<p, i>> \in R
    BY DEF Pass, ReachedBut
  <2>2. <<p, i>> # x
    OBVIOUS
  <2> QED
    BY <2>1, <2>2
<1> QED
  BY <1>2, <1>3 DEF Pass, AddsUp

\* What the pass goes on with inside a structure: elements of an empty array are holes.
LEMMA InsideHolds ==
  ASSUME NEW m, IsValue(m), NEW q \in DOMAIN m, q # 0
  PROVE  /\ Each(q, Inside(m[q])) \in Seq(Nat \X Nat) /\ Once(Each(q, Inside(m[q])))
         /\ Members(Each(q, Inside(m[q]))) \subseteq Slots(m, {q})
         /\ \A i \in DOMAIN m[q].els:
              \/ <<q, i>> \in Members(Each(q, Inside(m[q])))
              \/ IsEmpty(m[q]) /\ m[q].els[i].val.type = "undef"
<1>1. q \in Nat /\ DOMAIN m[q].els = 1..Len(m[q].els) /\ Len(m[q].els) \in Nat /\ {q} \subseteq DOMAIN m
  BY ValueFacts
<1>2. Inside(m[q]) = IF IsEmpty(m[q]) THEN << >> ELSE m[q].els
  BY DEF Inside, IsEmpty
<1>3. PICK n \in Nat: DOMAIN Inside(m[q]) = 1..n
  <2>1. DOMAIN << >> = 1..0
    OBVIOUS
  <2> QED
    BY <2>1, <1>1, <1>2
<1>4. /\ Each(q, Inside(m[q])) \in Seq(Nat \X Nat) /\ Once(Each(q, Inside(m[q])))
      /\ Members(Each(q, Inside(m[q]))) = {<<q, i>>: i \in DOMAIN Inside(m[q])}
  BY <1>1, <1>3, EachMembers
<1>5. DOMAIN << >> = {}
  OBVIOUS
<1>6. DOMAIN Inside(m[q]) \subseteq DOMAIN m[q].els
  BY <1>2, <1>5
<1>7. Members(Each(q, Inside(m[q]))) \subseteq Slots(m, {q})
  BY <1>1, <1>4, <1>6, SlotIn
<1>8. ASSUME NEW i \in DOMAIN m[q].els
      PROVE  \/ <<q, i>> \in Members(Each(q, Inside(m[q])))
             \/ IsEmpty(m[q]) /\ m[q].els[i].val.type = "undef"
  BY <1>2, <1>4 DEF IsEmpty, Elements
<1> QED
  BY <1>4, <1>7, <1>8

\* A zval of R leads to the structure q, which is new; more are the zvals in q.
Enters(m, S, R, n, x, q, more) ==
  /\ IsValue(m) /\ Pass(m, S, R, n) /\ x \in R
  /\ q = m[x[1]].els[x[2]].val.p /\ m[x[1]].els[x[2]].val.type \in Storable /\ q \notin S
  /\ more = Members(Each(q, Inside(m[q])))
Entered(m, S, R, n, x, q, more) ==
  /\ Pass(m, S \cup {q}, more \cup (R \ {x}), n + KeySize(m[x[1]].els[x[2]]) + Weight(m[q]))
  /\ q \in DOMAIN m \ {0} /\ more \cap R = {}

\* The pass comes to a structure for the first time: it is counted, and its elements are next.
LEMMA PassStructure ==
  ASSUME NEW m, NEW S, NEW R, NEW n, NEW x, NEW q, NEW more, Enters(m, S, R, n, x, q, more)
  PROVE  Entered(m, S, R, n, x, q, more)
<1> DEFINE e == m[x[1]].els[x[2]]
           L == Keyed(m, S) \ (R \ {x})
           S2 == S \cup {q}
           R2 == more \cup (R \ {x})
<1>16. IsValue(m) /\ Pass(m, S, R, n) /\ x \in R
  BY DEF Enters
<1>17. q = e.val.p /\ e.val.type \in Storable /\ q \notin S
  BY DEF Enters
<1>18. more = Members(Each(q, Inside(m[q])))
  BY DEF Enters
<1>1. /\ x = <<x[1], x[2]>> /\ S \subseteq DOMAIN m /\ x \in Slots(m, S \cup {0}) /\ 0 \notin S
      /\ x[1] \in S \cup {0} /\ x[1] \in DOMAIN m /\ x[2] \in DOMAIN m[x[1]].els /\ n \in Nat
  <2>1. x \in Slots(m, S \cup {0})
    BY <1>16 DEF Pass
  <2> QED
    BY <2>1, <1>16, PassItem
<1>2. q \in DOMAIN m \ {0} /\ m[q].kind \in Storable
  <2>1. ~Flat(e.val) /\ e.val.type # "indirect"
    BY <1>17 DEF Flat, Storable
  <2>2. q = m[x[1]].els[x[2]].val.p
    BY <1>17
  <2>3. m[q].kind = e.val.type /\ q \in DOMAIN m \ {0}
    BY <2>1, <2>2, <1>1, <1>16, SlotFacts
  <2> QED
    BY <2>3, <1>17
<1>3. /\ more \subseteq Slots(m, {q})
      /\ \A i \in DOMAIN m[q].els: <<q, i>> \in more \/ (IsEmpty(m[q]) /\ m[q].els[i].val.type = "undef")
  BY <1>2, <1>16, <1>18, InsideHolds
<1>4. S2 \subseteq DOMAIN m \ {0} /\ S2 \cup {0} \subseteq DOMAIN m /\ {q} \subseteq DOMAIN m
  <2>1. 0 \in DOMAIN m
    BY <1>16, ValueFacts
  <2> QED
    BY <2>1, <1>1, <1>2
<1>5. Structures(m, S2)
  BY <1>2, <1>4, <1>16 DEF Pass, Structures
<1>6. R2 \subseteq Slots(m, S2 \cup {0})
  <2>1. Slots(m, {q}) \subseteq Slots(m, S2 \cup {0}) /\ Slots(m, S \cup {0}) \subseteq Slots(m, S2 \cup {0})
    BY DEF Slots
  <2> QED
    BY <2>1, <1>3, <1>16 DEF Pass
<1>7. ReachedBut(m, S2, R2)
  <2> SUFFICES ASSUME NEW p \in S2 \cup {0}, NEW i \in DOMAIN m[p].els, ~Reaches(m[p].els[i].val, S2)
               PROVE  <<p, i>> \in R2
    BY DEF ReachedBut
  <2>1. CASE p = q
    <3>1. m[q].els[i].val.type = "undef" => Flat(m[q].els[i].val)
      BY DEF Flat
    <3> QED
      BY <3>1, <2>1, <1>3 DEF Reaches
  <2>2. CASE p # q
    <3>1. p \in S \cup {0} /\ ~Reaches(m[p].els[i].val, S)
      BY <2>2 DEF Reaches
    <3>2. <<p, i>> \in R
      BY <3>1, <1>16 DEF Pass, ReachedBut
    <3>3. Reaches(e.val, S2)
      BY <1>17 DEF Reaches
    <3>4. <<p, i>> # x
      <4>1. <<p, i>> = x => x[1] = p /\ x[2] = i
        BY <1>1
      <4> HIDE DEF S2
      <4> QED
        BY <4>1, <3>3
    <3> QED
      BY <3>2, <3>4
  <2> QED
    BY <2>1, <2>2
<1>8. Least(m, S2)
  <2> SUFFICES ASSUME NEW T \in SUBSET DOMAIN m, ReachedBut(m, T, {}) PROVE q \in T /\ S \subseteq T
    BY DEF Least
  <2>1. S \subseteq T
    BY <1>16 DEF Pass, Least
  <2>2. x[1] \in T \cup {0}
    BY <2>1, <1>1
  <2>3. Reaches(e.val, T)
    BY <2>2, <1>1 DEF ReachedBut
  <2>4. ~Flat(e.val)
    BY <1>17 DEF Flat, Storable
  <2> QED
    BY <2>1, <2>3, <2>4, <1>17 DEF Reaches
<1>9. more \cap R = {}
  <2>1. \A y \in more: y[1] = q
    BY <1>3, <1>4, <1>16, SlotIn
  <2>2. \A y \in R: y[1] \in S \cup {0}
    BY <1>16, PassItem
  <2> QED
    BY <2>1, <2>2, <1>2, <1>17
<1>11. AddsUp(Counted(m, S, R), KeySize(e), Counted(m, S, R \ {x}))
  BY <1>1, <1>16, KeyCounts
<1>10. L = Keyed(m, S2) \ R2
  <2>1. \A y \in Slots(m, S2 \cup {0}): y \in Slots(m, S \cup {0}) \/ y \in Slots(m, {q})
    BY DEF Slots
  <2>2. Slots(m, S \cup {0}) \subseteq Slots(m, S2 \cup {0})
    BY DEF Slots
  <2>3. \A y \in Slots(m, {q}): y \in more \/ ~IsKeyed(m[y[1]].els[y[2]])
    <3> SUFFICES ASSUME NEW y \in Slots(m, {q}) PROVE y \in more \/ ~IsKeyed(m[y[1]].els[y[2]])
      OBVIOUS
    <3>1. y = <<y[1], y[2]>> /\ y[1] = q /\ y[2] \in DOMAIN m[q].els
      BY <1>4, <1>16, SlotIn
    <3> QED
      BY <3>1, <1>3 DEF IsKeyed
  <2>4. more \cap Slots(m, S \cup {0}) = {}
    <3>1. \A y \in more: y[1] = q
      BY <1>3, <1>4, <1>16, SlotIn
    <3>2. \A y \in Slots(m, S \cup {0}): y[1] \in S \cup {0}
      BY DEF Slots
    <3> QED
      BY <3>1, <3>2, <1>2, <1>17
  <2>6. Keyed(m, S2) \ R2 \subseteq Keyed(m, S) \ (R \ {x})
    BY <2>1, <2>3, <2>2 DEF Keyed
  <2>7. Keyed(m, S) \ (R \ {x}) \subseteq Keyed(m, S2) \ R2
    BY <2>2, <2>4 DEF Keyed
  <2> HIDE DEF R2, S2
  <2> QED
    BY <2>6, <2>7
<1>12. AddsUp(Counted(m, S, R \ {x}), Weight(m[q]), Counted(m, S2, R2))
  <2>1. S \subseteq DOMAIN m /\ q \in DOMAIN m /\ m[q].kind \in Storable
    BY <1>1, <1>2
  <2> HIDE DEF R2, e
  <2> QED
    BY <2>1, <1>10, <1>16, <1>17, WeightCounts
<1>13. n = Counted(m, S, R)
  BY <1>16 DEF Pass
<1> HIDE DEF e, L, S2, R2
<1>14. n + KeySize(e) + Weight(m[q]) = Counted(m, S2, R2)
  BY <1>11, <1>12, <1>13 DEF AddsUp
<1>15. Pass(m, S2, R2, n + KeySize(e) + Weight(m[q]))
  BY <1>5, <1>6, <1>7, <1>8, <1>14 DEF Pass
<1> QED
  BY <1>2, <1>9, <1>15 DEF e, S2, R2, Entered

\* A flat variable leads to nothing.
LEMMA FlatAlone ==
  ASSUME NEW m, IsValue(m), NEW S, Least(m, S), Flat(m[0].els[1].val)
  PROVE  S = {}
<1>1. ReachedBut(m, {}, {})
  BY ValueFacts DEF ReachedBut, Reaches
<1> QED
  BY <1>1 DEF Least

-----------------------------------------------------------------------------
(* Contexts *)

IsContext(c) ==
  /\ c = [memo |-> c.memo, ser |-> c.ser, size |-> c.size, counted |-> c.counted, str |-> c.str,
          cur |-> c.cur, done |-> c.done]
  /\ c.memo \in BOOLEAN /\ c.ser \in BOOLEAN

\* What is set up at the start, and what the first pass does to it.
LEMMA CalcFields ==
  ASSUME NEW c, IsContext(c)
  PROVE  /\ \A n: LET d == AddSize(c, n) IN
              /\ IsContext(d) /\ d.memo = c.memo /\ d.ser = c.ser /\ d.size = c.size + n
              /\ d.counted = c.counted /\ d.str = c.str /\ d.cur = c.cur /\ d.done = c.done
         /\ \A p: LET d == CalcMemoize(c, p) IN
              /\ IsContext(d) /\ d.memo = c.memo /\ d.ser = c.ser /\ d.size = c.size
              /\ d.counted = c.counted \cup {p} /\ d.str = c.str /\ d.cur = c.cur /\ d.done = c.done
<1>1. ASSUME NEW n PROVE
        LET d == AddSize(c, n) IN
              /\ IsContext(d) /\ d.memo = c.memo /\ d.ser = c.ser /\ d.size = c.size + n
              /\ d.counted = c.counted /\ d.str = c.str /\ d.cur = c.cur /\ d.done = c.done
  BY DEF IsContext, AddSize
<1>2. ASSUME NEW p PROVE
        LET d == CalcMemoize(c, p) IN
              /\ IsContext(d) /\ d.memo = c.memo /\ d.ser = c.ser /\ d.size = c.size
              /\ d.counted = c.counted \cup {p} /\ d.str = c.str /\ d.cur = c.cur /\ d.done = c.done
  BY DEF IsContext, CalcMemoize
<1> QED
  BY <1>1, <1>2

\* A context as apc_persist_init_context leaves it.
LEMMA ContextFields ==
  ASSUME NEW memo \in BOOLEAN, NEW ser \in BOOLEAN
  PROVE  LET d == Context(memo, ser) IN
         /\ IsContext(d) /\ d.memo = memo /\ d.ser = ser /\ d.size = 0
         /\ d.counted = {} /\ d.str = None /\ d.cur = 0 /\ d.done = Nothing
BY DEF IsContext, Context

\* The key of a bucket.
LEMMA CalcKeyFields ==
  ASSUME NEW c, IsContext(c), c.size \in Nat, NEW e, e.val.type # "undef"
  PROVE  LET d == CalcKey(c, e.key) IN
         /\ IsContext(d) /\ d.memo = c.memo /\ d.ser = c.ser /\ d.size = c.size + KeySize(e)
         /\ d.counted = c.counted /\ d.str = c.str /\ d.cur = c.cur /\ d.done = c.done
<1>1. CASE e.key = None
  BY <1>1 DEF CalcKey, KeySize, IsKeyed
<1>2. CASE e.key # None
  <2>1. CalcKey(c, e.key) = AddSize(c, StrSize(KeyLen)) /\ KeySize(e) = StrSize(KeyLen)
    BY <1>2 DEF CalcKey, KeySize, IsKeyed
  <2> QED
    BY <2>1, CalcFields
<1> QED
  BY <1>1, <1>2

-----------------------------------------------------------------------------
(* Up to the copy *)

Top == input.mem[0].els[1].val
InBlock == {"copy", "value", "stored", "fetch"}

\* The serializers, the phases, and what each phase has not begun with.
SetupInv ==
  /\ input \in Cases
  /\ phase \in {"minit", "idle", "calc", "again", "recalc", "copy", "value", "stored", "fetch",
                "failed"}
  /\ booting \in BOOLEAN /\ early \in BOOLEAN
  /\ registered \subseteq {Php, External}
  /\ serializer # None => serializer = input.name /\ serializer \in registered
  /\ ~booting => serializer = Find(input.name, registered)
  /\ phase = "minit" => booting
  /\ phase \notin {"minit", "idle"} /\ ~early => ~booting
  /\ alloc \in Bases \cup {0} /\ (phase \in InBlock => alloc \in Bases)
  /\ IsContext(ctx)
  /\ phase \notin InBlock => shm = Nothing
  /\ phase # "fetch" => mem = Nothing
  /\ phase \in {"minit", "idle", "again", "failed", "stored"} => todo = << >>

\* The pass that adds up the size of a value as it is.
CalcInv ==
  phase \in {"calc", "recalc"} /\ ~ctx.ser =>
    /\ phase = "calc" /\ todo \in Seq(Nat \X Nat) /\ Once(todo)
    /\ Pass(input.mem, ctx.counted, Members(todo), ctx.size)
    /\ ~ctx.memo => Top.type # "arr" /\ (todo = << >> \/ ctx.counted = {})

\* And of a serialized one.
SerializeInv ==
  /\ phase = "again" => ~Flat(Top)
  /\ phase \in {"calc", "recalc"} /\ ctx.ser =>
       /\ ~Flat(Top) /\ todo \in {<< >>, <<<<0, 1>>>>}
       /\ ctx.size = EntrySize + IF todo = << >> THEN StrSize(SerLen) ELSE 0
       /\ todo = << >> => ctx.str = [by |-> Format, of |-> Top]

StartInv == SetupInv /\ CalcInv /\ SerializeInv

\* The input is a value.
LEMMA InputIsValue ==
  ASSUME SetupInv
  PROVE  /\ IsValue(input.mem) /\ input.name \in {None, Php, External}
         /\ input.extensions \subseteq {External}
         /\ <<0, 1>> \in Nat \X Nat
BY CaseAssumption DEF SetupInv

\* None is no serializer.
LEMMA NothingElse ==
  /\ None \notin {Php, External} /\ Php # External
BY NameAssumption

-----------------------------------------------------------------------------
(* The first pass step by step *)

\* Where a step of the pass is.
LEMMA CalcItem ==
  ASSUME StartInv, Calculating, ~ctx.ser
  PROVE  /\ phase = "calc" /\ todo \in Seq(Nat \X Nat) /\ todo # << >> /\ Once(todo)
         /\ Pass(input.mem, ctx.counted, Members(todo), ctx.size)
         /\ Item \in Members(todo) /\ Here(input.mem) = input.mem[Item[1]].els[Item[2]]
         /\ Item[1] \in DOMAIN input.mem /\ Item[2] \in DOMAIN input.mem[Item[1]].els
         /\ IsContext(ctx) /\ ctx.size \in Nat /\ ctx.counted \subseteq DOMAIN input.mem
         /\ Item = <<Item[1], Item[2]>>
         /\ ctx.counted = {} => Item = <<0, 1>> /\ todo = <<<<0, 1>>>>
<1>1. /\ phase = "calc" /\ todo \in Seq(Nat \X Nat) /\ todo # << >> /\ Once(todo) /\ IsContext(ctx)
      /\ Pass(input.mem, ctx.counted, Members(todo), ctx.size)
  BY DEF StartInv, CalcInv, SetupInv, Calculating
<1>2. Item \in Members(todo)
  BY <1>1, TailMembers DEF Item
<1>3. IsValue(input.mem)
  BY InputIsValue DEF StartInv
<1>4. /\ Item[1] \in DOMAIN input.mem /\ Item[2] \in DOMAIN input.mem[Item[1]].els
      /\ ctx.size \in Nat /\ ctx.counted \subseteq DOMAIN input.mem /\ Item = <<Item[1], Item[2]>>
  <2> DEFINE m == input.mem
             x == Item
             S == ctx.counted
             R == Members(todo)
             n == ctx.size
  <2>1. IsValue(m) /\ Pass(m, S, R, n) /\ x \in R
    BY <1>1, <1>2, <1>3
  <2> HIDE DEF m, x, S, R, n
  <2>2. /\ x = <<x[1], x[2]>> /\ x[1] \in DOMAIN m /\ x[2] \in DOMAIN m[x[1]].els
        /\ S \subseteq DOMAIN m /\ n \in Nat
    BY <2>1, PassItem
  <2> QED
    BY <2>2 DEF m, x, S, R, n
<1>5. ASSUME ctx.counted = {} PROVE Item = <<0, 1>> /\ todo = <<<<0, 1>>>>
  <2>1. Members(todo) \subseteq {<<0, 1>>}
    BY <1>1, <1>3, <1>5, RootSlot DEF Pass
  <2> QED
    BY <2>1, <1>1, OnlyMember DEF Item
<1> QED
  BY <1>1, <1>2, <1>4, <1>5 DEF Here

\* A step that leaves the setup and the block alone.
CalcQuiet == UNCHANGED <<setup, alloc, shm, mem>>

\* A step of the first pass keeps what was set up.
LEMMA CalcSetup ==
  ASSUME StartInv, CalcQuiet, IsContext(ctx'), phase \in {"calc", "recalc"},
         phase' \in {"calc", "recalc"} \/ (phase' \in {"again", "failed"} /\ todo' = << >>)
  PROVE  SetupInv'
BY DEF StartInv, SetupInv, CalcQuiet, setup, InBlock, Find, IsContext

\* A step at a zval that leads to nothing new.
LEMMA CalcReached ==
  ASSUME StartInv, Calculating, ~ctx.ser, NEW c, CalcNext(c, << >>), IsContext(c),
         Reaches(Here(input.mem).val, ctx.counted), c.size = ctx.size + KeySize(Here(input.mem)),
         c.counted = ctx.counted, ~c.ser, c.memo = ctx.memo
  PROVE  StartInv'
<1> DEFINE e == Here(input.mem)
<1>1. /\ phase = "calc" /\ todo \in Seq(Nat \X Nat) /\ todo # << >> /\ Once(todo)
      /\ Pass(input.mem, ctx.counted, Members(todo), ctx.size)
      /\ Item \in Members(todo) /\ e = input.mem[Item[1]].els[Item[2]]
      /\ ctx.counted = {} => todo = <<<<0, 1>>>>
  BY CalcItem
<1>2. IsValue(input.mem)
  BY InputIsValue DEF StartInv
<1>3. ctx' = c /\ phase' = phase /\ todo' = << >> \o Tail(todo) /\ CalcQuiet
  BY DEF CalcNext, CalcQuiet, setup
<1>4. /\ todo' \in Seq(Nat \X Nat) /\ Once(todo') /\ Members(todo') = Members(todo) \ {Item}
  <2>1. << >> \in Seq(Nat \X Nat) /\ Once(<< >>) /\ Members(<< >>) = {}
    BY <1>1, NoMembers
  <2>2. /\ todo \in Seq(Nat \X Nat) /\ todo # << >> /\ Once(todo)
        /\ Members(<< >>) \cap Members(todo) = {}
    BY <2>1, <1>1
  <2>3. /\ << >> \o Tail(todo) \in Seq(Nat \X Nat) /\ Once(<< >> \o Tail(todo))
        /\ Members(<< >> \o Tail(todo)) = Members(<< >>) \cup (Members(todo) \ {Head(todo)})
    BY <2>1, <2>2, NextMembers
  <2> QED
    BY <2>1, <2>3, <1>3 DEF Item
<1>5. Pass(input.mem, ctx.counted, Members(todo'), ctx.size + KeySize(e))
  <2>1. Reaches(input.mem[Item[1]].els[Item[2]].val, ctx.counted)
    BY <1>1
  <2>2. Pass(input.mem, ctx.counted, Members(todo) \ {Item},
             ctx.size + KeySize(input.mem[Item[1]].els[Item[2]]))
    BY <2>1, <1>1, <1>2, PassReached
  <2> QED
    BY <2>2, <1>1, <1>4
<1>6. ~ctx.memo => Top.type # "arr" /\ (todo' = << >> \/ ctx.counted = {})
  <2>1. ~ctx.memo => Top.type # "arr" /\ ctx.counted = {}
    BY <1>1 DEF StartInv, CalcInv
  <2> QED
    BY <2>1
<1>7. SetupInv'
  BY <1>1, <1>3, CalcSetup
<1>8. input' = input
  BY <1>3 DEF CalcQuiet, setup
<1> HIDE DEF e
<1>9. CalcInv'
  BY <1>1, <1>3, <1>4, <1>5, <1>6, <1>8 DEF CalcInv, Top, e
<1>10. SerializeInv'
  BY <1>1, <1>3 DEF SerializeInv
<1> QED
  BY <1>7, <1>9, <1>10 DEF StartInv

\* Each step of the first pass keeps the invariant: here a zval without data.
LEMMA CalcFlatStep ==
  ASSUME StartInv, CalcFlat
  PROVE  StartInv'
<1> DEFINE e == Here(input.mem)
           c == IF e.val.type = "undef" THEN ctx ELSE CalcKey(ctx, e.key)
<1>1. Calculating /\ Flat(e.val) /\ CalcNext(c, << >>)
  BY DEF CalcFlat
<1>2. ~ctx.ser
  <2>1. ASSUME ctx.ser PROVE FALSE
    <3>1. ~Flat(Top) /\ todo = <<<<0, 1>>>>
      BY <2>1, <1>1 DEF Calculating, StartInv, SerializeInv
    <3>2. Item = <<0, 1>>
      BY <3>1 DEF Item
    <3>3. e.val = Top
      BY <3>2 DEF Here, Top
    <3> QED
      BY <3>1, <3>3, <1>1
  <2> QED
    BY <2>1 DEF StartInv, SetupInv, IsContext
<1>3. IsContext(ctx) /\ ctx.size \in Nat
  BY <1>1, <1>2, CalcItem
<1>4. /\ IsContext(c) /\ c.size = ctx.size + KeySize(e) /\ c.counted = ctx.counted
      /\ ~c.ser /\ c.memo = ctx.memo
  <2>1. CASE e.val.type = "undef"
    BY <2>1, <1>2, <1>3 DEF KeySize, IsKeyed
  <2>2. CASE e.val.type # "undef"
    BY <2>2, <1>2, <1>3, CalcKeyFields
  <2> QED
    BY <2>1, <2>2
<1>5. Reaches(e.val, ctx.counted)
  BY <1>1 DEF Reaches
<1> HIDE DEF c
<1> QED
  BY <1>1, <1>2, <1>4, <1>5, CalcReached

\* A structure that was counted before.
LEMMA CalcAgainStep ==
  ASSUME StartInv, CalcAgain
  PROVE  StartInv'
<1> DEFINE e == Here(input.mem)
           c == CalcKey(ctx, e.key)
<1>1. /\ Calculating /\ ~ctx.ser /\ ~Flat(e.val) /\ e.val.p \in ctx.counted
      /\ CalcNext(c, << >>)
  BY DEF CalcAgain, AlreadyCounted
<1>2. /\ IsContext(ctx) /\ ctx.size \in Nat /\ ctx.counted \subseteq DOMAIN input.mem
      /\ Pass(input.mem, ctx.counted, Members(todo), ctx.size) /\ e = input.mem[Item[1]].els[Item[2]]
      /\ Item[1] \in DOMAIN input.mem /\ Item[2] \in DOMAIN input.mem[Item[1]].els
  BY <1>1, CalcItem
<1>3. IsValue(input.mem)
  BY InputIsValue DEF StartInv
<1>4. Reaches(e.val, ctx.counted)
  <2>1. input.mem[e.val.p].kind \in Storable /\ e.val.p # 0
    BY <1>1, <1>2 DEF Pass, Structures
  <2>2. \/ e.val.type = "indirect" /\ e.val.p = 0
        \/ input.mem[e.val.p].kind = e.val.type
    <3>1. e.val \in Zvals(input.mem)
      <4>1. input.mem[Item[1]].els \in Seq(Buckets(input.mem))
        BY <1>2, <1>3, ValueFacts
      <4>2. e \in Buckets(input.mem)
        BY <4>1, <1>2
      <4> QED
        BY <4>2 DEF Buckets
    <3>2. ASSUME NEW q \in DOMAIN input.mem \ {0}, e.val = [type |-> input.mem[q].kind, p |-> q]
          PROVE  input.mem[e.val.p].kind = e.val.type
      BY <3>2
    <3>3. e.val \in [type: {"undef", "long", "indirect"}, p: {0}]
             => Flat(e.val) \/ (e.val.type = "indirect" /\ e.val.p = 0)
      BY DEF Flat
    <3> QED
      BY <3>1, <3>2, <3>3, <1>1 DEF Zvals
  <2> QED
    BY <2>1, <2>2, <1>1 DEF Reaches
<1>5. e.val.type # "undef"
  BY <1>1 DEF Flat
<1>6. /\ IsContext(c) /\ c.size = ctx.size + KeySize(e) /\ c.counted = ctx.counted
      /\ ~c.ser /\ c.memo = ctx.memo
  <2> HIDE DEF e
  <2>1. /\ IsContext(c) /\ c.memo = ctx.memo /\ c.ser = ctx.ser /\ c.size = ctx.size + KeySize(e)
        /\ c.counted = ctx.counted
    BY <1>2, <1>5, CalcKeyFields
  <2> HIDE DEF c
  <2> QED
    BY <2>1, <1>1
<1> HIDE DEF c
<1> QED
  BY <1>1, <1>4, <1>6, CalcReached

\* A structure that is counted now.
LEMMA CalcStructureStep ==
  ASSUME StartInv, CalcStructure
  PROVE  StartInv'
<1> DEFINE m == input.mem
           e == Here(m)
           q == e.val.p
           s == m[q]
           k == CalcKey(ctx, e.key)
           c == AddSize(CalcMemoize(k, q), Weight(s))
           more == Each(q, Inside(s))
<1>1. /\ Calculating /\ ~ctx.ser /\ e.val.type \in Storable /\ ~AlreadyCounted(q)
      /\ ctx' = c /\ todo' = more \o Tail(todo) /\ phase' = phase /\ CalcQuiet
  BY DEF CalcStructure, CalcNext, CalcQuiet, setup, Storable
<1>2. /\ phase = "calc" /\ todo \in Seq(Nat \X Nat) /\ todo # << >> /\ Once(todo)
      /\ Pass(m, ctx.counted, Members(todo), ctx.size)
      /\ Item \in Members(todo) /\ e = m[Item[1]].els[Item[2]]
      /\ Item[1] \in DOMAIN m /\ Item[2] \in DOMAIN m[Item[1]].els
      /\ IsContext(ctx) /\ ctx.size \in Nat
      /\ ctx.counted = {} => Item = <<0, 1>> /\ todo = <<<<0, 1>>>>
  BY <1>1, CalcItem
<1>3. IsValue(m)
  BY InputIsValue DEF StartInv
<1>4. ~ctx.memo => Top.type # "arr" /\ ctx.counted = {}
  BY <1>2, <1>1 DEF StartInv, CalcInv
<1>5. q \notin ctx.counted
  <2>1. ctx.memo \in BOOLEAN
    BY <1>2 DEF IsContext
  <2> QED
    BY <2>1, <1>1, <1>4 DEF AlreadyCounted
<1>6. /\ Pass(m, ctx.counted \cup {q}, Members(more) \cup (Members(todo) \ {Item}),
               ctx.size + KeySize(e) + Weight(s))
      /\ q \in DOMAIN m \ {0} /\ Members(more) \cap Members(todo) = {}
  <2> DEFINE x == Item
             S == ctx.counted
             R == Members(todo)
             n == ctx.size
             added == Members(more)
  <2>1. /\ IsValue(m) /\ Pass(m, S, R, n) /\ x \in R /\ q = m[x[1]].els[x[2]].val.p
        /\ m[x[1]].els[x[2]].val.type \in Storable /\ q \notin S
        /\ added = Members(Each(q, Inside(m[q]))) /\ e = m[x[1]].els[x[2]] /\ s = m[q]
    BY <1>1, <1>2, <1>3, <1>5
  <2> HIDE DEF m, e, q, s, x, S, R, n, added
  <2>2. Entered(m, S, R, n, x, q, added)
    BY <2>1, PassStructure DEF Enters
  <2>4. /\ Pass(m, S \cup {q}, added \cup (R \ {x}), n + KeySize(m[x[1]].els[x[2]]) + Weight(m[q]))
        /\ q \in DOMAIN m \ {0} /\ added \cap R = {}
    BY <2>2 DEF Entered
  <2>3. Pass(m, S \cup {q}, added \cup (R \ {x}), n + KeySize(e) + Weight(s))
    BY <2>1, <2>4
  <2> QED
    BY <2>3, <2>4 DEF added, R, S, x, n
<1>7. /\ more \in Seq(Nat \X Nat) /\ Once(more)
      /\ m[q].kind = "str" => more = << >>
  <2>1. m[q].kind = "str" => Inside(m[q]) = << >> /\ Each(q, << >>) = << >>
    <3>1. m[q].kind = "str" => m[q].els = << >>
      BY <1>3, <1>6, ValueFacts
    <3> QED
      BY <3>1 DEF Inside, Each
  <2>2. q \in DOMAIN m /\ q # 0
    BY <1>6
  <2> HIDE DEF m, q
  <2> QED
    BY <2>1, <2>2, <1>3, InsideHolds
<1>8. /\ todo' \in Seq(Nat \X Nat) /\ Once(todo')
      /\ Members(todo') = Members(more) \cup (Members(todo) \ {Item})
  <2>1. /\ more \o Tail(todo) \in Seq(Nat \X Nat) /\ Once(more \o Tail(todo))
        /\ Members(more \o Tail(todo)) = Members(more) \cup (Members(todo) \ {Head(todo)})
    <3> HIDE DEF more
    <3> QED
      BY <1>2, <1>6, <1>7, NextMembers
  <2> QED
    BY <2>1, <1>1 DEF Item
<1>9. e.val.type # "undef"
  BY <1>1 DEF Storable
<1>10. /\ IsContext(k) /\ k.memo = ctx.memo /\ k.ser = ctx.ser /\ k.size = ctx.size + KeySize(e)
       /\ k.counted = ctx.counted
  <2> HIDE DEF e
  <2> QED
    BY <1>2, <1>9, CalcKeyFields
<1>11. /\ IsContext(c) /\ c.memo = ctx.memo /\ c.ser = ctx.ser
       /\ c.size = ctx.size + KeySize(e) + Weight(s) /\ c.counted = ctx.counted \cup {q}
  <2> DEFINE d == CalcMemoize(k, q)
  <2>1. /\ IsContext(d) /\ d.memo = k.memo /\ d.ser = k.ser /\ d.size = k.size
        /\ d.counted = k.counted \cup {q}
    BY <1>10, CalcFields
  <2>2. /\ IsContext(c) /\ c.memo = d.memo /\ c.ser = d.ser
        /\ c.size = d.size + Weight(s) /\ c.counted = d.counted
    <3> HIDE DEF d
    <3> QED
      BY <2>1, CalcFields DEF d
  <2> HIDE DEF c, d, k, e, s, q
  <2> QED
    BY <2>1, <2>2, <1>10
<1>12. ~ctx.memo => Top.type # "arr" /\ todo' = << >>
  <2> SUFFICES ASSUME ~ctx.memo PROVE todo' = << >>
    BY <1>4
  <2>1. Item = <<0, 1>> /\ todo = <<<<0, 1>>>> /\ Top.type # "arr"
    BY <1>2, <1>4
  <2>2. e.val = Top
    BY <2>1, <1>2 DEF Top
  <2>3. e.val.type # "ref"
    <3>1. m[0].kind = "zval" /\ 0 \in DOMAIN m /\ DOMAIN m[0].els = {1}
      BY <1>3, ValueFacts
    <3>2. Top.type # "ref"
      <4> DEFINE f == m[0].els[1]
      <4>1. f.val.type \notin {"ref", "indirect"}
        <5> HIDE DEF m
        <5> QED
          BY <3>1, <1>3, SlotFacts
      <4> QED
        BY <4>1 DEF Top
    <3> QED
      BY <3>2, <2>2
  <2>4. e.val.type = "str"
    BY <1>1, <2>1, <2>2, <2>3 DEF Storable
  <2>5. m[q].kind = "str"
    <3>1. ~Flat(e.val) /\ e.val.type # "indirect"
      BY <2>4 DEF Flat
    <3>2. m[q].kind = e.val.type
      <4> DEFINE x == Item[1]
                 i == Item[2]
      <4>1. IsValue(m) /\ x \in DOMAIN m /\ i \in DOMAIN m[x].els /\ e = m[x].els[i]
        BY <1>2, <1>3
      <4> HIDE DEF m, x, i, e
      <4> QED
        BY <4>1, <3>1, SlotFacts
    <3> QED
      BY <3>2, <2>4
  <2>6. more = << >>
    BY <2>5, <1>7
  <2>7. todo' = << >> \o Tail(todo) /\ Tail(todo) = << >>
    BY <1>1, <2>1, <2>6
  <2> QED
    BY <2>7
<1> HIDE DEF c, more, s, q, e, k, m
<1>13. SetupInv'
  BY <1>1, <1>2, <1>11, CalcSetup
<1>14. input' = input
  BY <1>1 DEF CalcQuiet, setup
<1>15. /\ ctx'.counted = ctx.counted \cup {q} /\ ctx'.size = ctx.size + KeySize(e) + Weight(s)
       /\ ctx'.memo = ctx.memo /\ ctx'.ser = ctx.ser
  BY <1>1, <1>11
<1>16. Pass(input'.mem, ctx'.counted, Members(todo'), ctx'.size)
  BY <1>6, <1>8, <1>14, <1>15 DEF m
<1>17. CalcInv'
  BY <1>1, <1>2, <1>8, <1>12, <1>14, <1>15, <1>16 DEF CalcInv, Top
<1>18. SerializeInv'
  BY <1>1, <1>2, <1>15 DEF SerializeInv
<1> QED
  BY <1>13, <1>17, <1>18 DEF StartInv

\* Only the variable itself is serialized.
LEMMA SerializedItem ==
  ASSUME StartInv, Calculating, ctx.ser
  PROVE  todo = <<<<0, 1>>>> /\ Here(input.mem).val = Top /\ ~Flat(Top) /\ ctx.size = EntrySize
         /\ Tail(todo) = << >>
<1>1. ~Flat(Top) /\ todo = <<<<0, 1>>>> /\ ctx.size = EntrySize + 0
  BY DEF Calculating, StartInv, SerializeInv
<1>2. Item = <<0, 1>> /\ Tail(todo) = << >>
  BY <1>1 DEF Item
<1>3. ctx.size = EntrySize
  BY <1>1, SizeAssumption
<1> QED
  BY <1>1, <1>2, <1>3 DEF Here, Top

\* A pass that ends: a flat variable does not end it.
LEMMA CalcEnds ==
  ASSUME StartInv, Calculating, NEW c, IsContext(c), CalcFail(c), ~Flat(Here(input.mem).val)
  PROVE  StartInv'
<1>1. /\ ctx' = c /\ todo' = << >> /\ phase' \in {"again", "failed"} /\ CalcQuiet
      /\ phase \in {"calc", "recalc"}
  BY DEF CalcFail, CalcQuiet, setup, Calculating
<1>2. SetupInv'
  BY <1>1, CalcSetup
<1>3. ~Flat(Top)
  <2>1. CASE ctx.ser
    BY <2>1, SerializedItem
  <2>2. CASE ~ctx.ser
    <3>1. ASSUME Flat(Top) PROVE FALSE
      <4>1. Least(input.mem, ctx.counted)
        BY <2>2, CalcItem DEF Pass
      <4>2. ctx.counted = {}
        BY <4>1, <3>1, FlatAlone, InputIsValue DEF Top, StartInv
      <4>3. Item = <<0, 1>>
        BY <4>2, <2>2, CalcItem
      <4>4. Here(input.mem).val = Top
        BY <4>3 DEF Here, Top
      <4> QED
        BY <4>4, <3>1
    <3> QED
      BY <3>1
  <2> QED
    BY <2>1, <2>2
<1>4. CalcInv' /\ SerializeInv'
  <2>1. input' = input
    BY <1>1 DEF CalcQuiet, setup
  <2> QED
    BY <2>1, <1>1, <1>3 DEF CalcInv, SerializeInv, Top
<1> QED
  BY <1>2, <1>4 DEF StartInv

\* A zval that ends the pass.
LEMMA CalcRefusedStep ==
  ASSUME StartInv, CalcRefused \/ CalcIndirect
  PROVE  StartInv'
<1>1. PICK ser \in BOOLEAN: /\ Calculating /\ CalcFail([ctx EXCEPT !.ser = ser])
                            /\ ~Flat(Here(input.mem).val)
  <2>1. CASE CalcRefused
    <3>1. (Here(input.mem).val.type = "obj") \in BOOLEAN
      OBVIOUS
    <3> QED
      BY <3>1, <2>1 DEF CalcRefused, Flat
  <2>2. CASE CalcIndirect
    BY <2>2 DEF CalcIndirect, Flat
  <2> QED
    BY <2>1, <2>2
<1>2. IsContext([ctx EXCEPT !.ser = ser])
  BY DEF StartInv, SetupInv, IsContext
<1> DEFINE c == [ctx EXCEPT !.ser = ser]
<1> HIDE DEF c
<1> QED
  BY <1>1, <1>2, CalcEnds DEF c

\* The serializer's string.
LEMMA CalcSerializeStep ==
  ASSUME StartInv, CalcSerialize
  PROVE  StartInv'
<1> DEFINE z == Here(input.mem).val
           d == [ctx EXCEPT !.str = [by |-> Format, of |-> z]]
           c == AddSize(d, StrSize(SerLen))
<1>1. /\ Calculating /\ ctx.ser /\ ~Flat(z) /\ (CalcNext(c, << >>) \/ CalcFail(ctx))
  BY DEF CalcSerialize
<1>2. IsContext(ctx)
  BY DEF StartInv, SetupInv
<1>3. CASE CalcFail(ctx)
  BY <1>1, <1>2, <1>3, CalcEnds
<1>4. CASE CalcNext(c, << >>)
  <2>1. /\ ctx' = c /\ todo' = << >> \o Tail(todo) /\ phase' = phase /\ CalcQuiet
    BY <1>4 DEF CalcNext, CalcQuiet, setup
  <2>2. /\ Tail(todo) = << >> /\ z = Top /\ ~Flat(Top) /\ ctx.size = EntrySize
    BY <1>1, SerializedItem
  <2>3. todo' = << >>
    BY <2>1, <2>2
  <2>4. /\ IsContext(d) /\ d.ser = ctx.ser /\ d.size = ctx.size /\ d.str = [by |-> Format, of |-> Top]
    BY <1>2, <2>2 DEF IsContext
  <2>5. /\ IsContext(c) /\ c.ser = ctx.ser /\ c.size = EntrySize + StrSize(SerLen)
        /\ c.str = [by |-> Format, of |-> Top]
    <3>1. /\ IsContext(c) /\ c.ser = d.ser /\ c.size = d.size + StrSize(SerLen) /\ c.str = d.str
      <4> HIDE DEF d
      <4> QED
        BY <2>4, CalcFields
    <3> HIDE DEF c, d
    <3> QED
      BY <3>1, <2>2, <2>4
  <2> HIDE DEF c, d
  <2>6. SetupInv'
    BY <1>1, <2>1, <2>5, CalcSetup DEF Calculating
  <2>7. input' = input /\ serializer' = serializer
    BY <2>1 DEF CalcQuiet, setup
  <2>8. CalcInv'
    BY <1>1, <2>1, <2>5 DEF CalcInv
  <2>9. SerializeInv'
    BY <1>1, <2>1, <2>2, <2>3, <2>5, <2>7 DEF SerializeInv, Top, Format, Calculating
  <2> QED
    BY <2>6, <2>8, <2>9 DEF StartInv
<1> QED
  BY <1>1, <1>3, <1>4

\* What the copy does to a context.
LEMMA CopyFields ==
  ASSUME NEW c, IsContext(c)
  PROVE  /\ \A n: LET d == Allocated(c, n) IN
              /\ IsContext(d) /\ d.memo = c.memo /\ d.ser = c.ser /\ d.size = c.size
              /\ d.counted = c.counted /\ d.str = c.str /\ d.cur = c.cur + n /\ d.done = c.done
         /\ \A p, a: LET d == AddAllocated(c, p, a) IN
              /\ IsContext(d) /\ d.memo = c.memo /\ d.ser = c.ser /\ d.size = c.size
              /\ d.counted = c.counted /\ d.str = c.str /\ d.cur = c.cur /\ d.done = Put(c.done, p, a)
         /\ \A x: LET d == [c EXCEPT !.cur = x] IN
              /\ IsContext(d) /\ d.memo = c.memo /\ d.ser = c.ser /\ d.size = c.size
              /\ d.counted = c.counted /\ d.str = c.str /\ d.cur = x /\ d.done = c.done
         /\ \A x: LET d == [c EXCEPT !.done = x] IN
              /\ IsContext(d) /\ d.memo = c.memo /\ d.ser = c.ser /\ d.done = x
<1>1. ASSUME NEW n PROVE
        LET d == Allocated(c, n) IN
              /\ IsContext(d) /\ d.memo = c.memo /\ d.ser = c.ser /\ d.size = c.size
              /\ d.counted = c.counted /\ d.str = c.str /\ d.cur = c.cur + n /\ d.done = c.done
  BY DEF IsContext, Allocated
<1>2. ASSUME NEW p, NEW a PROVE
        LET d == AddAllocated(c, p, a) IN
              /\ IsContext(d) /\ d.memo = c.memo /\ d.ser = c.ser /\ d.size = c.size
              /\ d.counted = c.counted /\ d.str = c.str /\ d.cur = c.cur /\ d.done = Put(c.done, p, a)
  BY DEF IsContext, AddAllocated
<1>3. ASSUME NEW x PROVE
        LET d == [c EXCEPT !.cur = x] IN
              /\ IsContext(d) /\ d.memo = c.memo /\ d.ser = c.ser /\ d.size = c.size
              /\ d.counted = c.counted /\ d.str = c.str /\ d.cur = x /\ d.done = c.done
  BY DEF IsContext
<1>4. ASSUME NEW x PROVE
        LET d == [c EXCEPT !.done = x] IN
              /\ IsContext(d) /\ d.memo = c.memo /\ d.ser = c.ser /\ d.done = x
  BY DEF IsContext
<1> QED
  BY <1>1, <1>2, <1>3, <1>4

-----------------------------------------------------------------------------
(* The other steps *)

\* A step that leaves the setup alone and stays out of the first pass.
LEMMA QuietStep ==
  ASSUME StartInv, UNCHANGED setup, IsContext(ctx'),
         phase \notin {"minit", "idle"}, phase' \notin {"minit", "calc", "again", "recalc"},
         phase' \in {"idle", "copy", "value", "stored", "fetch", "failed"},
         phase' = "idle" => phase = "failed",
         alloc' \in Bases \cup {0}, phase' \in InBlock => alloc' \in Bases,
         phase' \notin InBlock => shm' = Nothing, phase' # "fetch" => mem' = Nothing,
         phase' \in {"idle", "failed", "stored"} => todo' = << >>
  PROVE  StartInv'
<1>1. SetupInv'
  BY DEF StartInv, SetupInv, setup, Find, InBlock, IsContext
<1>2. CalcInv' /\ SerializeInv'
  BY DEF CalcInv, SerializeInv
<1> QED
  BY <1>1, <1>2 DEF StartInv

\* Everything up to the copy: the invariant StartInv holds at first, and each action keeps it.
LEMMA StartInit ==
  ASSUME Init
  PROVE  StartInv
<1>1. IsContext(ctx)
  BY ContextFields DEF Init
<1>2. SetupInv
  BY <1>1 DEF Init, SetupInv, InBlock
<1>3. CalcInv /\ SerializeInv
  BY DEF Init, CalcInv, SerializeInv
<1> QED
  BY <1>2, <1>3 DEF StartInv

\* MINIT: the built-in serializer is registered.
LEMMA MinitStep ==
  ASSUME StartInv, Minit
  PROVE  StartInv'
<1>1. /\ phase = "minit" /\ registered' = {Php} /\ serializer' = Find(input.name, registered')
      /\ phase' = "idle" /\ UNCHANGED <<input, booting, ctx, todo, alloc, shm, mem, early>>
  BY DEF Minit
<1>2. SetupInv /\ booting
  BY <1>1 DEF StartInv, SetupInv
<1>3. SetupInv'
  BY <1>1, <1>2 DEF SetupInv, Find, InBlock, IsContext
<1>4. CalcInv' /\ SerializeInv'
  BY <1>1 DEF CalcInv, SerializeInv
<1> QED
  BY <1>3, <1>4 DEF StartInv

\* Another extension registers its serializer.
LEMMA RegisterExternalStep ==
  ASSUME StartInv, RegisterExternal
  PROVE  StartInv'
<1>1. /\ phase \in {"idle", "stored"} /\ booting /\ External \in input.extensions \ registered
      /\ registered' = registered \cup {External}
      /\ UNCHANGED <<input, booting, serializer, phase, ctx, todo, alloc, shm, mem, early>>
  BY DEF RegisterExternal
<1>2. SetupInv
  BY DEF StartInv
<1>3. SetupInv'
  BY <1>1, <1>2 DEF SetupInv, InBlock, IsContext
<1>4. CalcInv' /\ SerializeInv'
  BY <1>1 DEF CalcInv, SerializeInv
<1> QED
  BY <1>3, <1>4 DEF StartInv

\* The first request looks the serializer up again.
LEMMA RinitStep ==
  ASSUME StartInv, Rinit
  PROVE  StartInv'
<1>1. /\ phase \in {"idle", "stored"} /\ booting /\ booting' = FALSE /\ serializer' = SerializerOnce
      /\ UNCHANGED <<input, registered, phase, ctx, todo, alloc, shm, mem, early>>
  BY DEF Rinit
<1>2. SetupInv
  BY DEF StartInv
<1>3. /\ serializer' = Find(input.name, registered)
      /\ serializer' # None => serializer' = input.name /\ serializer' \in registered
  BY <1>1, <1>2 DEF SetupInv, SerializerOnce, Find
<1>4. SetupInv'
  BY <1>1, <1>2, <1>3 DEF SetupInv, InBlock, IsContext, Find
<1>5. CalcInv' /\ SerializeInv'
  BY <1>1 DEF CalcInv, SerializeInv
<1> QED
  BY <1>4, <1>5 DEF StartInv

\* The start of a pass.
LEMMA CalculateStep ==
  ASSUME StartInv, NEW memo \in BOOLEAN, NEW ser \in BOOLEAN, Calculate(memo, ser),
         phase \in {"idle", "again"}, phase' \in {"calc", "recalc"}, phase' = "recalc" => ser,
         ser => ~Flat(Top), ~ser /\ ~memo => Top.type # "arr",
         UNCHANGED <<input, booting, registered, serializer>>,
         early' = booting \/ (phase = "again" /\ early' = early)
  PROVE  StartInv'
<1> DEFINE d == Context(memo, ser)
           c == AddSize(d, EntrySize)
<1>1. ctx' = c /\ todo' = <<<<0, 1>>>> /\ UNCHANGED <<alloc, shm, mem>>
  BY DEF Calculate
<1>2. IsContext(d) /\ d.memo = memo /\ d.ser = ser /\ d.size = 0 /\ d.counted = {}
  BY ContextFields
<1>3. IsContext(c) /\ c.memo = memo /\ c.ser = ser /\ c.size = EntrySize /\ c.counted = {}
  <2>1. IsContext(c) /\ c.memo = d.memo /\ c.ser = d.ser /\ c.size = d.size + EntrySize /\ c.counted = d.counted
    <3> HIDE DEF d
    <3> QED
      BY <1>2, CalcFields
  <2>2. 0 + EntrySize = EntrySize
    BY SizeAssumption
  <2> HIDE DEF c, d
  <2> QED
    BY <2>1, <2>2, <1>2
<1> HIDE DEF c, d
<1>4. SetupInv'
  <2>1. SetupInv
    BY DEF StartInv
  <2> QED
    BY <2>1, <1>1, <1>3 DEF SetupInv, InBlock, Find
<1>5. CalcInv'
  <2>1. <<<<0, 1>>>> \in Seq(Nat \X Nat) /\ Once(<<<<0, 1>>>>) /\ Members(<<<<0, 1>>>>) = {<<0, 1>>}
    BY OneMember, InputIsValue DEF StartInv
  <2>2. Pass(input.mem, {}, {<<0, 1>>}, EntrySize)
    BY InputIsValue, PassStart DEF StartInv
  <2> QED
    BY <2>1, <2>2, <1>1, <1>3 DEF CalcInv, Top
<1>6. SerializeInv'
  <2>1. EntrySize = EntrySize + 0 /\ <<<<0, 1>>>> # << >>
    BY SizeAssumption
  <2> QED
    BY <2>1, <1>1, <1>3 DEF SerializeInv, Top
<1> QED
  BY <1>4, <1>5, <1>6 DEF StartInv

\* A store begins: nothing is counted yet.
LEMMA PersistCalcStep ==
  ASSUME StartInv, PersistCalc
  PROVE  StartInv'
<1> DEFINE type == Top.type
           memo == serializer = None /\ type = "arr"
           ser == type = "obj" \/ (serializer # None /\ type = "arr")
<1>1. /\ phase = "idle" /\ Calculate(memo, ser) /\ phase' = "calc" /\ early' = booting
      /\ UNCHANGED <<input, booting, registered, serializer>>
  BY DEF PersistCalc, Top
<1>2. memo \in BOOLEAN /\ ser \in BOOLEAN /\ (ser => ~Flat(Top)) /\ (~ser /\ ~memo => Top.type # "arr")
  BY DEF Flat
<1> HIDE DEF memo, ser
<1> QED
  BY <1>1, <1>2, CalculateStep

\* The second try is with serialization.
LEMMA PersistRetryStep ==
  ASSUME StartInv, PersistRetry
  PROVE  StartInv'
<1>1. /\ phase = "again" /\ Calculate(FALSE, TRUE) /\ phase' = "recalc"
      /\ UNCHANGED <<input, booting, registered, serializer>> /\ early' = early
  BY DEF PersistRetry, setup
<1>2. ~Flat(Top)
  BY <1>1 DEF StartInv, SerializeInv
<1> QED
  BY <1>1, <1>2, CalculateStep

\* No memory.
LEMMA PersistNoMemoryStep ==
  ASSUME StartInv, PersistNoMemory
  PROVE  StartInv'
BY QuietStep DEF PersistNoMemory, StartInv, SetupInv, InBlock, setup

\* The block is allocated; the size is kept.
LEMMA PersistAllocStep ==
  ASSUME StartInv, PersistAlloc
  PROVE  StartInv' /\ IsContext(ctx) /\ IsContext(ctx')
<1>1. IsContext(ctx)
  BY DEF StartInv, SetupInv
<1>2. IsContext(ctx')
  BY <1>1, CopyFields DEF PersistAlloc
<1> QED
  BY <1>1, <1>2, QuietStep DEF PersistAlloc, StartInv, SetupInv, InBlock, setup

\* A step of the copy.
LEMMA CopyQuiet ==
  ASSUME StartInv, phase \in {"copy", "value"}, phase' \in {"copy", "value"},
         UNCHANGED <<setup, alloc, mem>>, IsContext(ctx')
  PROVE  StartInv'
BY QuietStep DEF StartInv, SetupInv, InBlock, setup

\* The copy leaves alone what StartInv is about.
LEMMA CopyQuietSteps ==
  ASSUME StartInv, Copy
  PROVE  StartInv' /\ phase \in {"copy", "value"} /\ phase' \in {"copy", "value"}
         /\ UNCHANGED <<setup, alloc, mem>> /\ IsContext(ctx) /\ IsContext(ctx')
<1>1. IsContext(ctx)
  BY DEF StartInv, SetupInv
<1>2. \A n: IsContext(Allocated(ctx, n)) /\ \A p, a: IsContext(AddAllocated(Allocated(ctx, n), p, a))
  BY <1>1, CopyFields
<1> DEFINE Good == /\ phase \in {"copy", "value"} /\ phase' \in {"copy", "value"}
                   /\ UNCHANGED <<setup, alloc, mem>> /\ IsContext(ctx')
<1>3. ASSUME CopyBucket PROVE Good
  <2>1. phase \in {"copy", "value"} /\ phase' \in {"copy", "value"} /\ UNCHANGED <<setup, alloc, mem>>
    BY <1>3 DEF CopyBucket
  <2>2. ctx' = ctx \/ ctx' = Allocated(ctx, StrSize(KeyLen))
    BY <1>3 DEF CopyBucket
  <2> QED
    BY <2>1, <2>2, <1>1, <1>2
<1>4. ASSUME CopyFlat PROVE Good
  BY <1>1, <1>4 DEF CopyFlat, CopyNext, AtValue
<1>5. ASSUME CopySerialized PROVE Good
  BY <1>2, <1>5 DEF CopySerialized, CopyNext, AtValue
<1>6. ASSUME CopyAgain PROVE Good
  BY <1>1, <1>6 DEF CopyAgain, CopyNext, AtValue
<1>7. ASSUME CopyZstr PROVE Good
  BY <1>2, <1>7 DEF CopyZstr, CopyFirst, CopyNext, AtValue
<1>8. ASSUME CopyEmpty PROVE Good
  BY <1>1, <1>8 DEF CopyEmpty, CopyFirst, CopyNext, AtValue
<1>9. ASSUME CopyHt PROVE Good
  BY <1>2, <1>9 DEF CopyHt, CopyFirst, CopyNext, AtValue
<1>10. ASSUME CopyRef PROVE Good
  BY <1>2, <1>10 DEF CopyRef, CopyFirst, CopyNext, AtValue
<1>11. Good
  BY <1>3, <1>4, <1>5, <1>6, <1>7, <1>8, <1>9, <1>10 DEF Copy
<1> QED
  BY <1>1, <1>11, CopyQuiet

\* The end of a store.
LEMMA PersistEndStep ==
  ASSUME StartInv, PersistEnd
  PROVE  StartInv'
<1>1. IsContext(ctx')
  BY ContextFields DEF PersistEnd
<1> QED
  BY <1>1, QuietStep DEF PersistEnd, StartInv, SetupInv, InBlock, setup

\* The block is moved, or mapped elsewhere.
LEMMA RelocateStep ==
  ASSUME StartInv, Relocate
  PROVE  StartInv'
<1>1. alloc' \in Bases
  BY DEF Relocate
<1>2. phase = "stored" /\ UNCHANGED <<setup, phase, ctx, todo, mem>>
  BY DEF Relocate
<1> QED
  BY <1>1, <1>2, QuietStep DEF StartInv, SetupInv, InBlock, IsContext

\* A fetch begins.
LEMMA FetchStartStep ==
  ASSUME StartInv, FetchStart
  PROVE  StartInv'
<1>1. IsContext(ctx')
  <2>1. (Stored.type = "arr") \in BOOLEAN
    OBVIOUS
  <2> QED
    BY <2>1, ContextFields DEF FetchStart
<1> QED
  BY <1>1, QuietStep DEF FetchStart, StartInv, SetupInv, InBlock, setup

\* A fetch of a serialized value.
LEMMA FetchSerializedStep ==
  ASSUME StartInv, FetchSerialized
  PROVE  StartInv'
<1>1. phase = "stored" /\ phase' = "fetch" /\ UNCHANGED <<setup, ctx, todo, alloc, shm>>
  BY DEF FetchSerialized
<1> QED
  BY <1>1, QuietStep DEF StartInv, SetupInv, InBlock, setup, IsContext

\* A fetch leaves alone what StartInv is about.
LEMMA FetchQuietSteps ==
  ASSUME StartInv, Fetch
  PROVE  StartInv' /\ Fetching /\ phase' = "fetch" /\ UNCHANGED <<setup, alloc, shm>>
         /\ IsContext(ctx) /\ IsContext(ctx')
<1>1. IsContext(ctx)
  BY DEF StartInv, SetupInv
<1>2. \A x: IsContext([ctx EXCEPT !.done = x])
  BY <1>1, CopyFields
<1> DEFINE Good == /\ Fetching /\ phase' = phase /\ UNCHANGED <<setup, alloc, shm>> /\ IsContext(ctx')
<1>3. ASSUME FetchFlat PROVE Good
  BY <1>1, <1>3 DEF FetchFlat, FetchNext
<1>4. ASSUME FetchAgain PROVE Good
  BY <1>1, <1>4 DEF FetchAgain, FetchNext
<1>5. ASSUME FetchEmpty PROVE Good
  BY <1>1, <1>5 DEF FetchEmpty, FetchNext
<1>6. ASSUME FetchStructure PROVE Good
  BY <1>2, <1>6 DEF FetchStructure, FetchNext
<1>7. Good
  BY <1>3, <1>4, <1>5, <1>6 DEF Fetch
<1>8. phase = "fetch"
  BY <1>7 DEF Fetching
<1> QED
  BY <1>1, <1>7, <1>8, QuietStep DEF StartInv, SetupInv, InBlock, setup

\* The program goes on.
LEMMA ContinueStep ==
  ASSUME StartInv, Continue
  PROVE  StartInv'
<1>1. IsContext(ctx')
  BY ContextFields DEF Continue
<1>2. CASE phase = "fetch"
  BY <1>1, <1>2, QuietStep DEF Continue, StartInv, SetupInv, InBlock, setup
<1>3. CASE phase = "failed"
  BY <1>1, <1>3, QuietStep DEF Continue, StartInv, SetupInv, InBlock, setup
<1> QED
  BY <1>2, <1>3 DEF Continue

\* The steps of the first pass together.
LEMMA CalcStep ==
  ASSUME StartInv, Calc
  PROVE  StartInv'
BY CalcFlatStep, CalcRefusedStep, CalcSerializeStep, CalcAgainStep, CalcStructureStep DEF Calc

\* The actions together.
LEMMA StartNext ==
  ASSUME StartInv, [Next]_vars
  PROVE  StartInv'
<1>1. CASE UNCHANGED vars
  BY <1>1 DEF vars, StartInv, SetupInv, CalcInv, SerializeInv, Top, Format, IsContext
<1>2. CASE Next
  BY <1>2, MinitStep, RegisterExternalStep, RinitStep, PersistCalcStep, CalcStep, PersistRetryStep,
     PersistAllocStep, PersistNoMemoryStep, CopyQuietSteps, PersistEndStep, RelocateStep,
     FetchStartStep, FetchSerializedStep, FetchQuietSteps, ContinueStep DEF Next
<1> QED
  BY <1>1, <1>2

\* The invariant of the first pass (apc_persist_calc_zval, apc_persist_calc_ht): the size counted so
\* far is that of the structures in the table and of the keys that were passed, and what they lead to
\* is still on the list.
LEMMA StartHolds == Spec => []StartInv
<1>1. Init => StartInv
  BY StartInit
<1>2. StartInv /\ [Next]_vars => StartInv'
  BY StartNext
<1> QED
  BY <1>1, <1>2, PTL DEF Spec

-----------------------------------------------------------------------------
(* Changes of a memory *)

IsStruct(x) ==
  x = [kind |-> x.kind, rc |-> x.rc, len |-> x.len, text |-> x.text, packed |-> x.packed,
       next |-> x.next, pos |-> x.pos, static |-> x.static, data |-> x.data, els |-> x.els]
Shaped(s) ==
  /\ DOMAIN s \subseteq Nat
  /\ \A a \in DOMAIN s:
       /\ IsStruct(s[a]) /\ s[a].static \in BOOLEAN
       /\ s[a].kind = "str" => DOMAIN s[a].els = {}
       /\ \A i \in DOMAIN s[a].els: IsBucket(s[a].els[i])

SameFixed(x, y) ==
  x.kind = y.kind /\ x.rc = y.rc /\ x.len = y.len /\ x.text = y.text /\ x.packed = y.packed /\ x.data = y.data
SameHead(x, y) ==
  SameFixed(x, y) /\ x.next = y.next /\ x.pos = y.pos /\ x.static = y.static

\* One bucket of one structure becomes e.
Rewritten(s, s2, a, i, e) ==
  /\ DOMAIN s2 = DOMAIN s
  /\ \A b \in DOMAIN s:
       /\ IsStruct(s2[b]) /\ SameHead(s2[b], s[b]) /\ DOMAIN s2[b].els = DOMAIN s[b].els
       /\ \A j \in DOMAIN s[b].els: s2[b].els[j] = IF b = a /\ j = i THEN e ELSE s[b].els[j]
\* One header changes.
HeaderSet(s, s2, a, pos, next, static) ==
  /\ DOMAIN s2 = DOMAIN s
  /\ \A b \in DOMAIN s: b # a => s2[b] = s[b]
  /\ IsStruct(s2[a]) /\ SameFixed(s2[a], s[a]) /\ s2[a].els = s[a].els
  /\ s2[a].pos = pos /\ s2[a].next = next /\ s2[a].static = static
\* There is a new structure.
Added(s, s2, a, x) ==
  /\ DOMAIN s2 = DOMAIN s \cup {a} /\ s2[a] = x
  /\ \A b \in DOMAIN s: b # a => s2[b] = s[b]

\* Put adds a structure.
LEMMA PutAdds ==
  ASSUME NEW s, NEW a, NEW x
  PROVE  Added(s, Put(s, a, x), a, x)
BY DEF Added, Put

\* What an assignment to a bucket does.
LEMMA SlotWritten ==
  ASSUME NEW s, Shaped(s), NEW a \in DOMAIN s, NEW i \in DOMAIN s[a].els, NEW e
  PROVE  Rewritten(s, [s EXCEPT ![a].els[i] = e], a, i, e)
<1> DEFINE s2 == [s EXCEPT ![a].els[i] = e]
           y == [s[a] EXCEPT !.els = [s[a].els EXCEPT ![i] = e]]
<1>1. s2 = [s EXCEPT ![a] = y]
  OBVIOUS
<1>2. DOMAIN s2 = DOMAIN s /\ s2[a] = y /\ \A b \in DOMAIN s: b # a => s2[b] = s[b]
  BY <1>1
<1>3. /\ IsStruct(y) /\ SameHead(y, s[a]) /\ y.els = [s[a].els EXCEPT ![i] = e]
  BY DEF Shaped, IsStruct, SameHead, SameFixed
<1> HIDE DEF s2, y
<1>4. DOMAIN y.els = DOMAIN s[a].els /\ \A j \in DOMAIN s[a].els: y.els[j] = IF j = i THEN e ELSE s[a].els[j]
  BY <1>3
<1>5. \A b \in DOMAIN s: IsStruct(s[b]) /\ SameHead(s[b], s[b])
  BY DEF Shaped, SameHead, SameFixed
<1> QED
  BY <1>2, <1>3, <1>4, <1>5 DEF Rewritten, s2

\* An assignment to the value of a zval.
LEMMA ValueWritten ==
  ASSUME NEW s, Shaped(s), NEW a \in DOMAIN s, NEW i \in DOMAIN s[a].els, NEW v
  PROVE  Rewritten(s, [s EXCEPT ![a].els[i].val = v], a, i,
                   [h |-> s[a].els[i].h, key |-> s[a].els[i].key, val |-> v])
<1> DEFINE f == s[a].els[i]
           e == [f EXCEPT !.val = v]
<1>1. [s EXCEPT ![a].els[i].val = v] = [s EXCEPT ![a].els[i] = e]
  OBVIOUS
<1>2. f = [h |-> f.h, key |-> f.key, val |-> f.val]
  BY DEF Shaped, IsBucket
<1> HIDE DEF f
<1>4. e = [h |-> f.h, key |-> f.key, val |-> v]
  BY <1>2
<1> HIDE DEF e
<1>3. Rewritten(s, [s EXCEPT ![a].els[i] = e], a, i, e)
  BY SlotWritten
<1> QED
  BY <1>1, <1>4, <1>3 DEF f

\* An assignment to its key.
LEMMA KeyWritten ==
  ASSUME NEW s, Shaped(s), NEW a \in DOMAIN s, NEW i \in DOMAIN s[a].els, NEW v
  PROVE  Rewritten(s, [s EXCEPT ![a].els[i].key = v], a, i,
                   [h |-> s[a].els[i].h, key |-> v, val |-> s[a].els[i].val])
<1> DEFINE f == s[a].els[i]
           e == [f EXCEPT !.key = v]
<1>1. [s EXCEPT ![a].els[i].key = v] = [s EXCEPT ![a].els[i] = e]
  OBVIOUS
<1>2. f = [h |-> f.h, key |-> f.key, val |-> f.val]
  BY DEF Shaped, IsBucket
<1> HIDE DEF f
<1>4. e = [h |-> f.h, key |-> v, val |-> f.val]
  BY <1>2
<1> HIDE DEF e
<1>3. Rewritten(s, [s EXCEPT ![a].els[i] = e], a, i, e)
  BY SlotWritten
<1> QED
  BY <1>1, <1>4, <1>3 DEF f

\* The fields are still there after one.
LEMMA RewrittenShaped ==
  ASSUME NEW s, Shaped(s), NEW s2, NEW a, NEW i, NEW e, Rewritten(s, s2, a, i, e), IsBucket(e)
  PROVE  Shaped(s2)
BY DEF Shaped, Rewritten, SameHead, SameFixed

\* Writing down what is there changes nothing.
LEMMA RewrittenSame ==
  ASSUME NEW s, Shaped(s), NEW a, NEW i, NEW e, e = s[a].els[i]
  PROVE  Rewritten(s, s, a, i, e)
BY DEF Shaped, Rewritten, SameHead, SameFixed

-----------------------------------------------------------------------------
(* The block *)

\* Where the copy of a structure has its zvals: an array in its data.
Body(m, at, p) == IF m[p].kind = "arr" THEN at[p] + HtSize ELSE at[p]
Cell(m, s, at, x) == s[Body(m, at, x[1])].els[x[2]]
KindOf(m, p) == IF p = 0 THEN "entry" ELSE m[p].kind

ValCopied(m, base, at, y, z) ==
  /\ z = [type |-> y.type, p |-> z.p]
  /\ Flat(y) => z.p = 0
  /\ ~Flat(y) => /\ y.type \in Storable
                 /\ IF IsEmpty(m[y.p]) THEN z.p = 0 ELSE y.p \in DOMAIN at \ {0} /\ z.p = at[y.p] - base
KeyCopied(s, base, key, off) ==
  IF key = None THEN off = None
  ELSE off \in Nat /\ base + off \in DOMAIN s /\ s[base + off].kind = "str" /\ s[base + off].text = key

\* at has the addresses of the copies, of the variable the entry at base.
Places(m, base, at) ==
  /\ base \in Nat /\ DOMAIN at \subseteq DOMAIN m /\ 0 \in DOMAIN at /\ at[0] = base
  /\ \A p \in DOMAIN at: at[p] \in Nat
  /\ \A p, q \in DOMAIN at: at[p] = at[q] => p = q
  /\ \A p \in DOMAIN at \ {0}: m[p].kind \in Storable /\ ~IsEmpty(m[p])
Header(m, s, base, at, p) ==
  /\ at[p] \in DOMAIN s /\ s[at[p]].kind = KindOf(m, p) /\ s[at[p]].packed = m[p].packed
  /\ m[p].kind = "str" => s[at[p]].len = m[p].len /\ s[at[p]].text = m[p].text
  /\ m[p].kind = "arr" => /\ s[at[p]].data = at[p] + HtSize - base /\ DOMAIN s[at[p]].els = {}
                          /\ at[p] + HtSize \in DOMAIN s /\ s[at[p] + HtSize].kind = "data"
  /\ Body(m, at, p) \in DOMAIN s /\ DOMAIN s[Body(m, at, p)].els = DOMAIN m[p].els
\* There is nothing else but strings.
Known(m, s, at) ==
  \A a \in DOMAIN s: s[a].kind = "str" \/ \E p \in DOMAIN at: a \in {at[p], Body(m, at, p)}
Frame(m, s, base, at) ==
  /\ Places(m, base, at) /\ Shaped(s) /\ Known(m, s, at)
  /\ \A p \in DOMAIN at: Header(m, s, base, at, p)

\* The zvals raw are not copied yet, nor the keys rk.
Copied(m, s, base, at, raw, rk) ==
  \A x \in Slots(m, DOMAIN at):
    LET e == m[x[1]].els[x[2]]
        f == Cell(m, s, at, x)
    IN /\ f.h = e.h
       /\ IF x \in raw THEN f.val = e.val ELSE ValCopied(m, base, at, e.val, f.val)
       /\ IF x \in rk \/ e.val.type = "undef" THEN f.key = e.key ELSE KeyCopied(s, base, e.key, f.key)

\* The header of an array is right for the elements whose keys are copied.
Finished(m, p, rk) == {i \in Elements(m[p].els): <<p, i>> \notin rk}
Indices(m, p, E) == {Index(m[p], i): i \in {j \in E: m[p].els[j].key = None}}
FlagsRight(m, p, ht, E) ==
  /\ IF ht.pos = 0 THEN E = {} ELSE ht.pos \in Elements(m[p].els)
  /\ ht.next \in Int
  /\ ht.static => \A i \in E: m[p].els[i].key = None
  /\ MaxLong \in Indices(m, p, Elements(m[p].els)) \/ \A n \in Indices(m, p, E): n < ht.next
Flags(m, s, at, rk) ==
  \A p \in DOMAIN at: m[p].kind = "arr" => FlagsRight(m, p, s[at[p]], Finished(m, p, rk))

Block(m, s, base, at, raw, rk) ==
  Frame(m, s, base, at) /\ Copied(m, s, base, at, raw, rk) /\ Flags(m, s, at, rk)

\* The places of headers and zvals do not overlap.
LEMMA Places1 ==
  ASSUME NEW m, IsValue(m), NEW s, NEW base, NEW at, Frame(m, s, base, at)
  PROVE  /\ \A p \in DOMAIN at:
              /\ p \in DOMAIN m /\ at[p] \in Nat /\ at[p] \in DOMAIN s /\ Body(m, at, p) \in Nat
              /\ Body(m, at, p) \in DOMAIN s
              /\ DOMAIN s[Body(m, at, p)].els = DOMAIN m[p].els
              /\ s[at[p]].kind \in {"entry", "str", "arr", "ref"}
              /\ s[Body(m, at, p)].kind = IF m[p].kind = "arr" THEN "data" ELSE KindOf(m, p)
         /\ \A p, q \in DOMAIN at:
              /\ Body(m, at, p) = Body(m, at, q) => p = q
              /\ Body(m, at, p) = at[q] => p = q /\ m[p].kind # "arr"
<1>1. /\ \A p, q \in DOMAIN at: at[p] = at[q] => p = q
      /\ \A p \in DOMAIN at: p \in DOMAIN m /\ at[p] \in Nat /\ Header(m, s, base, at, p)
      /\ \A p \in DOMAIN at: p = 0 \/ m[p].kind \in Storable
  BY DEF Frame, Places
<1>2. ASSUME NEW p \in DOMAIN at
      PROVE  /\ p \in DOMAIN m /\ at[p] \in Nat /\ at[p] \in DOMAIN s /\ Body(m, at, p) \in Nat
              /\ Body(m, at, p) \in DOMAIN s
             /\ DOMAIN s[Body(m, at, p)].els = DOMAIN m[p].els
             /\ s[at[p]].kind \in {"entry", "str", "arr", "ref"}
             /\ s[Body(m, at, p)].kind = IF m[p].kind = "arr" THEN "data" ELSE KindOf(m, p)
  <2>1. Header(m, s, base, at, p) /\ p \in DOMAIN m /\ at[p] \in Nat /\ (p = 0 \/ m[p].kind \in Storable)
    BY <1>1
  <2>2. Body(m, at, p) \in Nat
    BY <2>1, SizeNumbers DEF Body
  <2> QED
    BY <2>1, <2>2 DEF Header, Body, KindOf, Storable
<1>3. \A p \in DOMAIN at: KindOf(m, p) \in {"entry", "str", "arr", "ref"} /\ (p = 0 => m[p].kind # "arr")
  BY <1>1, ValueFacts DEF KindOf, Storable
<1>4. ASSUME NEW p \in DOMAIN at, NEW q \in DOMAIN at
      PROVE  /\ Body(m, at, p) = Body(m, at, q) => p = q
             /\ Body(m, at, p) = at[q] => p = q /\ m[p].kind # "arr"
  <2>0. /\ at[p] \in Nat /\ at[q] \in Nat /\ HtSize \in Nat /\ HtSize > 0
    BY <1>2, SizeNumbers
  <2>2. Body(m, at, p) = Body(m, at, q) => (m[p].kind = "arr" <=> m[q].kind = "arr")
    <3>1. Body(m, at, p) = Body(m, at, q) =>
            (IF m[p].kind = "arr" THEN "data" ELSE KindOf(m, p)) = (IF m[q].kind = "arr" THEN "data" ELSE KindOf(m, q))
      BY <1>2
    <3> QED
      BY <3>1, <1>3
  <2>3. Body(m, at, p) = Body(m, at, q) => at[p] = at[q]
    BY <2>0, <2>2 DEF Body
  <2>4. Body(m, at, p) = at[q] => m[p].kind # "arr"
    BY <1>2, <1>3
  <2>5. Body(m, at, p) = at[q] => at[p] = at[q]
    BY <2>4 DEF Body
  <2> QED
    BY <2>3, <2>4, <2>5, <1>1
<1> QED
  BY <1>2, <1>4

\* A frame does not depend on what is in the buckets.
LEMMA RewrittenFrame ==
  ASSUME NEW m, NEW s, NEW base, NEW at, Frame(m, s, base, at),
         NEW s2, NEW a, NEW i, NEW e, Rewritten(s, s2, a, i, e), IsBucket(e)
  PROVE  /\ Frame(m, s2, base, at)
         /\ \A rk: Flags(m, s, at, rk) => Flags(m, s2, at, rk)
         /\ \A key, off: KeyCopied(s, base, key, off) => KeyCopied(s2, base, key, off)
<1>0. /\ DOMAIN s2 = DOMAIN s
      /\ \A b \in DOMAIN s:
           SameHead(s2[b], s[b]) /\ DOMAIN s2[b].els = DOMAIN s[b].els
  BY DEF Rewritten
<1>1. Shaped(s2)
  BY RewrittenShaped DEF Frame
<1>2. Known(m, s2, at)
  BY <1>0 DEF Frame, Known, SameHead, SameFixed
<1>3. ASSUME NEW p \in DOMAIN at PROVE Header(m, s2, base, at, p)
  <2>1. Header(m, s, base, at, p)
    BY DEF Frame
  <2> QED
    BY <2>1, <1>0 DEF Header, SameHead, SameFixed, Body
<1>4. ASSUME NEW rk, Flags(m, s, at, rk) PROVE Flags(m, s2, at, rk)
  <2> SUFFICES ASSUME NEW p \in DOMAIN at, m[p].kind = "arr"
               PROVE  FlagsRight(m, p, s2[at[p]], Finished(m, p, rk))
    BY DEF Flags
  <2>1. FlagsRight(m, p, s[at[p]], Finished(m, p, rk))
    BY <1>4 DEF Flags
  <2>2. SameHead(s2[at[p]], s[at[p]])
    BY <1>0 DEF Frame, Header
  <2> QED
    BY <2>1, <2>2 DEF FlagsRight, SameHead
<1>5. \A key, off: KeyCopied(s, base, key, off) => KeyCopied(s2, base, key, off)
  BY <1>0 DEF KeyCopied, SameHead, SameFixed
<1> QED
  BY <1>1, <1>2, <1>3, <1>4, <1>5 DEF Frame

\* Only arrays have keys.
LEMMA ArrayKeys ==
  ASSUME NEW m, IsValue(m), NEW p \in DOMAIN m, NEW i \in DOMAIN m[p].els, m[p].kind # "arr"
  PROVE  m[p].els[i].key = None
<1>1. p = 0 \/ m[p].kind = "ref" \/ m[p].els = << >>
  BY DEF IsValue
<1>2. CASE p = 0 \/ m[p].kind = "ref"
  <2>1. Len(m[p].els) = 1 /\ m[p].els[1].key = None /\ m[p].els \in Seq(Buckets(m))
    BY <1>2 DEF IsValue
  <2> QED
    BY <2>1
<1>3. CASE m[p].els = << >>
  BY <1>3
<1> QED
  BY <1>1, <1>2, <1>3

\* A zval of a copied structure, and its copy.
LEMMA CellFacts ==
  ASSUME NEW m, IsValue(m), NEW s, NEW base, NEW at, Frame(m, s, base, at),
         NEW x \in Slots(m, DOMAIN at)
  PROVE  /\ x = <<x[1], x[2]>> /\ x[1] \in DOMAIN at /\ x[1] \in DOMAIN m /\ x[2] \in DOMAIN m[x[1]].els
         /\ Body(m, at, x[1]) \in DOMAIN s /\ x[2] \in DOMAIN s[Body(m, at, x[1])].els
         /\ Body(m, at, x[1]) \in Nat /\ x[2] \in Nat
         /\ IsBucket(Cell(m, s, at, x))
         /\ \A y \in Slots(m, DOMAIN at): Body(m, at, y[1]) = Body(m, at, x[1]) /\ y[2] = x[2] => y = x
<1>1. DOMAIN at \subseteq DOMAIN m
  BY DEF Frame, Places
<1>2. \A y \in Slots(m, DOMAIN at): y = <<y[1], y[2]>> /\ y[1] \in DOMAIN at /\ y[2] \in DOMAIN m[y[1]].els
  BY <1>1, SlotIn
<1>3. /\ x = <<x[1], x[2]>> /\ x[1] \in DOMAIN at /\ x[1] \in DOMAIN m /\ x[2] \in DOMAIN m[x[1]].els
  BY <1>1, <1>2
<1>4. /\ Body(m, at, x[1]) \in DOMAIN s /\ x[2] \in DOMAIN s[Body(m, at, x[1])].els
      /\ Body(m, at, x[1]) \in Nat
  BY <1>3, Places1
<1>5. x[2] \in Nat
  BY <1>3, SlotFacts
<1>6. IsBucket(Cell(m, s, at, x))
  BY <1>4 DEF Cell, Frame, Shaped
<1>7. ASSUME NEW y \in Slots(m, DOMAIN at), Body(m, at, y[1]) = Body(m, at, x[1]), y[2] = x[2] PROVE y = x
  <2>1. y[1] = x[1]
    BY <1>2, <1>3, <1>7, Places1
  <2> QED
    BY <2>1, <1>2, <1>3, <1>7
<1> QED
  BY <1>3, <1>4, <1>5, <1>6, <1>7

\* One zval has the bucket e, the others are as they were.
Only(m, s, s2, at, x, e) ==
  /\ Cell(m, s2, at, x) = e
  /\ \A y \in Slots(m, DOMAIN at): y # x => Cell(m, s2, at, y) = Cell(m, s, at, y)

\* The bucket e at x is no other zval's.
LEMMA OtherCells ==
  ASSUME NEW m, IsValue(m), NEW s, NEW base, NEW at, Frame(m, s, base, at),
         NEW x \in Slots(m, DOMAIN at), NEW s2, NEW e,
         Rewritten(s, s2, Body(m, at, x[1]), x[2], e)
  PROVE  Only(m, s, s2, at, x, e)
<1>1. Body(m, at, x[1]) \in DOMAIN s /\ x[2] \in DOMAIN s[Body(m, at, x[1])].els
  BY CellFacts
<1>2. Cell(m, s2, at, x) = e
  BY <1>1 DEF Cell, Rewritten
<1>3. ASSUME NEW y \in Slots(m, DOMAIN at), y # x PROVE Cell(m, s2, at, y) = Cell(m, s, at, y)
  <2>1. Body(m, at, y[1]) \in DOMAIN s /\ y[2] \in DOMAIN s[Body(m, at, y[1])].els
    BY CellFacts
  <2>2. ~(Body(m, at, y[1]) = Body(m, at, x[1]) /\ y[2] = x[2])
    BY <1>3, CellFacts
  <2> QED
    BY <2>1, <2>2 DEF Cell, Rewritten
<1> QED
  BY <1>2, <1>3 DEF Only

\* The value of a bucket is written, or was right as it is.
LEMMA BlockValue ==
  ASSUME NEW m, IsValue(m), NEW s, NEW base, NEW at, NEW raw, NEW rk, Block(m, s, base, at, raw, rk),
         NEW x \in Slots(m, DOMAIN at), x \in raw, NEW s2, NEW v,
         Rewritten(s, s2, Body(m, at, x[1]), x[2],
                   [h |-> Cell(m, s, at, x).h, key |-> Cell(m, s, at, x).key, val |-> v]),
         ValCopied(m, base, at, m[x[1]].els[x[2]].val, v),
         x \notin rk \/ m[x[1]].kind # "arr" \/ m[x[1]].els[x[2]].val.type = "undef"
  PROVE  Block(m, s2, base, at, raw \ {x}, rk \ {x})
<1> DEFINE c == Cell(m, s, at, x)
           w == m[x[1]].els[x[2]]
           e == [h |-> c.h, key |-> c.key, val |-> v]
<1>0. Frame(m, s, base, at) /\ Copied(m, s, base, at, raw, rk) /\ Flags(m, s, at, rk)
  BY DEF Block
<1>1. IsBucket(e) /\ e.h = c.h /\ e.key = c.key /\ e.val = v
  BY DEF IsBucket
<1> HIDE DEF e
<1>2. Rewritten(s, s2, Body(m, at, x[1]), x[2], e)
  BY DEF e, c
<1>3. /\ Frame(m, s2, base, at)
      /\ Flags(m, s2, at, rk)
      /\ \A key, off: KeyCopied(s, base, key, off) => KeyCopied(s2, base, key, off)
  BY <1>0, <1>1, <1>2, RewrittenFrame
<1>4. /\ Cell(m, s2, at, x) = e
      /\ \A y \in Slots(m, DOMAIN at): y # x => Cell(m, s2, at, y) = Cell(m, s, at, y)
  <2>1. Only(m, s, s2, at, x, e)
    BY <1>0, <1>2, OtherCells
  <2> QED
    BY <2>1 DEF Only
<1>5. /\ x = <<x[1], x[2]>> /\ x[1] \in DOMAIN at /\ x[1] \in DOMAIN m /\ x[2] \in DOMAIN m[x[1]].els
  BY <1>0, CellFacts
<1>6. m[x[1]].kind # "arr" => w.key = None
  BY <1>5, ArrayKeys
<1>7. /\ c.h = w.h
      /\ IF x \in rk \/ w.val.type = "undef" THEN c.key = w.key ELSE KeyCopied(s, base, w.key, c.key)
  BY <1>0 DEF Copied, c, w
<1>8. IF w.val.type = "undef" THEN e.key = w.key ELSE KeyCopied(s2, base, w.key, e.key)
  <2>1. CASE w.val.type = "undef"
    BY <2>1, <1>7, <1>1
  <2>2. CASE w.val.type # "undef" /\ x \notin rk
    BY <2>2, <1>7, <1>1, <1>3
  <2>3. CASE w.val.type # "undef" /\ x \in rk
    BY <2>3, <1>6, <1>7, <1>1 DEF w, KeyCopied
  <2> QED
    BY <2>1, <2>2, <2>3
<1>9. Copied(m, s2, base, at, raw \ {x}, rk \ {x})
  <2> SUFFICES ASSUME NEW y \in Slots(m, DOMAIN at)
               PROVE  LET b == m[y[1]].els[y[2]]
                          f == Cell(m, s2, at, y)
                      IN /\ f.h = b.h
                         /\ IF y \in raw \ {x} THEN f.val = b.val ELSE ValCopied(m, base, at, b.val, f.val)
                         /\ IF y \in rk \ {x} \/ b.val.type = "undef" THEN f.key = b.key
                            ELSE KeyCopied(s2, base, b.key, f.key)
    BY DEF Copied
  <2>1. CASE y = x
    BY <2>1, <1>1, <1>4, <1>7, <1>8 DEF w
  <2>2. CASE y # x
    <3>1. Cell(m, s2, at, y) = Cell(m, s, at, y)
      BY <2>2, <1>4
    <3>2. LET b == m[y[1]].els[y[2]]
              f == Cell(m, s, at, y)
          IN /\ f.h = b.h
             /\ IF y \in raw THEN f.val = b.val ELSE ValCopied(m, base, at, b.val, f.val)
             /\ IF y \in rk \/ b.val.type = "undef" THEN f.key = b.key ELSE KeyCopied(s, base, b.key, f.key)
      BY <1>0 DEF Copied
    <3> QED
      BY <3>1, <3>2, <2>2, <1>3
  <2> QED
    BY <2>1, <2>2
<1>10. Flags(m, s2, at, rk \ {x})
  <2> SUFFICES ASSUME NEW p \in DOMAIN at, m[p].kind = "arr"
               PROVE  FlagsRight(m, p, s2[at[p]], Finished(m, p, rk \ {x}))
    BY DEF Flags
  <2>1. FlagsRight(m, p, s2[at[p]], Finished(m, p, rk))
    BY <1>3 DEF Flags
  <2>2. Finished(m, p, rk \ {x}) = Finished(m, p, rk)
    <3>1. ASSUME NEW i \in Elements(m[p].els), <<p, i>> = x, x \in rk PROVE FALSE
      <4>1. p = x[1] /\ i = x[2]
        BY <3>1, <1>5
      <4> QED
        BY <4>1, <3>1 DEF Elements
    <3> QED
      BY <3>1 DEF Finished
  <2> QED
    BY <2>1, <2>2
<1> QED
  BY <1>3, <1>9, <1>10 DEF Block

\* A key is written.
LEMMA BlockKey ==
  ASSUME NEW m, IsValue(m), NEW s, NEW base, NEW at, NEW raw, NEW rk, Frame(m, s, base, at),
         Copied(m, s, base, at, raw, rk), NEW x \in Slots(m, DOMAIN at), x \in rk, NEW s2, NEW off,
         Rewritten(s, s2, Body(m, at, x[1]), x[2],
                   [h |-> Cell(m, s, at, x).h, key |-> off, val |-> Cell(m, s, at, x).val]),
         KeyCopied(s, base, m[x[1]].els[x[2]].key, off), m[x[1]].els[x[2]].val.type # "undef"
  PROVE  /\ Frame(m, s2, base, at) /\ Copied(m, s2, base, at, raw, rk \ {x})
         /\ \A K: Flags(m, s, at, K) => Flags(m, s2, at, K)
<1> DEFINE c == Cell(m, s, at, x)
           w == m[x[1]].els[x[2]]
           e == [h |-> c.h, key |-> off, val |-> c.val]
<1>1. IsBucket(e) /\ e.h = c.h /\ e.key = off /\ e.val = c.val
  BY DEF IsBucket
<1> HIDE DEF e
<1>2. Rewritten(s, s2, Body(m, at, x[1]), x[2], e)
  BY DEF e, c
<1>3. /\ Frame(m, s2, base, at)
      /\ \A K: Flags(m, s, at, K) => Flags(m, s2, at, K)
      /\ \A key, o: KeyCopied(s, base, key, o) => KeyCopied(s2, base, key, o)
  BY <1>1, <1>2, RewrittenFrame
<1>4. /\ Cell(m, s2, at, x) = e
      /\ \A y \in Slots(m, DOMAIN at): y # x => Cell(m, s2, at, y) = Cell(m, s, at, y)
  <2>1. Only(m, s, s2, at, x, e)
    BY <1>2, OtherCells
  <2> QED
    BY <2>1 DEF Only
<1>5. KeyCopied(s2, base, w.key, e.key) /\ w.val.type # "undef"
  BY <1>1, <1>3
<1>6. Copied(m, s2, base, at, raw, rk \ {x})
  <2> SUFFICES ASSUME NEW y \in Slots(m, DOMAIN at)
               PROVE  LET b == m[y[1]].els[y[2]]
                          f == Cell(m, s2, at, y)
                      IN /\ f.h = b.h
                         /\ IF y \in raw THEN f.val = b.val ELSE ValCopied(m, base, at, b.val, f.val)
                         /\ IF y \in rk \ {x} \/ b.val.type = "undef" THEN f.key = b.key
                            ELSE KeyCopied(s2, base, b.key, f.key)
    BY DEF Copied
  <2>1. LET b == m[y[1]].els[y[2]]
            f == Cell(m, s, at, y)
        IN /\ f.h = b.h
           /\ IF y \in raw THEN f.val = b.val ELSE ValCopied(m, base, at, b.val, f.val)
           /\ IF y \in rk \/ b.val.type = "undef" THEN f.key = b.key ELSE KeyCopied(s, base, b.key, f.key)
    BY DEF Copied
  <2>2. CASE y = x
    BY <2>1, <2>2, <1>1, <1>4, <1>5 DEF w, c
  <2>3. CASE y # x
    BY <2>1, <2>3, <1>3, <1>4
  <2> QED
    BY <2>2, <2>3
<1> QED
  BY <1>3, <1>6

\* The header of an array after an element whose index is known to be less than the largest.
LEMMA HeaderRight ==
  ASSUME NEW m, NEW p, NEW E, NEW i, i \in Elements(m[p].els), E \subseteq Elements(m[p].els),
         i \in Nat, i > 0, MaxLong \in Int, Index(m[p], i) \in Int, Index(m[p], i) <= MaxLong,
         \A n \in E: Index(m[p], n) \in Int,
         NEW x, FlagsRight(m, p, x, E), NEW y, x.static \in BOOLEAN,
         y.pos = IF x.pos = 0 THEN i ELSE x.pos,
         y.next = IF m[p].els[i].key # None THEN x.next ELSE Behind(x.next, Index(m[p], i)),
         y.static = (x.static /\ m[p].els[i].key = None)
  PROVE  FlagsRight(m, p, y, E \cup {i})
<1>1. IF y.pos = 0 THEN E \cup {i} = {} ELSE y.pos \in Elements(m[p].els)
  BY DEF FlagsRight
<1>2. x.next \in Int /\ y.next \in Int
  BY DEF FlagsRight, Behind, Wrap
<1>3. y.static => \A j \in E \cup {i}: m[p].els[j].key = None
  BY DEF FlagsRight
<1>4. CASE MaxLong \in Indices(m, p, Elements(m[p].els))
  BY <1>1, <1>2, <1>3, <1>4 DEF FlagsRight
<1>5. CASE MaxLong \notin Indices(m, p, Elements(m[p].els))
  <2>1. \A n \in Indices(m, p, E): n < x.next /\ n \in Int
    BY <1>5 DEF FlagsRight, Indices
  <2>2. CASE m[p].els[i].key # None
    <3>1. Indices(m, p, E \cup {i}) = Indices(m, p, E)
      BY <2>2 DEF Indices
    <3> QED
      BY <1>1, <1>2, <1>3, <2>1, <2>2, <3>1 DEF FlagsRight
  <2>3. CASE m[p].els[i].key = None
    <3>1. Indices(m, p, E \cup {i}) = Indices(m, p, E) \cup {Index(m[p], i)}
      BY <2>3 DEF Indices
    <3>2. Index(m[p], i) < MaxLong
      <4>1. Index(m[p], i) # MaxLong
        BY <1>5, <2>3 DEF Indices
      <4> QED
        BY <4>1
    <3>3. Wrap(Index(m[p], i) + 1) = Index(m[p], i) + 1
      BY <3>2 DEF Wrap
    <3>4. y.next >= x.next /\ y.next > Index(m[p], i)
      BY <2>3, <3>3, <1>2 DEF Behind
    <3>5. \A n \in Indices(m, p, E \cup {i}): n < y.next
      BY <3>1, <3>4, <2>1, <1>2
    <3> QED
      BY <1>1, <1>2, <1>3, <3>5 DEF FlagsRight
  <2> QED
    BY <2>2, <2>3
<1> QED
  BY <1>4, <1>5

\* The header for the element x of an array, from s to s2.
HeaderFor(m, s, s2, at, x) ==
  HeaderSet(s, s2, at[x[1]],
    IF s[at[x[1]]].pos = 0 THEN x[2] ELSE s[at[x[1]]].pos,
    IF m[x[1]].els[x[2]].key # None THEN s[at[x[1]]].next
    ELSE Behind(s[at[x[1]]].next, Index(m[x[1]], x[2])),
    s[at[x[1]]].static /\ m[x[1]].els[x[2]].key = None)

\* The header of an array is brought up to one more element.
LEMMA BlockHeader ==
  ASSUME NEW m, IsValue(m), NEW s, NEW base, NEW at, NEW raw, NEW rk, Block(m, s, base, at, raw, rk),
         NEW x \in Slots(m, DOMAIN at), x \in rk, m[x[1]].kind = "arr",
         m[x[1]].els[x[2]].val.type # "undef", NEW s2,
         HeaderFor(m, s, s2, at, x)
  PROVE  /\ Frame(m, s2, base, at) /\ Copied(m, s2, base, at, raw, rk) /\ Flags(m, s2, at, rk \ {x})
         /\ \A y \in Slots(m, DOMAIN at): Cell(m, s2, at, y) = Cell(m, s, at, y)
<1> DEFINE a == at[x[1]]
<1>0. Frame(m, s, base, at) /\ Copied(m, s, base, at, raw, rk) /\ Flags(m, s, at, rk)
  BY DEF Block
<1>1. /\ x = <<x[1], x[2]>> /\ x[1] \in DOMAIN at /\ x[1] \in DOMAIN m /\ x[2] \in DOMAIN m[x[1]].els
  BY <1>0, CellFacts
<1>2. /\ a \in DOMAIN s /\ DOMAIN s2 = DOMAIN s /\ \A b \in DOMAIN s: b # a => s2[b] = s[b]
      /\ IsStruct(s2[a]) /\ SameFixed(s2[a], s[a]) /\ s2[a].els = s[a].els
      /\ s[a].static \in BOOLEAN
      /\ s2[a].static = (s[a].static /\ m[x[1]].els[x[2]].key = None)
      /\ s2[a].pos = IF s[a].pos = 0 THEN x[2] ELSE s[a].pos
      /\ s2[a].next = IF m[x[1]].els[x[2]].key # None THEN s[a].next
                      ELSE Behind(s[a].next, Index(m[x[1]], x[2]))
  BY <1>0, <1>1, Places1 DEF HeaderFor, HeaderSet, Frame, Shaped
<1>3. /\ \A p \in DOMAIN at: Body(m, at, p) # a /\ Body(m, at, p) \in DOMAIN s
      /\ \A p \in DOMAIN at: at[p] = a => p = x[1]
      /\ \A p \in DOMAIN at: at[p] \in DOMAIN s
  BY <1>0, <1>1, Places1 DEF Frame, Places
<1> HIDE DEF a
<1>4. \A b \in DOMAIN s: SameFixed(s2[b], s[b]) /\ s2[b].els = s[b].els
  BY <1>2 DEF SameFixed
<1>5. Shaped(s2)
  BY <1>0, <1>2, <1>4 DEF Frame, Shaped, SameFixed
<1>6. Known(m, s2, at)
  BY <1>0, <1>2, <1>4 DEF Frame, Known, SameFixed
<1>7. ASSUME NEW p \in DOMAIN at PROVE Header(m, s2, base, at, p)
  <2>1. Header(m, s, base, at, p)
    BY <1>0 DEF Frame
  <2> QED
    BY <2>1, <1>2, <1>4 DEF Header, SameFixed, Body
<1>8. Frame(m, s2, base, at)
  BY <1>0, <1>5, <1>6, <1>7 DEF Frame
<1>9. \A y \in Slots(m, DOMAIN at): Cell(m, s2, at, y) = Cell(m, s, at, y)
  <2> SUFFICES ASSUME NEW y \in Slots(m, DOMAIN at) PROVE Cell(m, s2, at, y) = Cell(m, s, at, y)
    OBVIOUS
  <2>1. y[1] \in DOMAIN at
    BY <1>0, CellFacts
  <2> QED
    BY <2>1, <1>3, <1>4 DEF Cell
<1>10. \A key, off: KeyCopied(s, base, key, off) => KeyCopied(s2, base, key, off)
  BY <1>2, <1>4 DEF KeyCopied, SameFixed
<1>11. Copied(m, s2, base, at, raw, rk)
  BY <1>0, <1>9, <1>10 DEF Copied
<1>12. Flags(m, s2, at, rk \ {x})
  <2> SUFFICES ASSUME NEW p \in DOMAIN at, m[p].kind = "arr"
               PROVE  FlagsRight(m, p, s2[at[p]], Finished(m, p, rk \ {x}))
    BY DEF Flags
  <2>1. FlagsRight(m, p, s[at[p]], Finished(m, p, rk))
    BY <1>0 DEF Flags
  <2>2. CASE p # x[1]
    <3>1. Finished(m, p, rk \ {x}) = Finished(m, p, rk)
      BY <2>2, <1>1 DEF Finished
    <3>2. s2[at[p]] = s[at[p]]
      BY <2>2, <1>2, <1>3
    <3> QED
      BY <2>1, <3>1, <3>2
  <2>3. CASE p = x[1]
    <3> DEFINE i == x[2]
               E == Finished(m, p, rk)
    <3>1. i \in Elements(m[p].els) /\ x = <<p, i>>
      BY <2>3, <1>1 DEF Elements
    <3>2. Finished(m, p, rk \ {x}) = E \cup {i}
      BY <3>1 DEF Finished
    <3>3. ASSUME NEW j \in DOMAIN m[p].els
          PROVE  j \in Nat /\ j > 0 /\ Index(m[p], j) \in Int /\ Index(m[p], j) <= MaxLong
      <4>1. j \in Nat /\ j > 0 /\ j <= MaxLong /\ m[p].els[j].h \in Int /\ m[p].els[j].h <= MaxLong
        BY <1>1, <2>3, SlotFacts
      <4> QED
        BY <4>1, SizeAssumption DEF Index
    <3>4. E \subseteq Elements(m[p].els) /\ Elements(m[p].els) \subseteq DOMAIN m[p].els
      BY DEF Finished, Elements
    <3>5. MaxLong \in Int /\ at[p] = a
      BY <2>3, SizeAssumption DEF a
    <3>6. FlagsRight(m, p, s[a], E)
      BY <2>1, <3>5
    <3> HIDE DEF E
    <3>7. /\ i \in Nat /\ i > 0 /\ Index(m[p], i) \in Int /\ Index(m[p], i) <= MaxLong
          /\ \A n \in E: Index(m[p], n) \in Int
      BY <3>1, <3>3, <3>4
    <3>8. FlagsRight(m, p, s2[a], E \cup {i})
      BY <3>1, <3>4, <3>5, <3>6, <3>7, <1>2, <2>3, HeaderRight
    <3> QED
      BY <3>2, <3>5, <3>8
  <2> QED
    BY <2>2, <2>3
<1> QED
  BY <1>8, <1>9, <1>11, <1>12

\* A string is added: nothing else changes.
LEMMA BlockString ==
  ASSUME NEW m, IsValue(m), NEW s, NEW base, NEW at, Frame(m, s, base, at), NEW s2, NEW a, NEW x,
         Added(s, s2, a, x), a \notin DOMAIN s, a \in Nat,
         IsStruct(x), x.static \in BOOLEAN, x.kind = "str", DOMAIN x.els = {}
  PROVE  /\ Frame(m, s2, base, at)
         /\ \A raw, rk: Copied(m, s, base, at, raw, rk) => Copied(m, s2, base, at, raw, rk)
         /\ \A rk: Flags(m, s, at, rk) => Flags(m, s2, at, rk)
         /\ \A key, off: KeyCopied(s, base, key, off) => KeyCopied(s2, base, key, off)
         /\ \A y \in Slots(m, DOMAIN at): Cell(m, s2, at, y) = Cell(m, s, at, y)
<1>1. DOMAIN s2 = DOMAIN s \cup {a} /\ s2[a] = x /\ \A b \in DOMAIN s: s2[b] = s[b]
  BY DEF Added
<1>2. \A p \in DOMAIN at: at[p] \in DOMAIN s /\ Body(m, at, p) \in DOMAIN s
  BY Places1
<1>3. Shaped(s2)
  BY <1>1 DEF Frame, Shaped
<1>4. Known(m, s2, at)
  BY <1>1 DEF Frame, Known
<1>5. ASSUME NEW p \in DOMAIN at PROVE Header(m, s2, base, at, p)
  <2>1. Header(m, s, base, at, p)
    BY DEF Frame
  <2> QED
    BY <2>1, <1>1, <1>2 DEF Header, Body
<1>6. \A y \in Slots(m, DOMAIN at): Cell(m, s2, at, y) = Cell(m, s, at, y)
  <2> SUFFICES ASSUME NEW y \in Slots(m, DOMAIN at) PROVE Cell(m, s2, at, y) = Cell(m, s, at, y)
    OBVIOUS
  <2>1. y[1] \in DOMAIN at
    BY CellFacts
  <2> QED
    BY <2>1, <1>1, <1>2 DEF Cell
<1>7. \A key, off: KeyCopied(s, base, key, off) => KeyCopied(s2, base, key, off)
  BY <1>1 DEF KeyCopied
<1>8. \A raw, rk: Copied(m, s, base, at, raw, rk) => Copied(m, s2, base, at, raw, rk)
  BY <1>6, <1>7 DEF Copied
<1>9. \A rk: Flags(m, s, at, rk) => Flags(m, s2, at, rk)
  BY <1>1, <1>2 DEF Flags
<1>10. Frame(m, s2, base, at)
  BY <1>3, <1>4, <1>5 DEF Frame
<1> QED
  BY <1>6, <1>7, <1>8, <1>9, <1>10

\* The structure q has its copy at c.
Extended(at, at2, q, c) ==
  /\ q \notin DOMAIN at /\ DOMAIN at2 = DOMAIN at \cup {q} /\ at2[q] = c
  /\ \A p \in DOMAIN at: at2[p] = at[p]
\* What is there at first.
NewStructure(m, s, base, at, q) ==
  /\ Header(m, s, base, at, q) /\ s[Body(m, at, q)].els = m[q].els
  /\ \A a \in {at[q], Body(m, at, q)}:
       /\ IsStruct(s[a]) /\ s[a].static \in BOOLEAN /\ s[a].pos = 0 /\ s[a].next = 0
       /\ s[a].kind = "str" => DOMAIN s[a].els = {}
       /\ a = Body(m, at, q) \/ DOMAIN s[a].els = {}

\* A structure is added, with the zvals in it as they were.
LEMMA BlockStructure ==
  ASSUME NEW m, IsValue(m), NEW s, NEW base, NEW at, NEW raw, NEW rk, Block(m, s, base, at, raw, rk),
         NEW at2, NEW q, NEW c, Extended(at, at2, q, c), q \in DOMAIN m, m[q].kind \in Storable,
         ~IsEmpty(m[q]), c \in Nat, NEW s2, c \notin DOMAIN s, Body(m, at2, q) \notin DOMAIN s,
         DOMAIN s2 = DOMAIN s \cup {c, Body(m, at2, q)}, \A b \in DOMAIN s: s2[b] = s[b],
         NewStructure(m, s2, base, at2, q), raw \subseteq Slots(m, DOMAIN at), rk \subseteq raw
  PROVE  Block(m, s2, base, at2, raw \cup Slots(m, {q}), rk \cup Slots(m, {q}))
<1> DEFINE d == Body(m, at2, q)
           raw2 == raw \cup Slots(m, {q})
           rk2 == rk \cup Slots(m, {q})
<1>0. Frame(m, s, base, at) /\ Copied(m, s, base, at, raw, rk) /\ Flags(m, s, at, rk)
  BY DEF Block
<1>1. /\ q \notin DOMAIN at /\ DOMAIN at2 = DOMAIN at \cup {q} /\ at2[q] = c
      /\ \A p \in DOMAIN at: at2[p] = at[p] /\ Body(m, at2, p) = Body(m, at, p)
  BY DEF Extended, Body
<1>2. /\ \A p \in DOMAIN at: at[p] \in DOMAIN s /\ Body(m, at, p) \in DOMAIN s
      /\ \A p \in DOMAIN at: p \in DOMAIN m /\ at[p] \in Nat /\ at[p] # c
  BY <1>0, Places1
<1>3. /\ Header(m, s2, base, at2, q) /\ s2[d].els = m[q].els
      /\ \A a \in {c, d}: /\ IsStruct(s2[a]) /\ s2[a].static \in BOOLEAN /\ s2[a].pos = 0 /\ s2[a].next = 0
                          /\ s2[a].kind = "str" => DOMAIN s2[a].els = {}
                          /\ a = d \/ DOMAIN s2[a].els = {}
  BY <1>1 DEF NewStructure
<1>4. d \in Nat /\ c \in DOMAIN s2 /\ d \in DOMAIN s2 /\ d \notin DOMAIN s
  <2>1. d = IF m[q].kind = "arr" THEN c + HtSize ELSE c
    BY <1>1 DEF Body
  <2> QED
    BY <2>1, SizeNumbers
<1>5. q # 0 /\ 0 \in DOMAIN at
  BY <1>0, <1>1 DEF Frame, Places
<1>6. Places(m, base, at2)
  <2>1. /\ base \in Nat /\ DOMAIN at \subseteq DOMAIN m /\ 0 \in DOMAIN at /\ at[0] = base
        /\ \A p, r \in DOMAIN at: at[p] = at[r] => p = r
        /\ \A p \in DOMAIN at \ {0}: m[p].kind \in Storable /\ ~IsEmpty(m[p])
    BY <1>0 DEF Frame, Places
  <2>2. \A p, r \in DOMAIN at2: at2[p] = at2[r] => p = r
    BY <2>1, <1>1, <1>2
  <2> QED
    BY <2>1, <2>2, <1>1, <1>2 DEF Places
<1> HIDE DEF d
<1>7. Shaped(s2)
  <2>1. DOMAIN s2 = DOMAIN s \cup {c, d}
    BY DEF d
  <2>2. DOMAIN s2 \subseteq Nat
    BY <2>1, <1>0, <1>4 DEF Frame, Shaped
  <2>3. ASSUME NEW a \in {c, d}, NEW i \in DOMAIN s2[a].els PROVE IsBucket(s2[a].els[i])
    <3>1. a = d /\ i \in DOMAIN m[q].els /\ s2[a].els[i] = m[q].els[i]
      BY <2>3, <1>3
    <3>2. IsBucket(m[q].els[i])
      BY <3>1, SlotFacts
    <3> QED
      BY <3>1, <3>2
  <2>4. ASSUME NEW a \in DOMAIN s2
        PROVE  /\ IsStruct(s2[a]) /\ s2[a].static \in BOOLEAN
               /\ s2[a].kind = "str" => DOMAIN s2[a].els = {}
               /\ \A i \in DOMAIN s2[a].els: IsBucket(s2[a].els[i])
    <3>1. CASE a \in DOMAIN s
      BY <3>1, <1>0 DEF Frame, Shaped
    <3>2. CASE a \in {c, d}
      BY <3>2, <2>3, <1>3
    <3> QED
      BY <3>1, <3>2, <2>1
  <2> QED
    BY <2>2, <2>4 DEF Shaped
<1>8. Known(m, s2, at2)
  <2>1. ASSUME NEW a \in DOMAIN s2
        PROVE  s2[a].kind = "str" \/ \E p \in DOMAIN at2: a \in {at2[p], Body(m, at2, p)}
    <3>1. CASE a \in DOMAIN s
      BY <3>1, <1>0, <1>1 DEF Frame, Known
    <3>2. CASE a \in {c, d}
      BY <3>2, <1>1 DEF d
    <3> QED
      BY <3>1, <3>2 DEF d
  <2> QED
    BY <2>1 DEF Known
<1>9. ASSUME NEW p \in DOMAIN at2 PROVE Header(m, s2, base, at2, p)
  <2>1. CASE p = q
    BY <2>1, <1>3
  <2>2. CASE p \in DOMAIN at
    <3>1. Header(m, s, base, at, p) /\ at2[p] = at[p] /\ Body(m, at2, p) = Body(m, at, p)
      BY <2>2, <1>0, <1>1 DEF Frame
    <3> QED
      BY <3>1 DEF Header, Body
  <2> QED
    BY <2>1, <2>2, <1>1
<1>10. Frame(m, s2, base, at2)
  BY <1>6, <1>7, <1>8, <1>9 DEF Frame
<1>11. DOMAIN at2 \subseteq DOMAIN m /\ DOMAIN at \subseteq DOMAIN m /\ {q} \subseteq DOMAIN m
  BY <1>1, <1>2
<1>12. \A y, z: ValCopied(m, base, at, y, z) => ValCopied(m, base, at2, y, z)
  BY <1>1 DEF ValCopied
<1>13. \A key, off: KeyCopied(s, base, key, off) => KeyCopied(s2, base, key, off)
  BY DEF KeyCopied
<1>14. Copied(m, s2, base, at2, raw2, rk2)
  <2> SUFFICES ASSUME NEW y \in Slots(m, DOMAIN at2)
               PROVE  LET b == m[y[1]].els[y[2]]
                          f == Cell(m, s2, at2, y)
                      IN /\ f.h = b.h
                         /\ IF y \in raw2 THEN f.val = b.val ELSE ValCopied(m, base, at2, b.val, f.val)
                         /\ IF y \in rk2 \/ b.val.type = "undef" THEN f.key = b.key
                            ELSE KeyCopied(s2, base, b.key, f.key)
    BY DEF Copied
  <2>1. y = <<y[1], y[2]>> /\ y[1] \in DOMAIN at2 /\ y[2] \in DOMAIN m[y[1]].els
    BY <1>11, SlotIn
  <2>2. CASE y[1] = q
    <3>1. y \in raw2 /\ y \in rk2
      <4>1. <<y[1], y[2]>> \in Slots(m, {q})
        BY <2>1, <2>2, <1>11, SlotIn
      <4> QED
        BY <4>1, <2>1
    <3>2. Cell(m, s2, at2, y) = m[y[1]].els[y[2]]
      BY <2>2, <1>3 DEF Cell, d
    <3> QED
      BY <3>1, <3>2
  <2>3. CASE y[1] \in DOMAIN at
    <3>1. y \in Slots(m, DOMAIN at)
      <4>1. <<y[1], y[2]>> \in Slots(m, DOMAIN at)
        BY <2>1, <2>3, <1>11, SlotIn
      <4> QED
        BY <4>1, <2>1
    <3>2. Cell(m, s2, at2, y) = Cell(m, s, at, y)
      BY <2>3, <1>1, <1>2 DEF Cell
    <3>3. (y \in raw2 <=> y \in raw) /\ (y \in rk2 <=> y \in rk)
      <4>1. y \notin Slots(m, {q})
        BY <2>3, <1>1 DEF Slots
      <4> QED
        BY <4>1
    <3> HIDE DEF raw2, rk2
    <3>4. LET b == m[y[1]].els[y[2]]
              f == Cell(m, s, at, y)
          IN /\ f.h = b.h
             /\ IF y \in raw THEN f.val = b.val ELSE ValCopied(m, base, at, b.val, f.val)
             /\ IF y \in rk \/ b.val.type = "undef" THEN f.key = b.key ELSE KeyCopied(s, base, b.key, f.key)
      BY <3>1, <1>0 DEF Copied
    <3> QED
      BY <3>2, <3>3, <3>4, <1>12, <1>13
  <2> QED
    BY <2>1, <2>2, <2>3, <1>1
<1>15. Flags(m, s2, at2, rk2)
  <2> SUFFICES ASSUME NEW p \in DOMAIN at2, m[p].kind = "arr"
               PROVE  FlagsRight(m, p, s2[at2[p]], Finished(m, p, rk2))
    BY DEF Flags
  <2>1. CASE p = q
    <3>1. Finished(m, p, rk2) = {}
      <4>1. \A i \in Elements(m[q].els): <<q, i>> \in Slots(m, {q})
        BY <1>11, SlotIn DEF Elements
      <4> QED
        BY <4>1, <2>1 DEF Finished
    <3>2. s2[at2[p]].pos = 0 /\ s2[at2[p]].next = 0
      BY <2>1, <1>1, <1>3
    <3> HIDE DEF rk2
    <3> QED
      BY <3>1, <3>2 DEF FlagsRight, Indices
  <2>2. CASE p \in DOMAIN at
    <3>1. Finished(m, p, rk2) = Finished(m, p, rk)
      <4>1. \A i: <<p, i>> \notin Slots(m, {q})
        BY <2>2, <1>1 DEF Slots
      <4> QED
        BY <4>1 DEF Finished
    <3>2. s2[at2[p]] = s[at[p]]
      BY <2>2, <1>1, <1>2
    <3>3. FlagsRight(m, p, s[at[p]], Finished(m, p, rk))
      BY <2>2, <1>0 DEF Flags
    <3> QED
      BY <3>1, <3>2, <3>3
  <2> QED
    BY <2>1, <2>2, <1>1
<1> QED
  BY <1>10, <1>14, <1>15 DEF Block

-----------------------------------------------------------------------------
(* The state of the copy *)

At(base, done) == [p \in DOMAIN done \cup {0} |-> IF p = 0 THEN base ELSE done[p]]
Half(m, base, s, done, cur, raw, rk) ==
  /\ 0 \notin DOMAIN done /\ Block(m, s, base, At(base, done), raw, rk)
  /\ raw \subseteq Slots(m, DOMAIN done \cup {0}) /\ rk \subseteq raw
  /\ \A a \in DOMAIN s: base <= a /\ a < cur
  /\ cur = base + Counted(m, DOMAIN done, rk)
\* The list of the zvals raw.
Lists(m, at, t, raw) ==
  /\ t \in Seq(Nat \X Nat) /\ Once(t)
  /\ Members(t) = {<<Body(m, at, x[1]), x[2]>>: x \in raw}

\* The addresses of the copies, with the entry for the variable.
LEMMA AtFacts ==
  ASSUME NEW base, NEW done, 0 \notin DOMAIN done
  PROVE  /\ DOMAIN At(base, done) = DOMAIN done \cup {0} /\ At(base, done)[0] = base
         /\ \A p \in DOMAIN done: At(base, done)[p] = done[p]
BY DEF At

\* Another one is added.
LEMMA AtPut ==
  ASSUME NEW base, NEW done, 0 \notin DOMAIN done, NEW q, NEW c, q # 0, q \notin DOMAIN done
  PROVE  /\ Extended(At(base, done), At(base, Put(done, q, c)), q, c)
         /\ DOMAIN Put(done, q, c) = DOMAIN done \cup {q} /\ 0 \notin DOMAIN Put(done, q, c)
<1> DEFINE d == Put(done, q, c)
<1>1. DOMAIN d = DOMAIN done \cup {q} /\ d[q] = c /\ \A p \in DOMAIN done: d[p] = done[p]
  BY DEF Put
<1> HIDE DEF d
<1>2. Extended(At(base, done), At(base, d), q, c)
  BY <1>1 DEF Extended, At
<1> QED
  BY <1>1, <1>2 DEF d

\* What a state of the copy has.
Basics(m, base, s, done, cur, raw, rk) ==
  /\ DOMAIN done \subseteq DOMAIN m /\ base \in Nat /\ cur \in Nat /\ cur >= base + EntrySize
  /\ DOMAIN At(base, done) = DOMAIN done \cup {0} /\ raw \subseteq Slots(m, DOMAIN At(base, done))
  /\ rk \subseteq raw /\ cur \notin DOMAIN s /\ cur + HtSize \notin DOMAIN s
\* What the state of the copy comes to.
LEMMA HalfFacts ==
  ASSUME NEW m, IsValue(m), NEW base, NEW s, NEW done, NEW cur, NEW raw, NEW rk,
         Half(m, base, s, done, cur, raw, rk)
  PROVE  /\ Basics(m, base, s, done, cur, raw, rk)
         /\ Frame(m, s, base, At(base, done))
         /\ base \in DOMAIN s /\ s[base].kind = "entry" /\ DOMAIN s[base].els = {1}
<1> DEFINE at == At(base, done)
<1>1. /\ 0 \notin DOMAIN done /\ Frame(m, s, base, at)
      /\ raw \subseteq Slots(m, DOMAIN done \cup {0}) /\ rk \subseteq raw
      /\ \A a \in DOMAIN s: base <= a /\ a < cur
      /\ cur = base + Counted(m, DOMAIN done, rk)
  BY DEF Half, Block
<1>2. DOMAIN at = DOMAIN done \cup {0} /\ at[0] = base
  BY <1>1, AtFacts
<1> HIDE DEF at
<1>3. DOMAIN done \subseteq DOMAIN m /\ base \in Nat /\ DOMAIN s \subseteq Nat
  BY <1>1, <1>2 DEF Frame, Places, Shaped
<1>4. Counted(m, DOMAIN done, rk) \in Nat /\ Counted(m, DOMAIN done, rk) >= EntrySize
  <2>1. IsFiniteSet(Keyed(m, DOMAIN done) \ rk)
    BY <1>3, SlotsFinite, FS_Subset
  <2> QED
    BY <2>1, <1>3, SizeIsNat DEF Counted
<1>5. cur \in Nat /\ cur >= base + EntrySize
  BY <1>1, <1>3, <1>4, SizeAssumption
<1>6. cur \notin DOMAIN s /\ cur + HtSize \notin DOMAIN s
  BY <1>1, <1>3, <1>5, SizeNumbers
<1>7. base \in DOMAIN s /\ s[base].kind = "entry" /\ DOMAIN s[base].els = {1}
  <2>1. Header(m, s, base, at, 0)
    BY <1>1, <1>2 DEF Frame
  <2>2. m[0].kind = "zval" /\ DOMAIN m[0].els = {1}
    BY ValueFacts
  <2> QED
    BY <2>1, <2>2, <1>2 DEF Header, KindOf, Body
<1> QED
  BY <1>1, <1>2, <1>3, <1>5, <1>6, <1>7 DEF at, Basics

\* A value is written.
LEMMA HalfValue ==
  ASSUME NEW m, IsValue(m), NEW base, NEW s, NEW done, NEW cur, NEW raw, NEW rk,
         Half(m, base, s, done, cur, raw, rk), NEW x \in raw, NEW s2, NEW v, NEW at, at = At(base, done),
         Rewritten(s, s2, Body(m, at, x[1]), x[2],
                   [h |-> Cell(m, s, at, x).h, key |-> Cell(m, s, at, x).key, val |-> v]),
         ValCopied(m, base, at, m[x[1]].els[x[2]].val, v),
         x \notin rk \/ m[x[1]].kind # "arr" \/ m[x[1]].els[x[2]].val.type = "undef"
  PROVE  Half(m, base, s2, done, cur, raw \ {x}, rk \ {x})
<1>1. /\ x \in Slots(m, DOMAIN at) /\ x \in Slots(m, DOMAIN done \cup {0}) /\ DOMAIN done \subseteq DOMAIN m
      /\ Block(m, s, base, at, raw, rk) /\ Frame(m, s, base, at)
  <2>1. /\ DOMAIN done \subseteq DOMAIN m /\ raw \subseteq Slots(m, DOMAIN At(base, done))
        /\ Frame(m, s, base, At(base, done))
    BY HalfFacts DEF Basics
  <2>2. raw \subseteq Slots(m, DOMAIN done \cup {0}) /\ Block(m, s, base, At(base, done), raw, rk)
    BY DEF Half
  <2> QED
    BY <2>1, <2>2
<1>2. Block(m, s2, base, at, raw \ {x}, rk \ {x})
  BY <1>1, BlockValue
<1>3. Counted(m, DOMAIN done, rk \ {x}) = Counted(m, DOMAIN done, rk)
  <2>1. CASE x \notin rk
    <3>1. rk \ {x} = rk
      BY <2>1
    <3> QED
      BY <3>1
  <2>2. CASE x \in rk
    <3>1. AddsUp(Counted(m, DOMAIN done, rk), KeySize(m[x[1]].els[x[2]]), Counted(m, DOMAIN done, rk \ {x}))
      BY <2>2, <1>1, KeyCounts
    <3>2. x[1] \in DOMAIN m /\ x[2] \in DOMAIN m[x[1]].els
      BY <1>1, CellFacts
    <3>3. KeySize(m[x[1]].els[x[2]]) = 0
      BY <2>2, <3>2, ArrayKeys DEF KeySize, IsKeyed
    <3> QED
      BY <3>1, <3>3 DEF AddsUp
  <2> QED
    BY <2>1, <2>2
<1>4. DOMAIN s2 = DOMAIN s
  BY DEF Rewritten
<1> QED
  BY <1>2, <1>3, <1>4 DEF Half

\* A structure is added.
LEMMA HalfStructure ==
  ASSUME NEW m, IsValue(m), NEW base, NEW s, NEW done, NEW cur, NEW raw, NEW rk,
         Half(m, base, s, done, cur, raw, rk), NEW q \in DOMAIN m, q \notin DOMAIN done, q # 0,
         m[q].kind \in Storable, ~IsEmpty(m[q]), NEW s2, NEW at2, at2 = At(base, Put(done, q, cur)),
         DOMAIN s2 = DOMAIN s \cup {cur, Body(m, at2, q)}, \A b \in DOMAIN s: s2[b] = s[b],
         NewStructure(m, s2, base, at2, q)
  PROVE  Half(m, base, s2, Put(done, q, cur), cur + Weight(m[q]),
              raw \cup Slots(m, {q}), rk \cup Slots(m, {q}))
<1> DEFINE at == At(base, done)
           D == DOMAIN done
           raw2 == raw \cup Slots(m, {q})
           rk2 == rk \cup Slots(m, {q})
           w == Weight(m[q])
<1>1. /\ D \subseteq DOMAIN m /\ cur \in Nat /\ base \in Nat /\ cur >= base
      /\ raw \subseteq Slots(m, DOMAIN at) /\ DOMAIN at = D \cup {0}
      /\ rk \subseteq raw /\ cur \notin DOMAIN s /\ cur + HtSize \notin DOMAIN s
  <2>1. Basics(m, base, s, done, cur, raw, rk)
    BY HalfFacts
  <2> QED
    BY <2>1, SizeAssumption DEF Basics
<1>2. /\ 0 \notin D /\ Block(m, s, base, at, raw, rk)
      /\ \A a \in DOMAIN s: base <= a /\ a < cur
      /\ cur = base + Counted(m, D, rk)
  BY DEF Half
<1>3. /\ Extended(at, at2, q, cur) /\ DOMAIN Put(done, q, cur) = D \cup {q} /\ 0 \notin DOMAIN Put(done, q, cur)
  BY <1>2, AtPut
<1> HIDE DEF at
<1>4. Body(m, at2, q) = (IF m[q].kind = "arr" THEN cur + HtSize ELSE cur) /\ Body(m, at2, q) \notin DOMAIN s
  BY <1>1, <1>3 DEF Extended, Body
<1>5. Block(m, s2, base, at2, raw2, rk2)
  <2>1. Body(m, at2, q) \notin DOMAIN s
    BY <1>4
  <2> QED
    BY <2>1, <1>1, <1>2, <1>3, BlockStructure
<1>6. AddsUp(Counted(m, D, rk), w, Counted(m, D \cup {q}, rk2))
  <2>1. Keyed(m, D \cup {q}) \ rk2 = Keyed(m, D) \ rk
    <3>1. ASSUME NEW x PROVE x \in Slots(m, (D \cup {q}) \cup {0}) <=> x \in Slots(m, D \cup {0}) \/ x \in Slots(m, {q})
      BY DEF Slots
    <3>2. ASSUME NEW x PROVE ~(x \in Slots(m, D \cup {0}) /\ x \in Slots(m, {q}))
      BY DEF Slots
    <3> HIDE DEF D
    <3>3. ASSUME NEW x
          PROVE  x \in Keyed(m, D \cup {q}) \ rk2 <=> x \in Keyed(m, D) \ rk
      BY <3>1, <3>2 DEF Keyed
    <3> QED
      BY <3>3
  <2> HIDE DEF D, rk2
  <2> QED
    BY <2>1, <1>1, WeightCounts DEF D
<1>7. w > 0 /\ w \in Nat /\ Body(m, at2, q) \in Nat /\ cur <= Body(m, at2, q) /\ Body(m, at2, q) < cur + w
  <2>1. /\ Weights(m)[q] = w
        /\ m[q].kind = "str" => w = StrSize(m[q].len)
        /\ m[q].kind = "ref" => w = RefSize
        /\ m[q].kind = "arr" => w = HtSize + DataSize(m[q].packed, Len(m[q].els))
    BY <1>1, WeightFacts
  <2>2. m[q].len \in Nat /\ m[q].packed \in BOOLEAN /\ Len(m[q].els) \in Nat
    BY ValueFacts
  <2> HIDE DEF w
  <2>3. StrSize(m[q].len) \in Nat /\ StrSize(m[q].len) > 0
    BY <2>2, SizeNumbers
  <2>4. DataSize(m[q].packed, Len(m[q].els)) \in Nat /\ DataSize(m[q].packed, Len(m[q].els)) > 0
    BY <2>2, SizeNumbers
  <2>5. HtSize \in Nat /\ HtSize > 0 /\ RefSize \in Nat /\ RefSize > 0
    BY SizeNumbers
  <2>6. CASE m[q].kind = "str"
    BY <2>6, <2>1, <2>3, <1>1, <1>4
  <2>7. CASE m[q].kind = "ref"
    BY <2>7, <2>1, <2>5, <1>1, <1>4
  <2>8. CASE m[q].kind = "arr"
    BY <2>8, <2>1, <2>4, <2>5, <1>1, <1>4
  <2> QED
    BY <2>6, <2>7, <2>8 DEF Storable
<1>8. \A a \in DOMAIN s2: base <= a /\ a < cur + w
  <2>1. \A a \in DOMAIN s: a \in Nat
    BY <1>2 DEF Block, Frame, Shaped
  <2> HIDE DEF w
  <2> QED
    BY <2>1, <1>1, <1>2, <1>7
<1>9. cur + w = base + Counted(m, D \cup {q}, rk2)
  <2> HIDE DEF w, D, rk2
  <2> QED
    BY <1>1, <1>2, <1>6, <1>7 DEF AddsUp
<1>10. raw2 \subseteq Slots(m, (D \cup {q}) \cup {0}) /\ rk2 \subseteq raw2
  BY <1>1 DEF Slots
<1> QED
  BY <1>3, <1>5, <1>8, <1>9, <1>10 DEF Half

\* The list after a step at x, with the zvals more in front, which are those of N.
LEMMA ListsNext ==
  ASSUME NEW m, IsValue(m), NEW s, NEW base, NEW at2, Frame(m, s, base, at2), NEW at,
         DOMAIN at \subseteq DOMAIN at2, \A p \in DOMAIN at: Body(m, at2, p) = Body(m, at, p),
         NEW raw, raw \subseteq Slots(m, DOMAIN at), NEW N, N \subseteq Slots(m, DOMAIN at2), N \cap raw = {},
         NEW more, Lists(m, at2, more, N), NEW t, Lists(m, at, t, raw), t # << >>,
         NEW x \in raw, Head(t) = <<Body(m, at, x[1]), x[2]>>
  PROVE  Lists(m, at2, more \o Tail(t), (raw \cup N) \ {x})
<1> DEFINE Z(y) == <<Body(m, at2, y[1]), y[2]>>
<1>1. ASSUME NEW y \in raw \cup N, NEW z \in raw \cup N, Z(y) = Z(z) PROVE y = z
  <2>1. \A u \in Slots(m, DOMAIN at): u \in Slots(m, DOMAIN at2)
    BY DEF Slots
  <2>2. y \in Slots(m, DOMAIN at2) /\ z \in Slots(m, DOMAIN at2)
    BY <2>1
  <2>3. Body(m, at2, y[1]) = Body(m, at2, z[1]) /\ y[2] = z[2]
    BY <1>1
  <2> QED
    BY <2>2, <2>3, CellFacts
<1>2. \A y \in raw: Z(y) = <<Body(m, at, y[1]), y[2]>>
  BY DEF Slots
<1>3. /\ Members(more) = {Z(y): y \in N} /\ Members(t) = {<<Body(m, at, y[1]), y[2]>>: y \in raw}
      /\ t \in Seq(Nat \X Nat) /\ Once(t) /\ more \in Seq(Nat \X Nat) /\ Once(more) /\ Head(t) = Z(x)
  BY <1>2 DEF Lists
<1>4. Members(t) = {Z(y): y \in raw}
  BY <1>2, <1>3
<1> HIDE DEF Z
<1>5. Members(more) \cap Members(t) = {}
  <2> SUFFICES ASSUME NEW z \in Members(more), z \in Members(t) PROVE FALSE
    OBVIOUS
  <2>1. PICK y \in N: z = Z(y)
    BY <1>3
  <2>2. PICK u \in raw: z = Z(u)
    BY <1>4
  <2>3. y = u
    BY <2>1, <2>2, <1>1
  <2> QED
    BY <2>1, <2>2, <2>3
<1>6. /\ more \o Tail(t) \in Seq(Nat \X Nat) /\ Once(more \o Tail(t))
      /\ Members(more \o Tail(t)) = Members(more) \cup (Members(t) \ {Head(t)})
  BY <1>3, <1>5, NextMembers
<1>7. Members(more) \cup (Members(t) \ {Head(t)}) = {Z(y): y \in (raw \cup N) \ {x}}
  <2>1. ASSUME NEW z PROVE z \in Members(more) \cup (Members(t) \ {Head(t)}) <=> z \in {Z(y): y \in (raw \cup N) \ {x}}
    <3>1. z \in Members(more) \cup (Members(t) \ {Head(t)}) =>
            \E y \in raw \cup N: z = Z(y) /\ y # x
      BY <1>3, <1>4
    <3>2. ASSUME NEW y \in raw \cup N, y # x, z = Z(y) PROVE z \in Members(more) \cup (Members(t) \ {Head(t)})
      <4>1. z # Z(x)
        BY <3>2, <1>1
      <4> QED
        BY <4>1, <3>2, <1>3, <1>4
    <3> QED
      BY <3>1, <3>2
  <2> QED
    BY <2>1
<1> QED
  BY <1>6, <1>7 DEF Lists, Z

\* The zvals of a structure.
LEMMA ListsEach ==
  ASSUME NEW m, IsValue(m), NEW at, NEW q \in DOMAIN m, Body(m, at, q) \in Nat
  PROVE  /\ Lists(m, at, Each(Body(m, at, q), m[q].els), Slots(m, {q}))
         /\ Lists(m, at, << >>, {})
         /\ m[q].kind = "str" => Slots(m, {q}) = {}
<1> DEFINE more == Each(Body(m, at, q), m[q].els)
<1>1. DOMAIN m[q].els = 1..Len(m[q].els) /\ Len(m[q].els) \in Nat
  BY ValueFacts
<1>2. /\ more \in Seq(Nat \X Nat) /\ Once(more)
      /\ Members(more) = {<<Body(m, at, q), i>>: i \in DOMAIN m[q].els}
  BY <1>1, EachMembers
<1>3. {<<Body(m, at, q), i>>: i \in DOMAIN m[q].els} = {<<Body(m, at, x[1]), x[2]>>: x \in Slots(m, {q})}
  <2>1. \A x \in Slots(m, {q}): x[1] = q /\ x[2] \in DOMAIN m[q].els
    BY DEF Slots
  <2>2. \A i \in DOMAIN m[q].els: <<q, i>> \in Slots(m, {q})
    BY SlotIn
  <2>3. ASSUME NEW i \in DOMAIN m[q].els PROVE \E x \in Slots(m, {q}): x[1] = q /\ x[2] = i
    <3>1. <<q, i>>[1] = q /\ <<q, i>>[2] = i
      OBVIOUS
    <3> QED
      BY <3>1, <2>2
  <2> QED
    BY <2>1, <2>3
<1>4. Lists(m, at, << >>, {})
  <2>1. << >> \in Seq(Nat \X Nat)
    OBVIOUS
  <2>2. Once(<< >>) /\ Members(<< >>) = {}
    BY <2>1, NoMembers
  <2>3. {<<Body(m, at, x[1]), x[2]>>: x \in {}} = {}
    OBVIOUS
  <2> QED
    BY <2>1, <2>2, <2>3 DEF Lists
<1>5. m[q].kind = "str" => Slots(m, {q}) = {}
  BY ValueFacts DEF Slots
<1> QED
  BY <1>2, <1>3, <1>4, <1>5 DEF Lists

\* An element without string key.
LEMMA HalfKeyless ==
  ASSUME NEW m, IsValue(m), NEW base, NEW s, NEW done, NEW cur, NEW raw, NEW rk,
         Half(m, base, s, done, cur, raw, rk), NEW x \in rk, m[x[1]].kind = "arr",
         m[x[1]].els[x[2]].val.type # "undef", m[x[1]].els[x[2]].key = None,
         NEW at, at = At(base, done), NEW s2, HeaderFor(m, s, s2, at, x)
  PROVE  Half(m, base, s2, done, cur, raw, rk \ {x})
<1>1. /\ x \in Slots(m, DOMAIN at) /\ x \in Slots(m, DOMAIN done \cup {0}) /\ DOMAIN done \subseteq DOMAIN m
      /\ Block(m, s, base, at, raw, rk)
  <2>1. /\ DOMAIN done \subseteq DOMAIN m /\ raw \subseteq Slots(m, DOMAIN At(base, done))
        /\ rk \subseteq raw
    <3>1. Basics(m, base, s, done, cur, raw, rk)
      BY HalfFacts
    <3> QED
      BY <3>1 DEF Basics
  <2>2. raw \subseteq Slots(m, DOMAIN done \cup {0}) /\ Block(m, s, base, At(base, done), raw, rk)
    BY DEF Half
  <2> QED
    BY <2>1, <2>2
<1>2. /\ Frame(m, s2, base, at) /\ Copied(m, s2, base, at, raw, rk) /\ Flags(m, s2, at, rk \ {x})
  BY <1>1, BlockHeader
<1>3. Copied(m, s2, base, at, raw, rk \ {x})
  <2> SUFFICES ASSUME NEW y \in Slots(m, DOMAIN at)
               PROVE  LET b == m[y[1]].els[y[2]]
                          f == Cell(m, s2, at, y)
                      IN /\ f.h = b.h
                         /\ IF y \in raw THEN f.val = b.val ELSE ValCopied(m, base, at, b.val, f.val)
                         /\ IF y \in rk \ {x} \/ b.val.type = "undef" THEN f.key = b.key
                            ELSE KeyCopied(s2, base, b.key, f.key)
    BY DEF Copied
  <2>1. LET b == m[y[1]].els[y[2]]
            f == Cell(m, s2, at, y)
        IN /\ f.h = b.h
           /\ IF y \in raw THEN f.val = b.val ELSE ValCopied(m, base, at, b.val, f.val)
           /\ IF y \in rk \/ b.val.type = "undef" THEN f.key = b.key ELSE KeyCopied(s2, base, b.key, f.key)
    BY <1>2 DEF Copied
  <2>2. CASE y = x
    BY <2>1, <2>2 DEF KeyCopied
  <2>3. CASE y # x
    BY <2>1, <2>3
  <2> QED
    BY <2>2, <2>3
<1>4. Counted(m, DOMAIN done, rk \ {x}) = Counted(m, DOMAIN done, rk)
  <2>1. AddsUp(Counted(m, DOMAIN done, rk), KeySize(m[x[1]].els[x[2]]), Counted(m, DOMAIN done, rk \ {x}))
    BY <1>1, KeyCounts
  <2> QED
    BY <2>1 DEF AddsUp, KeySize, IsKeyed
<1>5. DOMAIN s2 = DOMAIN s
  BY DEF HeaderFor, HeaderSet
<1>6. Block(m, s2, base, at, raw, rk \ {x})
  BY <1>2, <1>3 DEF Block
<1> QED
  BY <1>4, <1>5, <1>6 DEF Half

\* An element with one: s2 has the header, s3 the string, s4 the key.
LEMMA HalfKey ==
  ASSUME NEW m, IsValue(m), NEW base, NEW s, NEW done, NEW cur, NEW raw, NEW rk,
         Half(m, base, s, done, cur, raw, rk), NEW x \in rk, m[x[1]].kind = "arr",
         m[x[1]].els[x[2]].val.type # "undef", m[x[1]].els[x[2]].key # None,
         NEW at, at = At(base, done), NEW s2, HeaderFor(m, s, s2, at, x),
         NEW s3, NEW str, Added(s2, s3, cur, str), IsStruct(str), str.static \in BOOLEAN,
         str.kind = "str", DOMAIN str.els = {}, str.text = m[x[1]].els[x[2]].key,
         NEW s4, Rewritten(s3, s4, Body(m, at, x[1]), x[2],
                   [h |-> Cell(m, s, at, x).h, key |-> cur - base, val |-> Cell(m, s, at, x).val])
  PROVE  Half(m, base, s4, done, cur + StrSize(KeyLen), raw, rk \ {x})
<1>1. /\ x \in Slots(m, DOMAIN at) /\ x \in Slots(m, DOMAIN done \cup {0}) /\ DOMAIN done \subseteq DOMAIN m
      /\ Block(m, s, base, at, raw, rk) /\ cur \in Nat /\ base \in Nat /\ cur >= base /\ cur \notin DOMAIN s
  <2>1. Basics(m, base, s, done, cur, raw, rk)
    BY HalfFacts
  <2>2. raw \subseteq Slots(m, DOMAIN done \cup {0}) /\ Block(m, s, base, At(base, done), raw, rk)
    BY DEF Half
  <2> QED
    BY <2>1, <2>2, SizeAssumption DEF Basics
<1>2. /\ Frame(m, s2, base, at) /\ Copied(m, s2, base, at, raw, rk) /\ Flags(m, s2, at, rk \ {x})
      /\ \A y \in Slots(m, DOMAIN at): Cell(m, s2, at, y) = Cell(m, s, at, y)
  BY <1>1, BlockHeader
<1>3. DOMAIN s2 = DOMAIN s
  BY DEF HeaderFor, HeaderSet
<1>4. /\ Frame(m, s3, base, at) /\ Copied(m, s3, base, at, raw, rk) /\ Flags(m, s3, at, rk \ {x})
      /\ \A y \in Slots(m, DOMAIN at): Cell(m, s3, at, y) = Cell(m, s2, at, y)
  <2>1. cur \notin DOMAIN s2 /\ cur \in Nat
    BY <1>1, <1>3
  <2>2. /\ Frame(m, s3, base, at)
        /\ \A A, B: Copied(m, s2, base, at, A, B) => Copied(m, s3, base, at, A, B)
        /\ \A B: Flags(m, s2, at, B) => Flags(m, s3, at, B)
        /\ \A y \in Slots(m, DOMAIN at): Cell(m, s3, at, y) = Cell(m, s2, at, y)
    BY <2>1, <1>2, BlockString
  <2> QED
    BY <2>2, <1>2
<1>5. DOMAIN s3 = DOMAIN s \cup {cur} /\ s3[cur] = str
  BY <1>3 DEF Added
<1>6. KeyCopied(s3, base, m[x[1]].els[x[2]].key, cur - base)
  <2>1. cur - base \in Nat /\ base + (cur - base) = cur
    BY <1>1
  <2> QED
    BY <2>1, <1>5 DEF KeyCopied
<1>7. /\ Frame(m, s4, base, at) /\ Copied(m, s4, base, at, raw, rk \ {x})
      /\ \A K: Flags(m, s3, at, K) => Flags(m, s4, at, K)
  <2>1. Cell(m, s, at, x) = Cell(m, s3, at, x)
    BY <1>1, <1>2, <1>4
  <2>2. Rewritten(s3, s4, Body(m, at, x[1]), x[2],
                   [h |-> Cell(m, s3, at, x).h, key |-> cur - base, val |-> Cell(m, s3, at, x).val])
    BY <2>1
  <2> QED
    BY <2>2, <1>1, <1>4, <1>6, BlockKey
<1>8. Block(m, s4, base, at, raw, rk \ {x})
  BY <1>4, <1>7 DEF Block
<1>9. cur + StrSize(KeyLen) = base + Counted(m, DOMAIN done, rk \ {x})
  <2>1. AddsUp(Counted(m, DOMAIN done, rk), KeySize(m[x[1]].els[x[2]]), Counted(m, DOMAIN done, rk \ {x}))
    BY <1>1, KeyCounts
  <2>2. KeySize(m[x[1]].els[x[2]]) = StrSize(KeyLen)
    BY DEF KeySize, IsKeyed
  <2>3. cur = base + Counted(m, DOMAIN done, rk)
    BY DEF Half
  <2> QED
    BY <2>1, <2>2, <2>3, <1>1 DEF AddsUp
<1>10. \A a \in DOMAIN s4: base <= a /\ a < cur + StrSize(KeyLen)
  <2>1. DOMAIN s4 = DOMAIN s \cup {cur}
    BY <1>5 DEF Rewritten
  <2>2. \A a \in DOMAIN s: base <= a /\ a < cur /\ a \in Nat
    BY <1>1 DEF Half, Block, Frame, Shaped
  <2>3. StrSize(KeyLen) \in Nat /\ StrSize(KeyLen) > 0
    BY SizeNumbers
  <2> QED
    BY <2>1, <2>2, <2>3, <1>1
<1> QED
  BY <1>8, <1>9, <1>10 DEF Half

-----------------------------------------------------------------------------
(* The second pass step by step *)

\* Of the zvals raw in todo, all have their keys yet to come, but for the one of phase "value".
Keyless(m, at, raw, rk) ==
  IF phase = "value"
  THEN \E x \in raw: /\ todo # << >> /\ Item = <<Body(m, at, x[1]), x[2]>> /\ rk = raw \ {x}
                     /\ m[x[1]].kind = "arr" /\ m[x[1]].els[x[2]].val.type # "undef"
  ELSE rk = raw
\* What the copy is after.
Goal(m, S, size, done, memo) ==
  /\ Structures(m, S) /\ ReachedBut(m, S, {}) /\ Least(m, S) /\ size = Counted(m, S, {})
  /\ DOMAIN done \subseteq S
  /\ ~memo => m[0].els[1].val.type # "arr" /\ (todo = << >> \/ done = Nothing)
CopyInv ==
  phase \in {"copy", "value"} /\ ~ctx.ser =>
    LET m == input.mem
        at == At(alloc, ctx.done)
    IN /\ Goal(m, ctx.counted, ctx.size, ctx.done, ctx.memo)
       /\ \E raw, rk: /\ Half(m, alloc, shm, ctx.done, ctx.cur, raw, rk)
                      /\ Lists(m, at, todo, raw) /\ Keyless(m, at, raw, rk)

\* The zval the copy is at.
Current(m, at, raw, rk, x) ==
  /\ x \in raw /\ Item = <<Body(m, at, x[1]), x[2]>>
  /\ x[1] \in DOMAIN at /\ x[1] \in DOMAIN m /\ x[2] \in DOMAIN m[x[1]].els /\ x \in Slots(m, DOMAIN at)
  /\ Item[1] \in DOMAIN shm /\ Item[2] \in DOMAIN shm[Item[1]].els
  /\ Here(shm) = Cell(m, shm, at, x) /\ IsBucket(Here(shm))
  /\ Here(shm).val = m[x[1]].els[x[2]].val /\ Here(shm).h = m[x[1]].els[x[2]].h
  /\ x \in rk => Here(shm).key = m[x[1]].els[x[2]].key
  /\ (m[x[1]].kind = "arr") <=> InData
  /\ rk \ {x} = raw \ {x} /\ (phase = "copy" => x \in rk)
  /\ phase = "value" => x \notin rk /\ InData /\ m[x[1]].els[x[2]].val.type # "undef"

\* The zval the copy comes to is one of the value's zvals.
LEMMA CopyItem ==
  ASSUME StartInv, CopyInv, phase \in {"copy", "value"}, ~ctx.ser, todo # << >> \/ phase = "value",
         NEW m, m = input.mem, NEW at, at = At(alloc, ctx.done)
  PROVE  /\ IsValue(m) /\ todo # << >> /\ Goal(m, ctx.counted, ctx.size, ctx.done, ctx.memo)
         /\ \E raw, rk, x: /\ Half(m, alloc, shm, ctx.done, ctx.cur, raw, rk)
                          /\ Lists(m, at, todo, raw) /\ Keyless(m, at, raw, rk)
                          /\ Current(m, at, raw, rk, x)
<1>1. IsValue(m)
  BY InputIsValue DEF StartInv
<1>2. Goal(m, ctx.counted, ctx.size, ctx.done, ctx.memo)
  BY DEF CopyInv
<1>3. PICK raw, rk: /\ Half(m, alloc, shm, ctx.done, ctx.cur, raw, rk)
                    /\ Lists(m, at, todo, raw) /\ Keyless(m, at, raw, rk)
  BY DEF CopyInv
<1>4. todo # << >>
  BY <1>3 DEF Keyless
<1>5. raw \subseteq Slots(m, DOMAIN at) /\ Frame(m, shm, alloc, at) /\ Copied(m, shm, alloc, at, raw, rk)
  <2>1. raw \subseteq Slots(m, DOMAIN At(alloc, ctx.done)) /\ Frame(m, shm, alloc, At(alloc, ctx.done))
    <3>1. /\ Basics(m, alloc, shm, ctx.done, ctx.cur, raw, rk)
          /\ Frame(m, shm, alloc, At(alloc, ctx.done))
      BY <1>1, <1>3, HalfFacts
    <3> QED
      BY <3>1 DEF Basics
  <2>2. Copied(m, shm, alloc, At(alloc, ctx.done), raw, rk)
    BY <1>3 DEF Half, Block
  <2> QED
    BY <2>1, <2>2
<1>6. Item \in {<<Body(m, at, x[1]), x[2]>>: x \in raw}
  <2>1. todo \in Seq(Nat \X Nat) /\ Members(todo) = {<<Body(m, at, x[1]), x[2]>>: x \in raw}
    BY <1>3 DEF Lists
  <2>2. Head(todo) \in Members(todo)
    BY <2>1, <1>4, TailMembers
  <2> QED
    BY <2>1, <2>2 DEF Item
<1>7. PICK x \in raw: Item = <<Body(m, at, x[1]), x[2]>>
  BY <1>6
<1>8. /\ x \in Slots(m, DOMAIN at) /\ x[1] \in DOMAIN at /\ x[1] \in DOMAIN m /\ x[2] \in DOMAIN m[x[1]].els
      /\ Body(m, at, x[1]) \in DOMAIN shm /\ x[2] \in DOMAIN shm[Body(m, at, x[1])].els
      /\ IsBucket(Cell(m, shm, at, x))
      /\ \A y \in Slots(m, DOMAIN at): Body(m, at, y[1]) = Body(m, at, x[1]) /\ y[2] = x[2] => y = x
  BY <1>1, <1>5, CellFacts
<1>9. Item[1] = Body(m, at, x[1]) /\ Item[2] = x[2] /\ Here(shm) = Cell(m, shm, at, x)
  BY <1>7 DEF Here, Cell
<1>10. /\ Here(shm).val = m[x[1]].els[x[2]].val /\ Here(shm).h = m[x[1]].els[x[2]].h
       /\ x \in rk => Here(shm).key = m[x[1]].els[x[2]].key
  BY <1>5, <1>8, <1>9 DEF Copied
<1>11. (m[x[1]].kind = "arr") <=> InData
  <2>1. shm[Body(m, at, x[1])].kind = IF m[x[1]].kind = "arr" THEN "data" ELSE KindOf(m, x[1])
    BY <1>1, <1>5, <1>8, Places1
  <2>2. KindOf(m, x[1]) # "data"
    BY <1>1, <1>8, ValueFacts DEF KindOf
  <2> QED
    BY <2>1, <2>2, <1>9 DEF InData
<1>12. /\ rk \ {x} = raw \ {x} /\ (phase = "copy" => x \in rk)
       /\ phase = "value" => x \notin rk /\ InData /\ m[x[1]].els[x[2]].val.type # "undef"
  <2>1. CASE phase = "copy"
    BY <2>1, <1>3 DEF Keyless
  <2>2. CASE phase = "value"
    <3>1. PICK y \in raw: /\ Item = <<Body(m, at, y[1]), y[2]>> /\ rk = raw \ {y}
                          /\ m[y[1]].kind = "arr" /\ m[y[1]].els[y[2]].val.type # "undef"
      BY <2>2, <1>3 DEF Keyless
    <3>2. y = x
      BY <3>1, <1>5, <1>8, <1>9
    <3> QED
      BY <3>1, <3>2, <1>11, <2>2
  <2> QED
    BY <2>1, <2>2
<1>13. Current(m, at, raw, rk, x)
  BY <1>7, <1>8, <1>9, <1>10, <1>11, <1>12 DEF Current
<1> QED
  BY <1>1, <1>2, <1>3, <1>4, <1>13

\* Where a value is written, its key is done.
LEMMA ValueTime ==
  ASSUME NEW m, NEW at, NEW raw, NEW rk, NEW x, Current(m, at, raw, rk, x),
         AtValue \/ Here(shm).val.type = "undef"
  PROVE  x \notin rk \/ m[x[1]].kind # "arr" \/ m[x[1]].els[x[2]].val.type = "undef"
BY DEF Current, AtValue

\* Without memoization nothing was copied before, and only a string is.
LEMMA CopyAlone ==
  ASSUME NEW m, IsValue(m), NEW S, NEW size, NEW done, Goal(m, S, size, done, FALSE), todo # << >>,
         NEW at, NEW raw, NEW rk, Lists(m, at, todo, raw), raw \subseteq Slots(m, DOMAIN done \cup {0}),
         NEW x \in raw
  PROVE  done = Nothing /\ x = <<0, 1>> /\ Tail(todo) = << >> /\ m[x[1]].els[x[2]].val.type \notin {"arr", "ref"}
<1>1. done = Nothing /\ m[0].els[1].val.type # "arr"
  BY DEF Goal
<1>2. DOMAIN done = {}
  BY <1>1 DEF Nothing
<1>3. raw \subseteq {<<0, 1>>}
  BY <1>2, RootSlot
<1>4. x = <<0, 1>> /\ x[1] = 0 /\ x[2] = 1
  BY <1>3
<1>5. m[0].els[1].val.type # "ref"
  BY DEF IsValue
<1>6. Tail(todo) = << >>
  <2>1. Members(todo) \subseteq {<<Body(m, at, 0), 1>>}
    BY <1>3 DEF Lists
  <2> QED
    BY <2>1, OnlyMember DEF Lists
<1> QED
  BY <1>1, <1>4, <1>5, <1>6

\* The value of the current zval is written, without a new structure.
LEMMA CopyPlain ==
  ASSUME StartInv, CopyInv, ~ctx.ser, phase \in {"copy", "value"}, todo # << >>, NEW m, m = input.mem,
         NEW at, at = At(alloc, ctx.done), NEW raw, NEW rk, NEW x,
         Half(m, alloc, shm, ctx.done, ctx.cur, raw, rk), Lists(m, at, todo, raw), Current(m, at, raw, rk, x),
         NEW v, Rewritten(shm, shm', Body(m, at, x[1]), x[2],
                          [h |-> Cell(m, shm, at, x).h, key |-> Cell(m, shm, at, x).key, val |-> v]),
         ValCopied(m, alloc, at, m[x[1]].els[x[2]].val, v),
         AtValue \/ Here(shm).val.type = "undef",
         ctx' = ctx, todo' = << >> \o Tail(todo), phase' = "copy", UNCHANGED <<input, alloc>>
  PROVE  CopyInv'
<1>1. IsValue(m) /\ Goal(m, ctx.counted, ctx.size, ctx.done, ctx.memo)
  BY CopyItem
<1>2. x \notin rk \/ m[x[1]].kind # "arr" \/ m[x[1]].els[x[2]].val.type = "undef"
  BY ValueTime
<1>3. x \in raw /\ rk \ {x} = raw \ {x} /\ Head(todo) = <<Body(m, at, x[1]), x[2]>>
  BY DEF Current, Item
<1>4. Half(m, alloc, shm', ctx.done, ctx.cur, raw \ {x}, rk \ {x})
  BY <1>1, <1>2, <1>3, HalfValue
<1>5. Lists(m, at, << >> \o Tail(todo), raw \ {x})
  <2>1. raw \subseteq Slots(m, DOMAIN at) /\ Frame(m, shm, alloc, at)
    <3>1. Basics(m, alloc, shm, ctx.done, ctx.cur, raw, rk) /\ Frame(m, shm, alloc, At(alloc, ctx.done))
      BY <1>1, HalfFacts
    <3> QED
      BY <3>1 DEF Basics
  <2>2. Lists(m, at, << >>, {})
    <3>1. 0 \in DOMAIN m /\ 0 \in DOMAIN at
      BY <1>1, <2>1, ValueFacts DEF Frame, Places
    <3>2. Body(m, at, 0) \in Nat
      BY <1>1, <2>1, <3>1, Places1
    <3> QED
      BY <1>1, <3>1, <3>2, ListsEach
  <2>3. raw \cup {} = raw /\ {} \subseteq Slots(m, DOMAIN at) /\ {} \cap raw = {}
    OBVIOUS
  <2>4. Lists(m, at, << >> \o Tail(todo), (raw \cup {}) \ {x})
    BY <1>1, <1>3, <2>1, <2>2, <2>3, ListsNext
  <2> QED
    BY <2>3, <2>4
<1>6. Goal(m, ctx.counted, ctx.size, ctx.done, ctx.memo)'
  BY <1>1 DEF Goal
<1>7. Half(m, alloc, shm, ctx.done, ctx.cur, raw \ {x}, raw \ {x})'
  BY <1>3, <1>4
<1>8. Lists(m, At(alloc, ctx.done), todo, raw \ {x})'
  BY <1>5
<1>9. Keyless(m, At(alloc, ctx.done), raw \ {x}, raw \ {x})'
  BY DEF Keyless
<1> QED
  BY <1>6, <1>7, <1>8, <1>9 DEF CopyInv

\* The copy comes to x with the list t.
ComesTo(m, base, s, done, cur, raw, rk, t, at, x) ==
  /\ IsValue(m) /\ at = At(base, done) /\ Half(m, base, s, done, cur, raw, rk) /\ Lists(m, at, t, raw)
  /\ t # << >> /\ x \in raw /\ Head(t) = <<Body(m, at, x[1]), x[2]>>
  /\ x \notin rk \/ m[x[1]].kind # "arr" \/ m[x[1]].els[x[2]].val.type = "undef"
\* It leads to the structure q, which was not copied before and is in s2.
NewAt(m, x, done, q) ==
  /\ q = m[x[1]].els[x[2]].val.p /\ q \in DOMAIN m \ {0} /\ q \notin DOMAIN done
  /\ m[x[1]].els[x[2]].val.type = m[q].kind /\ m[q].kind \in Storable /\ ~IsEmpty(m[q])
Grows(m, base, s, done, cur, q, at2, s2) ==
  /\ at2 = At(base, Put(done, q, cur)) /\ DOMAIN s2 = DOMAIN s \cup {cur, Body(m, at2, q)}
  /\ (\A b \in DOMAIN s: s2[b] = s[b]) /\ NewStructure(m, s2, base, at2, q)

\* The zvals of the structure q take the place of x.
LEMMA StructureCopied ==
  ASSUME NEW m, NEW base, NEW s, NEW done, NEW cur, NEW raw, NEW rk, NEW t, NEW at, NEW x,
         ComesTo(m, base, s, done, cur, raw, rk, t, at, x), NEW q, NewAt(m, x, done, q),
         NEW at2, NEW s2, Grows(m, base, s, done, cur, q, at2, s2),
         NEW s3, s3 = [s2 EXCEPT ![Head(t)[1]].els[Head(t)[2]].val = [type |-> m[q].kind, p |-> cur - base]],
         NEW more, Lists(m, at2, more, Slots(m, {q}))
  PROVE  /\ Half(m, base, s3, Put(done, q, cur), cur + Weight(m[q]),
                 (raw \cup Slots(m, {q})) \ {x}, (rk \cup Slots(m, {q})) \ {x})
         /\ Lists(m, at2, more \o Tail(t), (raw \cup Slots(m, {q})) \ {x})
<1> DEFINE raw2 == raw \cup Slots(m, {q})
           rk2 == rk \cup Slots(m, {q})
           done2 == Put(done, q, cur)
           cur2 == cur + Weight(m[q])
           z == [type |-> m[q].kind, p |-> cur - base]
           h == Head(t)
<1>1. /\ IsValue(m) /\ at = At(base, done) /\ Half(m, base, s, done, cur, raw, rk) /\ Lists(m, at, t, raw)
      /\ t # << >> /\ x \in raw /\ h = <<Body(m, at, x[1]), x[2]>>
      /\ x \notin rk \/ m[x[1]].kind # "arr" \/ m[x[1]].els[x[2]].val.type = "undef"
  BY DEF ComesTo
<1>2. /\ q \in DOMAIN m /\ q # 0 /\ q \notin DOMAIN done /\ m[q].kind \in Storable /\ ~IsEmpty(m[q])
  BY DEF NewAt
<1>3. /\ at2 = At(base, done2) /\ DOMAIN s2 = DOMAIN s \cup {cur, Body(m, at2, q)}
      /\ \A b \in DOMAIN s: s2[b] = s[b]
      /\ NewStructure(m, s2, base, at2, q)
  BY DEF Grows
<1>4. /\ 0 \notin DOMAIN done /\ raw \subseteq Slots(m, DOMAIN at) /\ Frame(m, s, base, at)
  <2>1. Basics(m, base, s, done, cur, raw, rk) /\ Frame(m, s, base, At(base, done))
    BY <1>1, HalfFacts
  <2>2. raw \subseteq Slots(m, DOMAIN At(base, done))
    BY <2>1 DEF Basics
  <2>3. 0 \notin DOMAIN done
    BY <1>1 DEF Half
  <2> QED
    BY <2>1, <2>2, <2>3, <1>1
<1>5. Half(m, base, s2, done2, cur2, raw2, rk2)
  BY <1>1, <1>2, <1>3, HalfStructure
<1>6. Frame(m, s2, base, at2)
  BY <1>1, <1>3, <1>5, HalfFacts
<1>7. Extended(at, at2, q, cur)
  BY <1>1, <1>2, <1>3, <1>4, AtPut
<1> HIDE DEF raw2, rk2, done2, cur2, h
<1>8. /\ DOMAIN at2 = DOMAIN at \cup {q} /\ at2[q] = cur /\ q \notin DOMAIN at
      /\ \A p \in DOMAIN at: Body(m, at2, p) = Body(m, at, p)
  BY <1>7 DEF Extended, Body
<1>9. /\ x \in Slots(m, DOMAIN at) /\ x[1] \in DOMAIN at
      /\ Body(m, at, x[1]) \in DOMAIN s /\ x[2] \in DOMAIN s[Body(m, at, x[1])].els
  <2>1. x \in Slots(m, DOMAIN at)
    BY <1>1, <1>4
  <2> QED
    BY <2>1, <1>1, <1>4, CellFacts
<1>10. Rewritten(s2, s3, Body(m, at2, x[1]), x[2],
                 [h |-> Cell(m, s2, at2, x).h, key |-> Cell(m, s2, at2, x).key, val |-> z])
  <2>1. h[1] = Body(m, at2, x[1]) /\ h[2] = x[2]
    BY <1>1, <1>8, <1>9
  <2>2. Shaped(s2) /\ h[1] \in DOMAIN s2 /\ h[2] \in DOMAIN s2[h[1]].els
    BY <2>1, <1>3, <1>6, <1>8, <1>9 DEF Frame
  <2>3. s3 = [s2 EXCEPT ![h[1]].els[h[2]].val = z]
    BY DEF h
  <2> HIDE DEF z
  <2>4. Rewritten(s2, [s2 EXCEPT ![h[1]].els[h[2]].val = z], h[1], h[2],
                  [h |-> s2[h[1]].els[h[2]].h, key |-> s2[h[1]].els[h[2]].key, val |-> z])
    BY <2>2, ValueWritten
  <2> QED
    BY <2>1, <2>3, <2>4 DEF Cell
<1>11. ValCopied(m, base, at2, m[x[1]].els[x[2]].val, z)
  <2>1. /\ q = m[x[1]].els[x[2]].val.p /\ m[x[1]].els[x[2]].val.type = m[q].kind
        /\ ~Flat(m[x[1]].els[x[2]].val)
    BY <1>2 DEF NewAt, Flat, Storable
  <2> QED
    BY <2>1, <1>2, <1>8 DEF ValCopied
<1> HIDE DEF z
<1>12. x \notin Slots(m, {q})
  BY <1>8, <1>9 DEF Slots
<1>13. Half(m, base, s3, done2, cur2, raw2 \ {x}, rk2 \ {x})
  <2>1. x \in raw2 /\ (x \notin rk2 \/ m[x[1]].kind # "arr" \/ m[x[1]].els[x[2]].val.type = "undef")
    BY <1>1, <1>12 DEF raw2, rk2
  <2> QED
    BY <2>1, <1>1, <1>3, <1>5, <1>10, <1>11, HalfValue
<1>14. Lists(m, at2, more \o Tail(t), raw2 \ {x})
  <2>1. Slots(m, {q}) \subseteq Slots(m, DOMAIN at2) /\ Slots(m, {q}) \cap raw = {} /\ DOMAIN at \subseteq DOMAIN at2
    BY <1>4, <1>8 DEF Slots
  <2> DEFINE N == Slots(m, {q})
  <2>2. Lists(m, at2, more, N) /\ raw2 = raw \cup N /\ Head(t) = <<Body(m, at, x[1]), x[2]>>
    BY <1>1 DEF raw2, h
  <2> HIDE DEF N
  <2>3. Lists(m, at2, more \o Tail(t), (raw \cup N) \ {x})
    BY <2>1, <2>2, <1>1, <1>4, <1>6, <1>8, ListsNext DEF N
  <2> QED
    BY <2>2, <2>3
<1> QED
  BY <1>13, <1>14 DEF raw2, rk2, done2, cur2

\* The copy is at x.
CopyAt(m, at, raw, rk, x) ==
  /\ StartInv /\ CopyInv /\ phase \in {"copy", "value"} /\ ~ctx.ser /\ todo # << >>
  /\ IsValue(m) /\ m = input.mem /\ at = At(alloc, ctx.done)
  /\ Half(m, alloc, shm, ctx.done, ctx.cur, raw, rk) /\ Lists(m, at, todo, raw)
  /\ Current(m, at, raw, rk, x) /\ Goal(m, ctx.counted, ctx.size, ctx.done, ctx.memo)

\* The copy is at one of them.
LEMMA CopyIsAt ==
  ASSUME StartInv, CopyInv, phase \in {"copy", "value"}, ~ctx.ser, todo # << >> \/ phase = "value"
  PROVE  \E raw, rk, x: CopyAt(input.mem, At(alloc, ctx.done), raw, rk, x)
<1> DEFINE m == input.mem
           at == At(alloc, ctx.done)
<1>1. /\ IsValue(m) /\ todo # << >> /\ Goal(m, ctx.counted, ctx.size, ctx.done, ctx.memo)
      /\ \E raw, rk, x: /\ Half(m, alloc, shm, ctx.done, ctx.cur, raw, rk)
                        /\ Lists(m, at, todo, raw) /\ Keyless(m, at, raw, rk)
                        /\ Current(m, at, raw, rk, x)
  BY CopyItem
<1>2. PICK raw, rk, x: /\ Half(m, alloc, shm, ctx.done, ctx.cur, raw, rk)
                       /\ Lists(m, at, todo, raw) /\ Current(m, at, raw, rk, x)
  BY <1>1
<1>3. CopyAt(m, at, raw, rk, x)
  BY <1>1, <1>2 DEF CopyAt
<1> QED
  BY <1>3

\* What the current zval leads to.
LEMMA CopyReaches ==
  ASSUME NEW m, NEW at, NEW raw, NEW rk, NEW x, CopyAt(m, at, raw, rk, x),
         ~Flat(Here(shm).val)
  PROVE  LET z == Here(shm).val IN
         /\ z = m[x[1]].els[x[2]].val /\ z.type \in Storable /\ z.p \in ctx.counted
         /\ z.p \in DOMAIN m \ {0} /\ m[z.p].kind = z.type
<1> DEFINE z == Here(shm).val
           p == x[1]
           i == x[2]
           S == ctx.counted
<1>1. /\ IsValue(m) /\ Current(m, at, raw, rk, x) /\ Goal(m, S, ctx.size, ctx.done, ctx.memo)
      /\ at = At(alloc, ctx.done) /\ Half(m, alloc, shm, ctx.done, ctx.cur, raw, rk)
  BY DEF CopyAt
<1>2. z = m[p].els[i].val /\ p \in DOMAIN at /\ p \in DOMAIN m /\ i \in DOMAIN m[p].els
  BY <1>1 DEF Current
<1>3. p \in S \cup {0}
  <2>1. DOMAIN at = DOMAIN ctx.done \cup {0}
    BY <1>1, AtFacts DEF Half
  <2> QED
    BY <2>1, <1>1, <1>2 DEF Goal
<1> HIDE DEF z, p, i, S
<1>4. Reaches(z, S)
  BY <1>1, <1>2, <1>3 DEF Goal, ReachedBut
<1>5. ~Flat(z)
  BY DEF z
<1>6. z.type \in Storable /\ z.p \in S
  BY <1>4, <1>5 DEF Reaches
<1>7. z.p \in DOMAIN m \ {0} /\ m[z.p].kind = z.type
  <2>1. z.type # "indirect"
    BY <1>6 DEF Storable
  <2> DEFINE e == m[p].els[i]
  <2>2. ~Flat(e.val) => e.val.type = "indirect" \/ (e.val.p \in DOMAIN m \ {0} /\ m[e.val.p].kind = e.val.type)
    BY <1>1, <1>2, SlotFacts
  <2> QED
    BY <2>1, <2>2, <1>2, <1>5
<1> QED
  BY <1>2, <1>6, <1>7 DEF z, p, i, S

\* A structure is copied for the first time: what CopyZstr, CopyHt and CopyRef have in common.
LEMMA CopyStructureStep ==
  ASSUME NEW m, NEW at, NEW raw, NEW rk, NEW x, CopyAt(m, at, raw, rk, x), AtValue,
         NEW q, NewAt(m, x, ctx.done, q), ~ctx.memo => m[q].kind = "str",
         NEW at2, NEW s2, Grows(m, alloc, shm, ctx.done, ctx.cur, q, at2, s2),
         NEW more, Lists(m, at2, more, Slots(m, {q})), m[q].kind = "str" => more = << >>,
         q \in ctx.counted,
         CopyNext(SetZval(s2, m[q].kind, ctx.cur), AddAllocated(Allocated(ctx, Weight(m[q])), q, ctx.cur), more)
  PROVE  CopyInv'
<1> DEFINE raw2 == raw \cup Slots(m, {q})
           rk2 == rk \cup Slots(m, {q})
           done2 == Put(ctx.done, q, ctx.cur)
           cur2 == ctx.cur + Weight(m[q])
           s3 == [s2 EXCEPT ![Head(todo)[1]].els[Head(todo)[2]].val = [type |-> m[q].kind, p |-> ctx.cur - alloc]]
<1>1. /\ shm' = SetZval(s2, m[q].kind, ctx.cur) /\ todo' = more \o Tail(todo) /\ phase' = "copy"
      /\ ctx' = AddAllocated(Allocated(ctx, Weight(m[q])), q, ctx.cur)
      /\ UNCHANGED <<input, alloc>>
  BY DEF CopyNext, setup
<1>2. /\ IsValue(m) /\ Current(m, at, raw, rk, x) /\ Goal(m, ctx.counted, ctx.size, ctx.done, ctx.memo)
      /\ at = At(alloc, ctx.done) /\ Half(m, alloc, shm, ctx.done, ctx.cur, raw, rk)
      /\ Lists(m, at, todo, raw) /\ todo # << >> /\ m = input.mem /\ IsContext(ctx) /\ ~ctx.ser
  BY DEF CopyAt, StartInv, SetupInv
<1>3. shm' = s3
  BY <1>1 DEF SetZval, Item, ToOff
<1>4. ComesTo(m, alloc, shm, ctx.done, ctx.cur, raw, rk, todo, at, x)
  <2>1. x \notin rk \/ m[x[1]].kind # "arr" \/ m[x[1]].els[x[2]].val.type = "undef"
    BY <1>2, ValueTime
  <2>2. x \in raw /\ Head(todo) = <<Body(m, at, x[1]), x[2]>>
    BY <1>2 DEF Current, Item
  <2> QED
    BY <2>1, <2>2, <1>2 DEF ComesTo
<1>5. /\ Half(m, alloc, s3, done2, cur2, raw2 \ {x}, rk2 \ {x})
      /\ Lists(m, at2, more \o Tail(todo), raw2 \ {x})
  <2>1. NewAt(m, x, ctx.done, q) /\ Grows(m, alloc, shm, ctx.done, ctx.cur, q, at2, s2)
    OBVIOUS
  <2>2. Lists(m, at2, more, Slots(m, {q}))
    OBVIOUS
  <2>3. s3 = [s2 EXCEPT ![Head(todo)[1]].els[Head(todo)[2]].val = [type |-> m[q].kind, p |-> ctx.cur - alloc]]
    OBVIOUS
  <2>4. /\ Half(m, alloc, s3, Put(ctx.done, q, ctx.cur), ctx.cur + Weight(m[q]),
                 (raw \cup Slots(m, {q})) \ {x}, (rk \cup Slots(m, {q})) \ {x})
        /\ Lists(m, at2, more \o Tail(todo), (raw \cup Slots(m, {q})) \ {x})
    <3> HIDE DEF raw2, rk2, done2, cur2, s3
    <3> QED
      BY <1>4, <2>1, <2>2, <2>3, StructureCopied
  <2> QED
    BY <2>4
<1>6. /\ ctx'.done = done2 /\ ctx'.cur = cur2 /\ ctx'.memo = ctx.memo /\ ctx'.ser = ctx.ser
      /\ ctx'.counted = ctx.counted /\ ctx'.size = ctx.size
  <2> DEFINE d == Allocated(ctx, Weight(m[q]))
  <2>1. /\ IsContext(d) /\ d.memo = ctx.memo /\ d.ser = ctx.ser /\ d.size = ctx.size
        /\ d.counted = ctx.counted /\ d.cur = cur2 /\ d.done = ctx.done
    BY <1>2, CopyFields
  <2> HIDE DEF d, cur2
  <2>2. LET f == AddAllocated(d, q, ctx.cur) IN
        /\ f.memo = d.memo /\ f.ser = d.ser /\ f.size = d.size
        /\ f.counted = d.counted /\ f.cur = d.cur /\ f.done = Put(d.done, q, ctx.cur)
    BY <2>1, CopyFields
  <2>3. ctx' = AddAllocated(d, q, ctx.cur)
    BY <1>1 DEF d
  <2> QED
    BY <2>1, <2>2, <2>3
<1> HIDE DEF raw2, rk2, s3, cur2
<1>7. at2 = At(alloc, done2) /\ DOMAIN done2 = DOMAIN ctx.done \cup {q}
  BY DEF Grows, Put
<1>8. rk2 \ {x} = raw2 \ {x}
  BY <1>2 DEF Current, raw2, rk2
<1> HIDE DEF done2
<1>9. Goal(m, ctx.counted, ctx.size, ctx.done, ctx.memo)'
  <2>1. DOMAIN done2 \subseteq ctx.counted
    BY <1>2, <1>7 DEF Goal
  <2>2. ASSUME ~ctx.memo PROVE m[0].els[1].val.type # "arr" /\ todo' = << >>
    <3>1. more = << >>
      BY <2>2
    <3>2. Tail(todo) = << >>
      <4>1. ctx.memo = FALSE
        BY <2>2, <1>2 DEF IsContext
      <4>2. Goal(m, ctx.counted, ctx.size, ctx.done, FALSE)
        BY <4>1, <1>2
      <4>3. raw \subseteq Slots(m, DOMAIN ctx.done \cup {0}) /\ x \in raw
        BY <1>2 DEF Half, Current
      <4> QED
        BY <4>2, <4>3, <1>2, CopyAlone
    <3> QED
      BY <3>1, <3>2, <2>2, <1>1, <1>2 DEF Goal
  <2>3. Goal(m, ctx.counted, ctx.size, ctx.done, ctx.memo)
    BY <1>2
  <2> QED
    BY <2>1, <2>2, <2>3, <1>1, <1>2, <1>6 DEF Goal
<1>10. input'.mem = m /\ At(alloc', done2) = at2 /\ ~ctx'.ser
  BY <1>1, <1>2, <1>6, <1>7
<1>11. Keyless(m, at2, raw2 \ {x}, raw2 \ {x})'
  BY <1>1 DEF Keyless
<1>12. Half(m, alloc', shm', ctx'.done, ctx'.cur, raw2 \ {x}, raw2 \ {x})
  BY <1>1, <1>3, <1>5, <1>6, <1>8
<1>13. Lists(m, at2, todo', raw2 \ {x})
  BY <1>1, <1>5
<1>14. input'.mem = m /\ At(alloc', ctx'.done) = at2
  BY <1>6, <1>10
<1> QED
  BY <1>9, <1>11, <1>12, <1>13, <1>14 DEF CopyInv

\* A zval is written and no structure added: what CopyFlat, CopyAgain and CopyEmpty have in common.
LEMMA CopyPlainStep ==
  ASSUME NEW m, NEW at, NEW raw, NEW rk, NEW x, CopyAt(m, at, raw, rk, x),
         AtValue \/ Here(shm).val.type = "undef", NEW s2, NEW v,
         Rewritten(shm, s2, Body(m, at, x[1]), x[2],
                   [h |-> Cell(m, shm, at, x).h, key |-> Cell(m, shm, at, x).key, val |-> v]),
         ValCopied(m, alloc, at, Here(shm).val, v), CopyNext(s2, ctx, << >>)
  PROVE  CopyInv'
<1>1. /\ shm' = s2 /\ todo' = << >> \o Tail(todo) /\ phase' = "copy" /\ ctx' = ctx
      /\ UNCHANGED <<input, alloc>>
  BY DEF CopyNext, setup
<1>2. /\ StartInv /\ CopyInv /\ ~ctx.ser /\ phase \in {"copy", "value"} /\ todo # << >>
      /\ Current(m, at, raw, rk, x) /\ m = input.mem
      /\ at = At(alloc, ctx.done) /\ Half(m, alloc, shm, ctx.done, ctx.cur, raw, rk)
      /\ Lists(m, at, todo, raw)
  BY DEF CopyAt
<1>3. ValCopied(m, alloc, at, m[x[1]].els[x[2]].val, v)
  BY <1>2 DEF Current
<1> QED
  BY <1>1, <1>2, <1>3, CopyPlain

\* Where the current zval is.
LEMMA CopyPlace ==
  ASSUME NEW m, NEW at, NEW raw, NEW rk, NEW x, CopyAt(m, at, raw, rk, x)
  PROVE  /\ IsValue(m) /\ m = input.mem /\ Shaped(shm) /\ IsContext(ctx) /\ alloc \in Nat
         /\ Item[1] = Body(m, at, x[1]) /\ Item[2] = x[2] /\ x[1] \in DOMAIN m /\ x[2] \in DOMAIN m[x[1]].els
         /\ Item[1] \in DOMAIN shm /\ Item[2] \in DOMAIN shm[Item[1]].els
         /\ Here(shm) = Cell(m, shm, at, x) /\ Here(shm) = shm[Item[1]].els[Item[2]]
         /\ Here(shm).val = m[x[1]].els[x[2]].val /\ IsBucket(Here(shm))
         /\ Frame(m, shm, alloc, at) /\ DOMAIN at = DOMAIN ctx.done \cup {0} /\ 0 \notin DOMAIN ctx.done
         /\ \A p \in DOMAIN ctx.done: at[p] = ctx.done[p]
         /\ ctx.cur \in Nat /\ ctx.cur >= alloc /\ ctx.cur \notin DOMAIN shm
<1>1. /\ IsValue(m) /\ m = input.mem /\ at = At(alloc, ctx.done)
      /\ Half(m, alloc, shm, ctx.done, ctx.cur, raw, rk) /\ Current(m, at, raw, rk, x) /\ StartInv
  BY DEF CopyAt
<1>2. Frame(m, shm, alloc, at) /\ Basics(m, alloc, shm, ctx.done, ctx.cur, raw, rk)
  BY <1>1, HalfFacts
<1>3. 0 \notin DOMAIN ctx.done
  BY <1>1 DEF Half
<1>4. DOMAIN at = DOMAIN ctx.done \cup {0} /\ \A p \in DOMAIN ctx.done: at[p] = ctx.done[p]
  BY <1>1, <1>3 DEF At
<1>5. alloc \in Nat /\ ctx.cur \in Nat /\ ctx.cur >= alloc /\ ctx.cur \notin DOMAIN shm
  BY <1>2, SizeAssumption DEF Basics
<1>6. IsContext(ctx) /\ Shaped(shm)
  BY <1>1, <1>2 DEF StartInv, SetupInv, Frame
<1> QED
  BY <1>1, <1>2, <1>3, <1>4, <1>5, <1>6 DEF Current, Here

\* The current value becomes the one given.
LEMMA CopyWrites ==
  ASSUME NEW m, NEW at, NEW raw, NEW rk, NEW x, CopyAt(m, at, raw, rk, x), NEW type, NEW ptr
  PROVE  Rewritten(shm, SetZval(shm, type, ptr), Body(m, at, x[1]), x[2],
                   [h |-> Cell(m, shm, at, x).h, key |-> Cell(m, shm, at, x).key,
                    val |-> [type |-> type, p |-> ToOff(ptr)]])
<1> DEFINE z == [type |-> type, p |-> ToOff(ptr)]
<1>1. /\ Shaped(shm) /\ Item[1] = Body(m, at, x[1]) /\ Item[2] = x[2]
      /\ Item[1] \in DOMAIN shm /\ Item[2] \in DOMAIN shm[Item[1]].els
      /\ Cell(m, shm, at, x) = shm[Item[1]].els[Item[2]]
  BY CopyPlace
<1>2. SetZval(shm, type, ptr) = [shm EXCEPT ![Item[1]].els[Item[2]].val = z]
  BY DEF SetZval
<1> HIDE DEF z
<1>3. Rewritten(shm, [shm EXCEPT ![Item[1]].els[Item[2]].val = z], Item[1], Item[2],
                [h |-> shm[Item[1]].els[Item[2]].h, key |-> shm[Item[1]].els[Item[2]].key, val |-> z])
  BY <1>1, ValueWritten
<1> QED
  BY <1>1, <1>2, <1>3 DEF z

\* A zval without data.
LEMMA CopyFlatStep ==
  ASSUME StartInv, CopyInv, CopyFlat, ~ctx.ser
  PROVE  CopyInv'
<1>1. /\ AtValue \/ (phase = "copy" /\ todo # << >> /\ Here(shm).val.type = "undef")
      /\ Flat(Here(shm).val) /\ CopyNext(shm, ctx, << >>)
  BY DEF CopyFlat
<1>2. phase \in {"copy", "value"} /\ (todo # << >> \/ phase = "value")
  BY <1>1 DEF AtValue
<1>3. PICK m, at, raw, rk, x: CopyAt(m, at, raw, rk, x)
  BY <1>2, CopyIsAt
<1> DEFINE f == Here(shm)
<1>4. /\ IsValue(m) /\ Shaped(shm) /\ f = Cell(m, shm, at, x) /\ f = shm[Body(m, at, x[1])].els[x[2]]
      /\ IsBucket(f) /\ x[1] \in DOMAIN m /\ x[2] \in DOMAIN m[x[1]].els /\ f.val = m[x[1]].els[x[2]].val
  BY <1>3, CopyPlace
<1>5. f.val = [type |-> f.val.type, p |-> f.val.p] /\ f.val.p = 0
  <2> DEFINE e == m[x[1]].els[x[2]]
  <2>1. e.val = [type |-> e.val.type, p |-> e.val.p] /\ (Flat(e.val) => e.val.p = 0)
    <3>1. IsValue(m) /\ x[1] \in DOMAIN m /\ x[2] \in DOMAIN m[x[1]].els
      BY <1>4
    <3> QED
      BY <3>1, SlotFacts
  <2> QED
    BY <2>1, <1>1, <1>4
<1> HIDE DEF f
<1>6. Flat(f.val)
  BY <1>1 DEF f
<1>7. ValCopied(m, alloc, at, f.val, f.val)
  BY <1>5, <1>6 DEF ValCopied
<1>8. Rewritten(shm, shm, Body(m, at, x[1]), x[2],
                [h |-> Cell(m, shm, at, x).h, key |-> Cell(m, shm, at, x).key, val |-> f.val])
  <2> DEFINE e == [h |-> Cell(m, shm, at, x).h, key |-> Cell(m, shm, at, x).key, val |-> f.val]
  <2>1. e = shm[Body(m, at, x[1])].els[x[2]]
    BY <1>4 DEF IsBucket
  <2> HIDE DEF e
  <2>2. Rewritten(shm, shm, Body(m, at, x[1]), x[2], e)
    BY <2>1, <1>4, RewrittenSame
  <2> QED
    BY <2>2 DEF e
<1>9. AtValue \/ Here(shm).val.type = "undef"
  BY <1>1
<1> QED
  BY <1>1, <1>3, <1>7, <1>8, <1>9, CopyPlainStep DEF f

\* A structure that was copied before.
LEMMA CopyAgainStep ==
  ASSUME StartInv, CopyInv, CopyAgain
  PROVE  CopyInv'
<1> DEFINE z == Here(shm).val
           v == [type |-> z.type, p |-> ToOff(ctx.done[z.p])]
<1>1. /\ AtValue /\ ~ctx.ser /\ ~Flat(z) /\ z.p \in DOMAIN ctx.done
      /\ CopyNext(SetZval(shm, z.type, ctx.done[z.p]), ctx, << >>)
  BY DEF CopyAgain, AlreadyAllocated
<1>2. phase \in {"copy", "value"} /\ (todo # << >> \/ phase = "value")
  BY <1>1 DEF AtValue
<1>3. PICK m, at, raw, rk, x: CopyAt(m, at, raw, rk, x)
  BY <1>1, <1>2, CopyIsAt
<1>4. z.type \in Storable
  BY <1>1, <1>3, CopyReaches
<1>5. /\ z.p \in DOMAIN at \ {0} /\ at[z.p] = ctx.done[z.p] /\ ~IsEmpty(m[z.p])
  <2>1. /\ Frame(m, shm, alloc, at) /\ DOMAIN at = DOMAIN ctx.done \cup {0} /\ 0 \notin DOMAIN ctx.done
        /\ \A p \in DOMAIN ctx.done: at[p] = ctx.done[p]
    BY <1>3, CopyPlace
  <2> QED
    BY <2>1, <1>1 DEF Frame, Places
<1>6. ValCopied(m, alloc, at, z, v)
  BY <1>1, <1>4, <1>5 DEF ValCopied, ToOff
<1>7. Rewritten(shm, SetZval(shm, z.type, ctx.done[z.p]), Body(m, at, x[1]), x[2],
                [h |-> Cell(m, shm, at, x).h, key |-> Cell(m, shm, at, x).key, val |-> v])
  BY <1>3, CopyWrites
<1> HIDE DEF v
<1> QED
  BY <1>1, <1>3, <1>6, <1>7, CopyPlainStep

\* An empty array.
LEMMA CopyEmptyStep ==
  ASSUME StartInv, CopyInv, CopyEmpty
  PROVE  CopyInv'
<1> DEFINE z == Here(shm).val
           v == [type |-> "arr", p |-> ToOff(alloc)]
<1>1. /\ AtValue /\ ~ctx.ser /\ z.type = "arr" /\ Elements(input.mem[z.p].els) = {}
      /\ CopyNext(SetZval(shm, "arr", alloc), ctx, << >>)
  BY DEF CopyEmpty, CopyFirst
<1>2. phase \in {"copy", "value"} /\ (todo # << >> \/ phase = "value") /\ ~Flat(z)
  BY <1>1 DEF AtValue, Flat
<1>3. PICK m, at, raw, rk, x: CopyAt(m, at, raw, rk, x)
  BY <1>1, <1>2, CopyIsAt
<1>4. z.type \in Storable /\ m[z.p].kind = z.type
  BY <1>2, <1>3, CopyReaches
<1>5. m = input.mem /\ alloc \in Nat
  BY <1>3, CopyPlace
<1>6. IsEmpty(m[z.p])
  BY <1>1, <1>4, <1>5 DEF IsEmpty
<1>7. ToOff(alloc) = 0
  BY <1>5 DEF ToOff
<1>8. ValCopied(m, alloc, at, z, v)
  BY <1>1, <1>2, <1>4, <1>6, <1>7 DEF ValCopied
<1>9. Rewritten(shm, SetZval(shm, "arr", alloc), Body(m, at, x[1]), x[2],
                [h |-> Cell(m, shm, at, x).h, key |-> Cell(m, shm, at, x).key, val |-> v])
  BY <1>3, CopyWrites
<1> HIDE DEF v
<1> QED
  BY <1>1, <1>3, <1>8, <1>9, CopyPlainStep

\* A structure that is copied for the first time.
LEMMA CopyFirstAt ==
  ASSUME StartInv, CopyInv, NEW type \in Storable, CopyFirst(type),
         ~IsEmpty(input.mem[Here(shm).val.p])
  PROVE  \E m, at, raw, rk, x:
           LET q == Here(shm).val.p IN
           /\ CopyAt(m, at, raw, rk, x) /\ NewAt(m, x, ctx.done, q) /\ q \in ctx.counted
           /\ m[q].kind = type /\ AtValue /\ m = input.mem /\ (~ctx.memo => type = "str")
<1> DEFINE z == Here(shm).val
           q == z.p
<1>1. AtValue /\ ~ctx.ser /\ z.type = type /\ ~AlreadyAllocated(q)
  BY DEF CopyFirst
<1>2. phase \in {"copy", "value"} /\ (todo # << >> \/ phase = "value") /\ ~Flat(z)
  BY <1>1 DEF AtValue, Flat, Storable
<1>3. PICK m, at, raw, rk, x: CopyAt(m, at, raw, rk, x)
  BY <1>1, <1>2, CopyIsAt
<1>4. /\ z = m[x[1]].els[x[2]].val /\ z.p \in ctx.counted /\ z.p \in DOMAIN m \ {0} /\ m[z.p].kind = z.type
  BY <1>2, <1>3, CopyReaches
<1>5. m = input.mem /\ IsContext(ctx) /\ IsValue(m)
  BY <1>3, CopyPlace
<1>6. ASSUME ~ctx.memo PROVE ctx.done = Nothing /\ z.type \notin {"arr", "ref"}
  <2>1. ctx.memo = FALSE
    BY <1>5, <1>6 DEF IsContext
  <2>2. /\ Goal(m, ctx.counted, ctx.size, ctx.done, FALSE) /\ todo # << >> /\ Lists(m, at, todo, raw)
        /\ raw \subseteq Slots(m, DOMAIN ctx.done \cup {0}) /\ x \in raw
    BY <2>1, <1>3 DEF CopyAt, Half, Current
  <2>3. ctx.done = Nothing
    BY <2>2 DEF Goal
  <2>4. m[x[1]].els[x[2]].val.type \notin {"arr", "ref"}
    BY <2>2, <1>5, CopyAlone
  <2> QED
    BY <2>3, <2>4, <1>4
<1>7. q \notin DOMAIN ctx.done
  BY <1>1, <1>6 DEF AlreadyAllocated, Nothing
<1>8. NewAt(m, x, ctx.done, q)
  BY <1>1, <1>4, <1>5, <1>7 DEF NewAt
<1> QED
  BY <1>1, <1>3, <1>4, <1>5, <1>6, <1>8 DEF Storable

\* What is put into the block at first.
Fresh(x, kind) == IsStruct(x) /\ x.kind = kind /\ x.pos = 0 /\ x.next = 0
FreshStr(x, len, text) ==
  Fresh(x, "str") /\ x.len = len /\ x.text = text /\ x.els = << >> /\ x.packed = FALSE /\ x.static = TRUE
FreshWith(x, kind, els) == Fresh(x, kind) /\ x.els = els /\ x.packed = FALSE /\ x.static = TRUE
FreshHeader(x, packed, data) ==
  Fresh(x, "arr") /\ x.packed = packed /\ x.data = data /\ x.els = << >> /\ x.static = TRUE

\* The fields of a structure that was just allocated.
LEMMA BlankFields ==
  /\ IsStruct(Blank) /\ Blank.packed = FALSE /\ Blank.static = TRUE /\ Blank.pos = 0 /\ Blank.next = 0
  /\ Blank.els = << >>
BY DEF Blank, IsStruct
\* The fields of a string.
LEMMA FreshString ==
  ASSUME NEW l, NEW t, NEW x, x = [Blank EXCEPT !.kind = "str", !.len = l, !.text = t]
  PROVE  FreshStr(x, l, t)
<1>1. IsStruct(x)
  BY BlankFields DEF IsStruct
<1>2. x.kind = "str" /\ x.len = l /\ x.text = t /\ x.pos = 0 /\ x.next = 0 /\ x.els = << >>
  BY DEF Blank
<1>3. x.packed = FALSE
  BY DEF Blank
<1>4. x.static = TRUE
  BY DEF Blank
<1> QED
  BY <1>1, <1>2, <1>3, <1>4 DEF Fresh, FreshStr
\* Of an array's header.
LEMMA FreshArray ==
  ASSUME NEW p, NEW d, NEW x, x = [Blank EXCEPT !.kind = "arr", !.packed = p, !.data = d]
  PROVE  FreshHeader(x, p, d)
<1>1. IsStruct(x)
  BY BlankFields DEF IsStruct
<1>2. x.kind = "arr" /\ x.data = d /\ x.pos = 0 /\ x.next = 0 /\ x.els = << >>
  BY DEF Blank
<1>3. x.packed = p
  BY DEF Blank
<1>4. x.static = TRUE
  BY DEF Blank
<1> QED
  BY <1>1, <1>2, <1>3, <1>4 DEF Fresh, FreshHeader
\* Of what has buckets.
LEMMA FreshBuckets ==
  ASSUME NEW k, NEW e, NEW x, x = [Blank EXCEPT !.kind = k, !.els = e]
  PROVE  FreshWith(x, k, e)
<1>1. IsStruct(x)
  BY BlankFields DEF IsStruct
<1>2. x.kind = k /\ x.els = e /\ x.pos = 0 /\ x.next = 0
  BY DEF Blank
<1>3. x.packed = FALSE
  BY DEF Blank
<1>4. x.static = TRUE
  BY DEF Blank
<1> QED
  BY <1>1, <1>2, <1>3, <1>4 DEF Fresh, FreshWith

\* What is known of a structure that is to be copied.
LEMMA NewFacts ==
  ASSUME NEW m, NEW at, NEW raw, NEW rk, NEW x, CopyAt(m, at, raw, rk, x), NEW q, NewAt(m, x, ctx.done, q),
         NEW at2, at2 = At(alloc, Put(ctx.done, q, ctx.cur))
  PROVE  /\ at2[q] = ctx.cur /\ q \in DOMAIN m /\ q # 0 /\ IsValue(m)
         /\ Body(m, at2, q) = (IF m[q].kind = "arr" THEN ctx.cur + HtSize ELSE ctx.cur)
         /\ Body(m, at2, q) \in Nat /\ Body(m, at2, q) \notin DOMAIN shm /\ ctx.cur \notin DOMAIN shm
         /\ KindOf(m, q) = m[q].kind /\ (m[q].kind # "arr" => ~m[q].packed) /\ m[q].packed \in BOOLEAN
         /\ (m[q].kind = "str" => m[q].els = << >> /\ DOMAIN m[q].els = {})
<1>1. /\ IsValue(m) /\ 0 \notin DOMAIN ctx.done /\ ctx.cur \in Nat
      /\ Basics(m, alloc, shm, ctx.done, ctx.cur, raw, rk)
  <2>1. /\ IsValue(m) /\ Half(m, alloc, shm, ctx.done, ctx.cur, raw, rk)
    BY DEF CopyAt
  <2> QED
    BY <2>1, HalfFacts, CopyPlace
<1>2. q \in DOMAIN m /\ q # 0 /\ q \notin DOMAIN ctx.done
  BY DEF NewAt
<1>3. Extended(At(alloc, ctx.done), at2, q, ctx.cur)
  BY <1>1, <1>2, AtPut
<1>4. at2[q] = ctx.cur
  BY <1>3 DEF Extended
<1>5. Body(m, at2, q) = (IF m[q].kind = "arr" THEN ctx.cur + HtSize ELSE ctx.cur)
  BY <1>4 DEF Body
<1>6. Body(m, at2, q) \in Nat /\ Body(m, at2, q) \notin DOMAIN shm /\ ctx.cur \notin DOMAIN shm
  BY <1>1, <1>5, SizeNumbers DEF Basics
<1>7. KindOf(m, q) = m[q].kind
  BY <1>2 DEF KindOf
<1>8. /\ m[q].packed => m[q].kind = "arr"
      /\ m[q].packed \in BOOLEAN
      /\ m[q].kind = "str" => m[q].els = << >> /\ DOMAIN m[q].els = {}
  BY <1>1, <1>2, ValueFacts
<1> QED
  BY <1>1, <1>2, <1>4, <1>5, <1>6, <1>7, <1>8

\* A string is copied.
LEMMA CopyZstrStep ==
  ASSUME StartInv, CopyInv, CopyZstr
  PROVE  CopyInv'
<1> DEFINE q == Here(shm).val.p
           s == input.mem[q]
           str == [Blank EXCEPT !.kind = "str", !.len = s.len, !.text = s.text]
           s2 == CopyCstr(shm, s.len, s.text)
           at2 == At(alloc, Put(ctx.done, q, ctx.cur))
<1>1. /\ CopyFirst("str")
      /\ CopyNext(SetZval(s2, "str", ctx.cur), AddAllocated(Allocated(ctx, StrSize(s.len)), q, ctx.cur), << >>)
  BY DEF CopyZstr
<1>2. s.kind = "str"
  <2>1. AtValue /\ ~ctx.ser /\ Here(shm).val.type = "str"
    BY <1>1 DEF CopyFirst
  <2>2. phase \in {"copy", "value"} /\ (todo # << >> \/ phase = "value") /\ ~Flat(Here(shm).val)
    BY <2>1 DEF AtValue, Flat
  <2>3. PICK m, at, raw, rk, x: CopyAt(m, at, raw, rk, x)
    BY <2>1, <2>2, CopyIsAt
  <2>4. m[q].kind = "str" /\ m = input.mem
    BY <2>1, <2>2, <2>3, CopyReaches, CopyPlace
  <2> QED
    BY <2>4
<1>3. PICK m, at, raw, rk, x:
        /\ CopyAt(m, at, raw, rk, x) /\ NewAt(m, x, ctx.done, q) /\ q \in ctx.counted
        /\ m[q].kind = "str" /\ AtValue /\ m = input.mem
  <2>1. ~IsEmpty(s) /\ "str" \in Storable
    BY <1>2 DEF IsEmpty, Storable
  <2> QED
    BY <2>1, <1>1, CopyFirstAt
<1>4. /\ at2[q] = ctx.cur /\ q \in DOMAIN m /\ IsValue(m) /\ Body(m, at2, q) = ctx.cur /\ ctx.cur \in Nat
      /\ ctx.cur \notin DOMAIN shm /\ KindOf(m, q) = "str" /\ m[q].packed = FALSE
      /\ m[q].els = << >> /\ DOMAIN m[q].els = {}
  BY <1>3, NewFacts
<1>5. Added(shm, s2, ctx.cur, str)
  <2> HIDE DEF str
  <2>1. Added(shm, Put(shm, ctx.cur, str), ctx.cur, str)
    BY PutAdds
  <2> QED
    BY <2>1 DEF CopyCstr, str
<1>6. /\ IsStruct(str) /\ str.kind = "str" /\ str.len = s.len /\ str.text = s.text /\ str.packed = FALSE
      /\ str.static = TRUE /\ str.pos = 0 /\ str.next = 0 /\ str.els = << >>
  <2>1. str = [Blank EXCEPT !.kind = "str", !.len = s.len, !.text = s.text]
    OBVIOUS
  <2> HIDE DEF str, s
  <2>2. FreshStr(str, s.len, s.text)
    BY <2>1, FreshString
  <2> QED
    BY <2>2 DEF Fresh, FreshStr
<1> HIDE DEF s2, str, at2
<1>7. /\ DOMAIN s2 = DOMAIN shm \cup {ctx.cur} /\ s2[ctx.cur] = str /\ \A b \in DOMAIN shm: s2[b] = shm[b]
  BY <1>4, <1>5 DEF Added
<1>8. Header(m, s2, alloc, at2, q)
  BY <1>3, <1>4, <1>6, <1>7 DEF Header
<1>9. NewStructure(m, s2, alloc, at2, q)
  BY <1>4, <1>6, <1>7, <1>8 DEF NewStructure
<1>10. Grows(m, alloc, shm, ctx.done, ctx.cur, q, at2, s2)
  BY <1>4, <1>7, <1>9 DEF Grows, at2
<1>11. Lists(m, at2, << >>, Slots(m, {q}))
  <2>1. Body(m, at2, q) \in Nat
    BY <1>4
  <2>2. Lists(m, at2, << >>, {}) /\ Slots(m, {q}) = {}
    BY <2>1, <1>3, <1>4, ListsEach
  <2> QED
    BY <2>2
<1>12. Weight(m[q]) = StrSize(s.len)
  BY <1>3 DEF Weight
<1> QED
  BY <1>1, <1>3, <1>10, <1>11, <1>12, CopyStructureStep

\* An array is copied: its header and its data, with the elements of the value.
LEMMA CopyHtStep ==
  ASSUME StartInv, CopyInv, CopyHt
  PROVE  CopyInv'
<1> DEFINE q == Here(shm).val.p
           ht == input.mem[q]
           data == ctx.cur + HtSize
           header == [Blank EXCEPT !.kind = "arr", !.packed = ht.packed, !.data = ToOff(data)]
           body == [Blank EXCEPT !.kind = "data", !.els = ht.els]
           s1 == Put(shm, ctx.cur, header)
           s2 == Put(s1, data, body)
           at2 == At(alloc, Put(ctx.done, q, ctx.cur))
           w == HtSize + DataSize(ht.packed, Len(ht.els))
<1>1. /\ CopyFirst("arr") /\ Elements(ht.els) # {}
      /\ CopyNext(SetZval(s2, "arr", ctx.cur), AddAllocated(Allocated(ctx, w), q, ctx.cur), Each(data, ht.els))
  BY DEF CopyHt
<1>2. PICK m, at, raw, rk, x:
        /\ CopyAt(m, at, raw, rk, x) /\ NewAt(m, x, ctx.done, q) /\ q \in ctx.counted
        /\ m[q].kind = "arr" /\ AtValue /\ m = input.mem /\ (~ctx.memo => "arr" = "str")
  <2>1. ~IsEmpty(ht) /\ "arr" \in Storable
    BY <1>1 DEF IsEmpty, Storable
  <2> QED
    BY <2>1, <1>1, CopyFirstAt
<1>3. /\ at2[q] = ctx.cur /\ q \in DOMAIN m /\ IsValue(m) /\ Body(m, at2, q) = data /\ data \in Nat
      /\ ctx.cur \notin DOMAIN shm /\ data \notin DOMAIN shm /\ KindOf(m, q) = "arr"
  BY <1>2, NewFacts
<1>4. data # ctx.cur /\ ToOff(data) = ctx.cur + HtSize - alloc
  <2>1. ctx.cur \in Nat /\ alloc \in Nat
    BY <1>2, CopyPlace
  <2> QED
    BY <2>1 DEF ToOff, HtSize, data
<1>5. /\ IsStruct(header) /\ header.kind = "arr" /\ header.packed = ht.packed /\ header.data = ToOff(data)
      /\ header.static = TRUE /\ header.pos = 0 /\ header.next = 0 /\ header.els = << >>
      /\ IsStruct(body) /\ body.kind = "data" /\ body.els = ht.els
      /\ body.static = TRUE /\ body.pos = 0 /\ body.next = 0
  <2>1. header = [Blank EXCEPT !.kind = "arr", !.packed = ht.packed, !.data = ToOff(data)]
    OBVIOUS
  <2>2. body = [Blank EXCEPT !.kind = "data", !.els = ht.els]
    OBVIOUS
  <2> HIDE DEF header, body, ht, data
  <2>3. FreshHeader(header, ht.packed, ToOff(data))
    BY <2>1, FreshArray
  <2>4. FreshWith(body, "data", ht.els)
    BY <2>2, FreshBuckets
  <2> QED
    BY <2>3, <2>4 DEF Fresh, FreshHeader, FreshWith
<1> HIDE DEF header, body
<1>6. Added(shm, s1, ctx.cur, header) /\ Added(s1, s2, data, body)
  BY PutAdds
<1> HIDE DEF s1, s2, at2, data
<1>7. /\ DOMAIN s2 = DOMAIN shm \cup {ctx.cur, data} /\ s2[ctx.cur] = header /\ s2[data] = body
      /\ \A b \in DOMAIN shm: s2[b] = shm[b]
  BY <1>3, <1>4, <1>6 DEF Added
<1>8. Header(m, s2, alloc, at2, q)
  <2>1. ctx.cur + HtSize = data /\ DOMAIN << >> = {}
    BY DEF data
  <2> QED
    BY <2>1, <1>2, <1>3, <1>4, <1>5, <1>7 DEF Header
<1>9. NewStructure(m, s2, alloc, at2, q)
  <2>1. DOMAIN << >> = {}
    OBVIOUS
  <2>2. DOMAIN s2[ctx.cur].els = {}
    BY <2>1, <1>5, <1>7
  <2>3. \A a \in {ctx.cur, data}:
          /\ IsStruct(s2[a]) /\ s2[a].static \in BOOLEAN /\ s2[a].pos = 0 /\ s2[a].next = 0
          /\ s2[a].kind # "str"
    BY <1>5, <1>7
  <2> QED
    BY <2>2, <2>3, <1>2, <1>3, <1>5, <1>7, <1>8 DEF NewStructure
<1>10. Grows(m, alloc, shm, ctx.done, ctx.cur, q, at2, s2)
  BY <1>3, <1>7, <1>9 DEF Grows, at2
<1>11. Lists(m, at2, Each(data, ht.els), Slots(m, {q}))
  BY <1>2, <1>3, ListsEach
<1>12. Weight(m[q]) = w
  BY <1>1, <1>2 DEF Weight
<1> HIDE DEF w
<1> QED
  BY <1>1, <1>2, <1>10, <1>11, <1>12, CopyStructureStep

\* A reference is copied.
LEMMA CopyRefStep ==
  ASSUME StartInv, CopyInv, CopyRef
  PROVE  CopyInv'
<1> DEFINE q == Here(shm).val.p
           ref == [Blank EXCEPT !.kind = "ref", !.els = input.mem[q].els]
           s2 == Put(shm, ctx.cur, ref)
           at2 == At(alloc, Put(ctx.done, q, ctx.cur))
<1>1. /\ CopyFirst("ref")
      /\ CopyNext(SetZval(s2, "ref", ctx.cur), AddAllocated(Allocated(ctx, RefSize), q, ctx.cur),
                  Each(ctx.cur, ref.els))
  BY DEF CopyRef
<1>2. input.mem[q].kind = "ref"
  <2>1. AtValue /\ ~ctx.ser /\ Here(shm).val.type = "ref"
    BY <1>1 DEF CopyFirst
  <2>2. phase \in {"copy", "value"} /\ (todo # << >> \/ phase = "value") /\ ~Flat(Here(shm).val)
    BY <2>1 DEF AtValue, Flat
  <2>3. PICK m, at, raw, rk, x: CopyAt(m, at, raw, rk, x)
    BY <2>1, <2>2, CopyIsAt
  <2>4. m[q].kind = "ref" /\ m = input.mem
    BY <2>1, <2>2, <2>3, CopyReaches, CopyPlace
  <2> QED
    BY <2>4
<1>3. PICK m, at, raw, rk, x:
        /\ CopyAt(m, at, raw, rk, x) /\ NewAt(m, x, ctx.done, q) /\ q \in ctx.counted
        /\ m[q].kind = "ref" /\ AtValue /\ m = input.mem /\ (~ctx.memo => "ref" = "str")
  <2>1. ~IsEmpty(input.mem[q]) /\ "ref" \in Storable
    BY <1>2 DEF IsEmpty, Storable
  <2> QED
    BY <2>1, <1>1, CopyFirstAt
<1>4. /\ at2[q] = ctx.cur /\ q \in DOMAIN m /\ IsValue(m) /\ Body(m, at2, q) = ctx.cur /\ ctx.cur \in Nat
      /\ ctx.cur \notin DOMAIN shm /\ KindOf(m, q) = "ref" /\ m[q].packed = FALSE
  BY <1>3, NewFacts
<1>5. Added(shm, s2, ctx.cur, ref)
  <2> HIDE DEF ref
  <2> QED
    BY PutAdds
<1>6. /\ IsStruct(ref) /\ ref.kind = "ref" /\ ref.packed = FALSE
      /\ ref.static = TRUE /\ ref.pos = 0 /\ ref.next = 0 /\ ref.els = input.mem[q].els
  <2>1. ref = [Blank EXCEPT !.kind = "ref", !.els = input.mem[q].els]
    OBVIOUS
  <2> HIDE DEF ref, q
  <2>2. FreshWith(ref, "ref", input.mem[q].els)
    BY <2>1, FreshBuckets
  <2> QED
    BY <2>2 DEF Fresh, FreshWith
<1> HIDE DEF s2, ref, at2
<1>7. /\ DOMAIN s2 = DOMAIN shm \cup {ctx.cur} /\ s2[ctx.cur] = ref /\ \A b \in DOMAIN shm: s2[b] = shm[b]
  BY <1>4, <1>5 DEF Added
<1>8. Header(m, s2, alloc, at2, q)
  BY <1>3, <1>4, <1>6, <1>7 DEF Header
<1>9. NewStructure(m, s2, alloc, at2, q)
  BY <1>3, <1>4, <1>6, <1>7, <1>8 DEF NewStructure
<1>10. Grows(m, alloc, shm, ctx.done, ctx.cur, q, at2, s2)
  BY <1>4, <1>7, <1>9 DEF Grows, at2
<1>11. Lists(m, at2, Each(ctx.cur, ref.els), Slots(m, {q}))
  BY <1>3, <1>4, <1>6, ListsEach
<1>12. Weight(m[q]) = RefSize
  BY <1>3 DEF Weight
<1> QED
  BY <1>1, <1>3, <1>10, <1>11, <1>12, CopyStructureStep

\* What is assigned to the header of an array.
LEMMA HeaderAssigned ==
  ASSUME NEW s, NEW a \in DOMAIN s, IsStruct(s[a]), NEW i, NEW n, NEW b \in BOOLEAN, NEW x,
         x = [s[a] EXCEPT !.pos = i, !.next = n, !.static = b], NEW s2, s2 = [s EXCEPT ![a] = x]
  PROVE  HeaderSet(s, s2, a, i, n, b)
<1>1. x = [kind |-> s[a].kind, rc |-> s[a].rc, len |-> s[a].len, text |-> s[a].text, packed |-> s[a].packed,
           next |-> n, pos |-> i, static |-> b, data |-> s[a].data, els |-> s[a].els]
  BY DEF IsStruct
<1>2. IsStruct(x)
  BY <1>1 DEF IsStruct
<1>3. SameFixed(x, s[a])
  BY <1>1 DEF SameFixed
<1>4. x.els = s[a].els /\ x.pos = i /\ x.next = n
  BY <1>1
<1>5. x.static = b
  BY <1>1
<1> QED
  BY <1>2, <1>3, <1>4, <1>5 DEF HeaderSet

\* What the step does to the header.
LEMMA BucketHeader ==
  ASSUME NEW m, NEW at, NEW raw, NEW rk, NEW x, CopyAt(m, at, raw, rk, x), x \in rk, InData
  PROVE  LET e == Here(shm)
             a == Item[1] - HtSize
             ht == shm[a]
             header == [ht EXCEPT
               !.pos = IF @ = 0 THEN Item[2] ELSE @,
               !.next = IF e.key # None THEN @
                        ELSE Behind(@, IF ht.packed THEN Item[2] - 1 ELSE e.h),
               !.static = @ /\ e.key = None]
         IN HeaderFor(m, shm, [shm EXCEPT ![a] = header], at, x)
<1> DEFINE e == Here(shm)
           a == Item[1] - HtSize
           ht == shm[a]
           i == IF ht.pos = 0 THEN Item[2] ELSE ht.pos
           n == IF e.key # None THEN ht.next ELSE Behind(ht.next, IF ht.packed THEN Item[2] - 1 ELSE e.h)
           b == ht.static /\ e.key = None
           header == [ht EXCEPT !.pos = i, !.next = n, !.static = b]
<1>1. Current(m, at, raw, rk, x) /\ m = input.mem
  BY DEF CopyAt
<1>2. /\ m[x[1]].kind = "arr" /\ Item = <<Body(m, at, x[1]), x[2]>> /\ x[1] \in DOMAIN at
      /\ e.key = m[x[1]].els[x[2]].key /\ e.h = m[x[1]].els[x[2]].h
  BY <1>1 DEF Current
<1>3. Frame(m, shm, alloc, at) /\ IsValue(m)
  BY CopyPlace
<1>4. at[x[1]] \in Nat /\ at[x[1]] \in DOMAIN shm
  BY <1>2, <1>3, Places1
<1>5. a = at[x[1]] /\ Item[2] = x[2]
  BY <1>2, <1>4 DEF Body, HtSize
<1>6. IsStruct(ht) /\ ht.static \in BOOLEAN /\ ht.packed = m[x[1]].packed
  BY <1>2, <1>3, <1>4, <1>5 DEF Frame, Shaped, Header
<1>7. n = (IF m[x[1]].els[x[2]].key # None THEN ht.next ELSE Behind(ht.next, Index(m[x[1]], x[2])))
  BY <1>2, <1>5, <1>6 DEF Index
<1>8. b \in BOOLEAN /\ a \in DOMAIN shm
  BY <1>4, <1>5, <1>6
<1>9. b = (ht.static /\ m[x[1]].els[x[2]].key = None)
  BY <1>2
<1>10. header = [shm[a] EXCEPT !.pos = i, !.next = n, !.static = b] /\ IsStruct(shm[a])
  BY <1>6
<1> HIDE DEF i, n, b, header, a, e
<1>11. HeaderSet(shm, [shm EXCEPT ![a] = header], a, i, n, b)
  <2> DEFINE s2 == [shm EXCEPT ![a] = header]
  <2>1. s2 = [shm EXCEPT ![a] = header]
    OBVIOUS
  <2> HIDE DEF s2
  <2>2. HeaderSet(shm, s2, a, i, n, b)
    BY <1>8, <1>10, <2>1, HeaderAssigned
  <2> QED
    BY <2>1, <2>2
<1>12. HeaderFor(m, shm, [shm EXCEPT ![a] = header], at, x)
  <2>1. i = IF shm[at[x[1]]].pos = 0 THEN x[2] ELSE shm[at[x[1]]].pos
    BY <1>5 DEF i
  <2>2. shm[at[x[1]]] = ht
    BY <1>5
  <2> QED
    BY <1>11, <1>5, <1>7, <1>9, <2>1, <2>2 DEF HeaderFor
<1> QED
  BY <1>12 DEF header, i, n, b, a, e

\* The key of a bucket is copied, and the header follows it.
LEMMA CopyBucketStep ==
  ASSUME StartInv, CopyInv, CopyBucket, ~ctx.ser
  PROVE  CopyInv'
<1> DEFINE e == Here(shm)
           a == Item[1] - HtSize
           ht == shm[a]
           header == [ht EXCEPT
             !.pos = IF @ = 0 THEN Item[2] ELSE @,
             !.next = IF e.key # None THEN @
                      ELSE Behind(@, IF ht.packed THEN Item[2] - 1 ELSE e.h),
             !.static = @ /\ e.key = None]
           s2 == [shm EXCEPT ![a] = header]
           s3 == CopyCstr(s2, KeyLen, e.key)
           str == [Blank EXCEPT !.kind = "str", !.len = KeyLen, !.text = e.key]
<1>1. /\ phase = "copy" /\ todo # << >> /\ InData /\ e.val.type # "undef"
      /\ e.key = None => shm' = s2 /\ ctx' = ctx
      /\ e.key # None => /\ shm' = [s3 EXCEPT ![Item[1]].els[Item[2]].key = ToOff(ctx.cur)]
                         /\ ctx' = Allocated(ctx, StrSize(KeyLen))
      /\ phase' = "value" /\ todo' = todo /\ input' = input /\ alloc' = alloc
  BY DEF CopyBucket, setup
<1>2. PICK m, at, raw, rk, x: CopyAt(m, at, raw, rk, x)
  BY <1>1, CopyIsAt
<1>3. /\ Half(m, alloc, shm, ctx.done, ctx.cur, raw, rk) /\ Lists(m, at, todo, raw) /\ IsValue(m)
      /\ Current(m, at, raw, rk, x) /\ Goal(m, ctx.counted, ctx.size, ctx.done, ctx.memo)
      /\ m = input.mem /\ at = At(alloc, ctx.done)
  BY <1>2 DEF CopyAt
<1>4. /\ x \in rk /\ rk \ {x} = raw \ {x} /\ m[x[1]].kind = "arr" /\ x \in raw /\ x \in Slots(m, DOMAIN at)
      /\ e.key = m[x[1]].els[x[2]].key /\ m[x[1]].els[x[2]].val.type # "undef"
      /\ Item = <<Body(m, at, x[1]), x[2]>>
  BY <1>1, <1>3 DEF Current
<1>5. HeaderFor(m, shm, s2, at, x)
  BY <1>1, <1>2, <1>4, BucketHeader
<1> HIDE DEF s2
<1>6. /\ IsContext(ctx) /\ IsContext(ctx') /\ ctx'.done = ctx.done /\ ctx'.size = ctx.size
      /\ ctx'.counted = ctx.counted /\ ctx'.memo = ctx.memo
      /\ ctx'.cur = IF e.key = None THEN ctx.cur ELSE ctx.cur + StrSize(KeyLen)
  <2>1. IsContext(ctx)
    BY DEF StartInv, SetupInv
  <2>2. CASE e.key = None
    BY <2>1, <2>2, <1>1
  <2>3. CASE e.key # None
    <3>1. ctx' = Allocated(ctx, StrSize(KeyLen))
      BY <2>3, <1>1
    <3> HIDE DEF e
    <3> QED
      BY <2>1, <2>3, <3>1, CopyFields
  <2> QED
    BY <2>2, <2>3
<1>7. Half(m, alloc, shm', ctx.done, ctx'.cur, raw, rk \ {x})
  <2>1. CASE e.key = None
    <3>1. shm' = s2 /\ ctx'.cur = ctx.cur /\ m[x[1]].els[x[2]].key = None
      BY <2>1, <1>1, <1>4, <1>6
    <3>2. Half(m, alloc, s2, ctx.done, ctx.cur, raw, rk \ {x})
      BY <1>3, <1>4, <1>5, <3>1, HalfKeyless
    <3> QED
      BY <3>1, <3>2
  <2>2. CASE e.key # None
    <3>1. /\ shm' = [s3 EXCEPT ![Item[1]].els[Item[2]].key = ToOff(ctx.cur)]
          /\ ctx'.cur = ctx.cur + StrSize(KeyLen) /\ m[x[1]].els[x[2]].key # None
      BY <2>2, <1>1, <1>4, <1>6
    <3>2. Block(m, shm, alloc, at, raw, rk) /\ ctx.cur \in Nat /\ ctx.cur \notin DOMAIN shm
      BY <1>2, <1>3, CopyPlace DEF Half
    <3>3. /\ Frame(m, s2, alloc, at) /\ DOMAIN s2 = DOMAIN shm
          /\ \A y \in Slots(m, DOMAIN at): Cell(m, s2, at, y) = Cell(m, shm, at, y)
      <4>1. DOMAIN s2 = DOMAIN shm
        BY <1>5 DEF HeaderFor, HeaderSet
      <4>2. /\ Frame(m, s2, alloc, at) /\ Copied(m, s2, alloc, at, raw, rk) /\ Flags(m, s2, at, rk \ {x})
            /\ \A y \in Slots(m, DOMAIN at): Cell(m, s2, at, y) = Cell(m, shm, at, y)
        <5>1. /\ IsValue(m) /\ x \in rk /\ m[x[1]].kind = "arr" /\ m[x[1]].els[x[2]].val.type # "undef"
              /\ x \in Slots(m, DOMAIN at) /\ Block(m, shm, alloc, at, raw, rk)
          BY <3>2, <1>3, <1>4
        <5> HIDE DEF e
        <5> QED
          BY <5>1, <1>5, BlockHeader
      <4> QED
        BY <4>1, <4>2
    <3>4. Added(s2, s3, ctx.cur, str)
      <4> HIDE DEF str
      <4>1. Added(s2, Put(s2, ctx.cur, str), ctx.cur, str)
        BY PutAdds
      <4> QED
        BY <4>1 DEF str, CopyCstr
    <3>5. str = [Blank EXCEPT !.kind = "str", !.len = KeyLen, !.text = e.key]
      OBVIOUS
    <3> HIDE DEF str, s3, e
    <3>6. FreshStr(str, KeyLen, e.key)
      BY <3>5, FreshString
    <3>7. /\ IsStruct(str) /\ str.static \in BOOLEAN /\ str.kind = "str" /\ DOMAIN str.els = {}
          /\ str.text = m[x[1]].els[x[2]].key
      <4>1. IsStruct(str) /\ str.kind = "str" /\ str.els = << >> /\ str.text = e.key
        BY <3>6 DEF Fresh, FreshStr
      <4>2. str.static = TRUE
        BY <3>6 DEF FreshStr
      <4>3. DOMAIN << >> = {} /\ e.key = m[x[1]].els[x[2]].key
        BY <1>4
      <4>4. IsStruct(str) /\ str.kind = "str" /\ DOMAIN str.els = {} /\ str.text = m[x[1]].els[x[2]].key
        BY <4>1, <4>3
      <4> QED
        BY <4>2, <4>4
    <3>8. Frame(m, s3, alloc, at) /\ Cell(m, s3, at, x) = Cell(m, shm, at, x)
      BY <3>2, <3>3, <3>4, <3>7, <1>3, <1>4, BlockString
    <3>9. /\ Shaped(s3) /\ Body(m, at, x[1]) \in DOMAIN s3 /\ x[2] \in DOMAIN s3[Body(m, at, x[1])].els
      BY <3>8, <1>3, <1>4, CellFacts DEF Frame
    <3>10. /\ ToOff(ctx.cur) = ctx.cur - alloc
           /\ s3[Body(m, at, x[1])].els[x[2]] = Cell(m, shm, at, x)
      BY <3>8 DEF ToOff, Cell
    <3>11. Rewritten(s3, shm', Body(m, at, x[1]), x[2],
             [h |-> Cell(m, shm, at, x).h, key |-> ctx.cur - alloc, val |-> Cell(m, shm, at, x).val])
      <4> DEFINE b == Body(m, at, x[1])
                 j == x[2]
                 off == ctx.cur - alloc
                 c == Cell(m, shm, at, x)
      <4>1. b \in DOMAIN s3 /\ j \in DOMAIN s3[b].els /\ s3[b].els[j] = c /\ Item[1] = b /\ Item[2] = j
        BY <3>9, <3>10, <1>4
      <4>2. shm' = [s3 EXCEPT ![b].els[j].key = off]
        BY <4>1, <3>1, <3>10
      <4> HIDE DEF b, j, off, c
      <4>3. Rewritten(s3, [s3 EXCEPT ![b].els[j].key = off], b, j,
                      [h |-> s3[b].els[j].h, key |-> off, val |-> s3[b].els[j].val])
        BY <4>1, <3>9, KeyWritten
      <4>4. Rewritten(s3, shm', b, j, [h |-> c.h, key |-> off, val |-> c.val])
        BY <4>1, <4>2, <4>3
      <4> QED
        BY <4>4 DEF b, j, off, c
    <3>12. Half(m, alloc, shm', ctx.done, ctx.cur + StrSize(KeyLen), raw, rk \ {x})
      BY <3>1, <3>4, <3>7, <3>11, <1>3, <1>4, <1>5, HalfKey
    <3> QED
      BY <3>1, <3>12
  <2> QED
    BY <2>1, <2>2
<1>8. Goal(m, ctx.counted, ctx.size, ctx.done, ctx.memo)'
  BY <1>1, <1>3, <1>6 DEF Goal
<1>9. Keyless(m, at, raw, rk \ {x})'
  <2>1. Item' = Item /\ phase' = "value" /\ todo' # << >>
    BY <1>1 DEF Item
  <2>2. \E y \in raw: /\ Item' = <<Body(m, at, y[1]), y[2]>> /\ rk \ {x} = raw \ {y}
                       /\ m[y[1]].kind = "arr" /\ m[y[1]].els[y[2]].val.type # "undef"
    BY <1>4, <2>1
  <2> QED
    BY <2>1, <2>2 DEF Keyless
<1> HIDE DEF e, s3
<1>10. /\ Half(m, alloc, shm, ctx.done, ctx.cur, raw, rk \ {x})'
       /\ Lists(m, At(alloc, ctx.done), todo, raw)'
       /\ Keyless(m, At(alloc, ctx.done), raw, rk \ {x})' /\ m = input.mem'
  BY <1>1, <1>3, <1>6, <1>7, <1>9
<1> QED
  BY <1>8, <1>10 DEF CopyInv

\* The tables are empty until the copy.
DoneInv == phase \in {"calc", "recalc"} => ctx.done = Nothing

\* The first pass leaves the table of copies alone.
LEMMA CalcDone ==
  ASSUME StartInv, Calc
  PROVE  /\ phase \in {"calc", "recalc"} /\ ctx'.done = ctx.done
         /\ phase' \in {"calc", "recalc", "again", "failed"}
<1>1. IsContext(ctx)
  BY DEF StartInv, SetupInv
<1>2. \A key: IsContext(CalcKey(ctx, key)) /\ CalcKey(ctx, key).done = ctx.done
  BY <1>1, CalcFields DEF CalcKey
<1>3. CASE CalcFlat
  <2>1. ctx' = ctx \/ \E key: ctx' = CalcKey(ctx, key)
    BY <1>3 DEF CalcFlat, CalcNext
  <2> QED
    BY <2>1, <1>2, <1>3 DEF CalcFlat, CalcNext, Calculating
<1>4. CASE CalcIndirect
  <2>1. ctx' = [ctx EXCEPT !.ser = TRUE]
    BY <1>4 DEF CalcIndirect, CalcFail
  <2>2. ctx'.done = ctx.done
    BY <2>1, <1>1 DEF IsContext
  <2> QED
    BY <2>2, <1>4 DEF CalcIndirect, CalcFail, Calculating
<1>5. CASE CalcSerialize
  <2>1. \/ ctx' = AddSize([ctx EXCEPT !.str = [by |-> Format, of |-> Here(input.mem).val]], StrSize(SerLen))
        \/ ctx' = ctx
    BY <1>5 DEF CalcSerialize, CalcNext, CalcFail
  <2>2. ctx'.done = ctx.done
    BY <2>1, <1>1 DEF IsContext, AddSize
  <2> QED
    BY <2>2, <1>5 DEF CalcSerialize, CalcNext, CalcFail, Calculating
<1>6. CASE CalcAgain
  <2>1. \E key: ctx' = CalcKey(ctx, key)
    BY <1>6 DEF CalcAgain, CalcNext
  <2> QED
    BY <2>1, <1>2, <1>6 DEF CalcAgain, CalcNext, Calculating
<1>7. CASE CalcStructure
  <2>1. \E key, p, n: ctx' = AddSize(CalcMemoize(CalcKey(ctx, key), p), n)
    BY <1>7 DEF CalcStructure, CalcNext
  <2>2. PICK key, p, n: ctx' = AddSize(CalcMemoize(CalcKey(ctx, key), p), n)
    BY <2>1
  <2>3. IsContext(CalcMemoize(CalcKey(ctx, key), p)) /\ CalcMemoize(CalcKey(ctx, key), p).done = ctx.done
    BY <1>2, CalcFields
  <2>4. ctx'.done = ctx.done
    BY <2>2, <2>3, CalcFields
  <2> QED
    BY <2>4, <1>7 DEF CalcStructure, CalcNext, Calculating
<1>8. CASE CalcRefused
  <2>1. ctx' = [ctx EXCEPT !.ser = (Here(input.mem).val.type = "obj")]
    BY <1>8 DEF CalcRefused, CalcFail
  <2>2. ctx'.done = ctx.done
    BY <2>1, <1>1 DEF IsContext
  <2> QED
    BY <2>2, <1>8 DEF CalcRefused, CalcFail, Calculating
<1> QED
  BY <1>3, <1>4, <1>5, <1>6, <1>7, <1>8 DEF Calc

\* The entry at the start of the block is there before the value is copied.
LEMMA EntryBlock ==
  ASSUME NEW m, IsValue(m), NEW base \in Nat, NEW x, FreshWith(x, "entry", m[0].els),
         NEW s, Added(Nothing, s, base, x)
  PROVE  Half(m, base, s, Nothing, base + EntrySize, {<<0, 1>>}, {<<0, 1>>})
<1> DEFINE at == At(base, Nothing)
<1>1. DOMAIN Nothing = {}
  BY DEF Nothing
<1>2. DOMAIN at = {0} /\ at[0] = base
  BY <1>1, AtFacts
<1>3. /\ 0 \in DOMAIN m /\ m[0].kind = "zval" /\ DOMAIN m[0].els = {1} /\ m[0].packed = FALSE
      /\ Slots(m, {0}) = {<<0, 1>>} /\ Slots(m, {} \cup {0}) = {<<0, 1>>} /\ Keyed(m, {}) = {}
  BY ValueFacts, RootSlot
<1>4. DOMAIN s = {base} /\ s[base] = x
  BY <1>1 DEF Added
<1>5. IsStruct(x) /\ x.kind = "entry" /\ x.els = m[0].els
  BY DEF FreshWith, Fresh
<1>6. x.packed = FALSE
  BY DEF FreshWith
<1>7. x.static = TRUE
  BY DEF FreshWith
<1> HIDE DEF at
<1>8. Body(m, at, 0) = base
  BY <1>2, <1>3 DEF Body
<1>9. Places(m, base, at)
  BY <1>2, <1>3 DEF Places
<1>10. Shaped(s)
  <2>1. \A i \in DOMAIN m[0].els: IsBucket(m[0].els[i])
    BY <1>3, SlotFacts
  <2>2. x.static \in BOOLEAN
    BY <1>7
  <2> QED
    BY <1>4, <1>5, <2>1, <2>2 DEF Shaped
<1>11. Known(m, s, at)
  BY <1>2, <1>4 DEF Known
<1>12. Header(m, s, base, at, 0)
  BY <1>2, <1>3, <1>4, <1>5, <1>6, <1>8 DEF Header, KindOf
<1>13. Frame(m, s, base, at)
  BY <1>2, <1>9, <1>10, <1>11, <1>12 DEF Frame
<1>14. Copied(m, s, base, at, {<<0, 1>>}, {<<0, 1>>})
  <2>1. Cell(m, s, at, <<0, 1>>) = m[0].els[1]
    BY <1>4, <1>5, <1>8 DEF Cell
  <2> QED
    BY <1>2, <1>3, <2>1 DEF Copied
<1>15. Flags(m, s, at, {<<0, 1>>})
  BY <1>2, <1>3 DEF Flags
<1>16. Counted(m, {}, {<<0, 1>>}) = EntrySize
  BY <1>3, SizeOfNothing DEF Counted
<1> QED
  BY <1>1, <1>3, <1>4, <1>13, <1>14, <1>15, <1>16, SizeAssumption DEF Half, Block, at

\* The copy of a value begins with the entry.
LEMMA PersistAllocCopy ==
  ASSUME StartInv, DoneInv, PersistAlloc
  PROVE  CopyInv'
<1> SUFFICES ASSUME ~ctx'.ser
             PROVE  CopyInv'
  BY DEF CopyInv
<1> DEFINE m == input.mem
           x == [Blank EXCEPT !.kind = "entry", !.els = m[0].els]
<1>1. /\ phase \in {"calc", "recalc"} /\ todo = << >> /\ alloc' \in Bases /\ shm' = Put(Nothing, alloc', x)
      /\ ctx' = [ctx EXCEPT !.cur = alloc' + EntrySize] /\ todo' = <<<<alloc', 1>>>> /\ phase' = "copy"
      /\ input' = input
  BY DEF PersistAlloc, setup
<1>2. IsContext(ctx) /\ alloc' \in Nat /\ IsValue(m) /\ <<0, 1>> \in Nat \X Nat
  BY <1>1, BaseAssumption, InputIsValue DEF StartInv, SetupInv
<1>3. /\ ctx'.ser = ctx.ser /\ ctx'.memo = ctx.memo /\ ctx'.size = ctx.size /\ ctx'.counted = ctx.counted
      /\ ctx'.done = ctx.done /\ ctx'.cur = alloc' + EntrySize
  BY <1>1, <1>2, CopyFields
<1>4. /\ Pass(m, ctx.counted, Members(todo), ctx.size) /\ todo \in Seq(Nat \X Nat)
      /\ ~ctx.memo => Top.type # "arr"
  BY <1>1, <1>3 DEF StartInv, CalcInv
<1>5. Members(todo) = {} /\ ctx.done = Nothing /\ DOMAIN ctx.done = {}
  BY <1>1, <1>4, NoMembers DEF DoneInv, Nothing
<1>6. Goal(m, ctx.counted, ctx.size, ctx.done, ctx.memo)'
  BY <1>1, <1>3, <1>4, <1>5 DEF Goal, Pass, Top
<1>7. x = [Blank EXCEPT !.kind = "entry", !.els = m[0].els]
  OBVIOUS
<1> HIDE DEF x, m
<1>8. FreshWith(x, "entry", m[0].els) /\ Added(Nothing, Put(Nothing, alloc', x), alloc', x)
  BY <1>7, FreshBuckets, PutAdds
<1>9. Half(m, alloc', shm', Nothing, alloc' + EntrySize, {<<0, 1>>}, {<<0, 1>>})
  BY <1>1, <1>2, <1>8, EntryBlock
<1> DEFINE at == At(alloc', Nothing)
<1>10. Body(m, at, 0) = alloc'
  <2>1. at[0] = alloc' /\ m[0].kind # "arr"
    BY <1>2, <1>5, AtFacts, ValueFacts
  <2> QED
    BY <2>1 DEF Body
<1>11. Lists(m, at, todo', {<<0, 1>>})
  <2> DEFINE e == <<alloc', 1>>
  <2>1. e \in Nat \X Nat
    BY <1>2
  <2>2. {<<Body(m, at, y[1]), y[2]>>: y \in {<<0, 1>>}} = {e}
    BY <1>10
  <2>3. todo' = <<e>>
    BY <1>1
  <2> HIDE DEF e, at
  <2>4. <<e>> \in Seq(Nat \X Nat) /\ Once(<<e>>) /\ Members(<<e>>) = {e}
    BY <2>1, OneMember
  <2> QED
    BY <2>2, <2>3, <2>4 DEF Lists
<1>12. Keyless(m, At(alloc, ctx.done), {<<0, 1>>}, {<<0, 1>>})'
  BY <1>1 DEF Keyless
<1>13. ctx'.done = Nothing /\ m' = m
  BY <1>1, <1>3, <1>5 DEF m
<1>14. Half(m, alloc, shm, ctx.done, ctx.cur, {<<0, 1>>}, {<<0, 1>>})'
  BY <1>3, <1>9, <1>13
<1>15. Lists(m, At(alloc, ctx.done), todo, {<<0, 1>>})'
  BY <1>11, <1>13
<1> QED
  BY <1>6, <1>12, <1>14, <1>15 DEF CopyInv, m

\* The block of a serialized value: the entry leads to the string str.
Serialized(s, base, str) ==
  /\ DOMAIN s = {base, base + EntrySize} /\ IsStruct(s[base])
  /\ s[base].kind = "entry" /\ DOMAIN s[base].els = {1}
  /\ s[base].els[1].key = None /\ s[base].els[1].val = [type |-> "ptr", p |-> EntrySize]
  /\ s[base + EntrySize].kind = "str" /\ DOMAIN s[base + EntrySize].els = {}
  /\ s[base + EntrySize].text = str
Entry == [Blank EXCEPT !.kind = "entry", !.els = input.mem[0].els]

\* The copy of a serialized value: there is nothing but the entry, or it is done.
SerialInv ==
  phase \in {"copy", "value"} /\ ctx.ser =>
    /\ phase = "copy" /\ ~Flat(Top) /\ ctx.size = EntrySize + StrSize(SerLen)
    /\ ctx.str = [by |-> Format, of |-> Top]
    /\ \/ todo = <<<<alloc, 1>>>> /\ ctx.cur = alloc + EntrySize /\ shm = Put(Nothing, alloc, Entry)
       \/ todo = << >> /\ ctx.cur = alloc + ctx.size /\ Serialized(shm, alloc, ctx.str)

\* The entry before its value is copied.
LEMMA EntryFields ==
  ASSUME NEW m, IsValue(m), m = input.mem
  PROVE  /\ IsStruct(Entry) /\ Entry.kind = "entry" /\ Entry.els = m[0].els /\ Entry.static \in BOOLEAN
         /\ DOMAIN m[0].els = {1} /\ IsBucket(m[0].els[1]) /\ m[0].els[1].key = None
<1>1. FreshWith(Entry, "entry", m[0].els)
  <2>1. Entry = [Blank EXCEPT !.kind = "entry", !.els = m[0].els]
    BY DEF Entry
  <2> QED
    BY <2>1, FreshBuckets
<1>2. IsStruct(Entry) /\ Entry.kind = "entry" /\ Entry.els = m[0].els
  BY <1>1 DEF FreshWith, Fresh
<1>3. Entry.static = TRUE
  BY <1>1 DEF FreshWith
<1>4. DOMAIN m[0].els = {1} /\ 0 \in DOMAIN m /\ m[0].kind = "zval"
  BY ValueFacts
<1>5. \A i \in DOMAIN m[0].els: IsBucket(m[0].els[i]) /\ m[0].els[i].key = None
  BY <1>4, SlotFacts
<1>6. Entry.static \in BOOLEAN
  BY <1>3
<1> QED
  BY <1>2, <1>4, <1>5, <1>6

\* No step of the copy turns to serialization or away from it.
LEMMA CopySameWay ==
  ASSUME StartInv, Copy
  PROVE  /\ ctx'.ser = ctx.ser /\ ctx'.size = ctx.size /\ ctx'.str = ctx.str
         /\ ctx'.memo = ctx.memo /\ IsContext(ctx)
<1>1. IsContext(ctx)
  BY DEF StartInv, SetupInv
<1>2. \/ ctx' = ctx
      \/ \E n: ctx' = Allocated(ctx, n)
      \/ \E n, p, a: ctx' = AddAllocated(Allocated(ctx, n), p, a)
  BY DEF Copy, CopyBucket, CopyFlat, CopySerialized, CopyAgain, CopyZstr, CopyEmpty, CopyHt, CopyRef, CopyNext
<1>3. ASSUME NEW n
      PROVE  LET d == Allocated(ctx, n) IN
             /\ IsContext(d) /\ d.memo = ctx.memo /\ d.ser = ctx.ser /\ d.size = ctx.size /\ d.str = ctx.str
  BY <1>1, CopyFields
<1>4. ASSUME NEW n, NEW p, NEW a
      PROVE  LET d == AddAllocated(Allocated(ctx, n), p, a) IN
             /\ d.memo = ctx.memo /\ d.ser = ctx.ser /\ d.size = ctx.size /\ d.str = ctx.str
  BY <1>3, CopyFields
<1> QED
  BY <1>1, <1>2, <1>3, <1>4

\* The serializer's string is copied.
LEMMA CopySerializedStep ==
  ASSUME StartInv, SerialInv, ctx.ser, CopySerialized, phase \in {"copy", "value"}
  PROVE  SerialInv'
<1> DEFINE m == input.mem
           str == [Blank EXCEPT !.kind = "str", !.len = SerLen, !.text = ctx.str]
           s2 == CopyCstr(shm, SerLen, ctx.str)
<1>1. /\ AtValue /\ phase = "copy"
      /\ shm' = [s2 EXCEPT ![Item[1]].els[Item[2]].val = [type |-> "ptr", p |-> ToOff(ctx.cur)]]
      /\ ctx' = Allocated(ctx, StrSize(SerLen)) /\ todo' = << >> \o Tail(todo)
      /\ phase' = "copy" /\ UNCHANGED <<setup, alloc>>
  BY DEF CopySerialized, CopyNext, SetZval, SerialInv
<1>2. /\ todo = <<<<alloc, 1>>>> /\ ctx.cur = alloc + EntrySize /\ shm = Put(Nothing, alloc, Entry)
      /\ ~Flat(Top) /\ ctx.size = EntrySize + StrSize(SerLen) /\ ctx.str = [by |-> Format, of |-> Top]
  BY <1>1 DEF SerialInv, AtValue
<1>3. /\ IsContext(ctx) /\ alloc \in Nat /\ IsValue(m) /\ EntrySize \in Nat /\ EntrySize > 0 /\ StrSize(SerLen) \in Nat
  <2>1. IsContext(ctx) /\ alloc \in Nat
    BY BaseAssumption DEF StartInv, SetupInv, InBlock
  <2>2. IsValue(m)
    BY InputIsValue DEF StartInv
  <2>3. StrSize(SerLen) \in Nat
    BY SizeNumbers
  <2> QED
    BY <2>1, <2>2, <2>3, SizeAssumption
<1>4. Item = <<alloc, 1>> /\ todo' = << >> /\ Item[1] = alloc /\ Item[2] = 1
  BY <1>1, <1>2 DEF Item
<1>5. /\ ctx'.ser = ctx.ser /\ ctx'.size = ctx.size /\ ctx'.str = ctx.str
      /\ ctx'.cur = ctx.cur + StrSize(SerLen)
  <2>1. ctx' = Allocated(ctx, StrSize(SerLen))
    BY <1>1
  <2>2. ctx'.cur = ctx.cur + StrSize(SerLen)
    BY <2>1, <1>3 DEF IsContext, Allocated
  <2>3. Copy
    BY DEF Copy
  <2> QED
    BY <2>2, <2>3, CopySameWay
<1>6. ctx'.cur = alloc + ctx'.size
  BY <1>2, <1>3, <1>5
<1>7. FreshStr(str, SerLen, ctx.str)
  <2>1. str = [Blank EXCEPT !.kind = "str", !.len = SerLen, !.text = ctx.str]
    OBVIOUS
  <2> HIDE DEF str
  <2> QED
    BY <2>1, FreshString
<1>8. Added(Nothing, shm, alloc, Entry)
  BY <1>2, PutAdds
<1>9. Added(shm, s2, ctx.cur, str)
  <2> HIDE DEF str
  <2>1. Added(shm, Put(shm, ctx.cur, str), ctx.cur, str)
    BY PutAdds
  <2> QED
    BY <2>1 DEF CopyCstr, str
<1> HIDE DEF str, s2
<1>10. ctx.cur # alloc
  BY <1>2, <1>3
<1>11. DOMAIN s2 = {alloc, ctx.cur} /\ s2[alloc] = Entry /\ s2[ctx.cur] = str
  BY <1>8, <1>9, <1>10 DEF Added, Nothing
<1>12. /\ IsStruct(Entry) /\ Entry.kind = "entry" /\ Entry.els = m[0].els /\ Entry.static \in BOOLEAN
       /\ DOMAIN m[0].els = {1} /\ IsBucket(m[0].els[1]) /\ m[0].els[1].key = None
  BY <1>3, EntryFields
<1>13. /\ IsStruct(str) /\ str.kind = "str" /\ DOMAIN str.els = {} /\ str.text = ctx.str
       /\ str.static \in BOOLEAN
  <2>1. IsStruct(str) /\ str.kind = "str" /\ str.els = << >> /\ str.text = ctx.str
    BY <1>7 DEF Fresh, FreshStr
  <2>2. str.static = TRUE
    BY <1>7 DEF FreshStr
  <2>3. DOMAIN << >> = {}
    OBVIOUS
  <2>4. DOMAIN str.els = {}
    BY <2>1, <2>3
  <2> QED
    BY <2>1, <2>2, <2>4
<1>14. Shaped(s2)
  BY <1>2, <1>3, <1>11, <1>12, <1>13 DEF Shaped
<1> DEFINE v == [type |-> "ptr", p |-> ToOff(ctx.cur)]
           e == [h |-> s2[alloc].els[1].h, key |-> s2[alloc].els[1].key, val |-> v]
<1>15. Rewritten(s2, shm', alloc, 1, e)
  <2>1. shm' = [s2 EXCEPT ![alloc].els[1].val = v]
    BY <1>1, <1>4
  <2>2. alloc \in DOMAIN s2 /\ 1 \in DOMAIN s2[alloc].els
    BY <1>11, <1>12
  <2> HIDE DEF v
  <2>3. Rewritten(s2, [s2 EXCEPT ![alloc].els[1].val = v], alloc, 1, e)
    BY <1>14, <2>2, ValueWritten
  <2> QED
    BY <2>1, <2>3
<1>16. e.key = None /\ e.val = [type |-> "ptr", p |-> EntrySize]
  BY <1>2, <1>3, <1>11, <1>12 DEF ToOff
<1> HIDE DEF e
<1>17. Serialized(shm', alloc, ctx.str)
  <2>1. DOMAIN shm' = {alloc, alloc + EntrySize} /\ IsStruct(shm'[alloc])
    BY <1>2, <1>11, <1>15 DEF Rewritten
  <2>2. shm'[alloc].kind = "entry" /\ DOMAIN shm'[alloc].els = {1} /\ shm'[alloc].els[1] = e
    BY <1>11, <1>12, <1>15 DEF Rewritten, SameHead, SameFixed
  <2>3. /\ shm'[ctx.cur].kind = "str" /\ DOMAIN shm'[ctx.cur].els = {} /\ shm'[ctx.cur].text = ctx.str
    BY <1>11, <1>13, <1>15 DEF Rewritten, SameHead, SameFixed
  <2> QED
    BY <2>1, <2>2, <2>3, <1>2, <1>16 DEF Serialized
<1>18. Format' = Format /\ Top' = Top
  BY <1>1 DEF Format, Top, setup
<1> QED
  BY <1>1, <1>2, <1>4, <1>5, <1>6, <1>17, <1>18 DEF SerialInv

\* A serialized value is copied by that step alone.
LEMMA SerialCopyStep ==
  ASSUME StartInv, SerialInv, Copy, ctx.ser
  PROVE  SerialInv'
<1>1. phase \in {"copy", "value"}
  BY CopyQuietSteps
<1>2. IsValue(input.mem) /\ phase = "copy" /\ ~Flat(Top)
  BY <1>1, InputIsValue DEF StartInv, SerialInv
<1>3. ASSUME todo # << >>
      PROVE  /\ Item = <<alloc, 1>> /\ shm = Put(Nothing, alloc, Entry) /\ Here(shm).val = Top /\ ~InData
  <2>1. todo = <<<<alloc, 1>>>> /\ shm = Put(Nothing, alloc, Entry)
    BY <1>1, <1>2, <1>3 DEF SerialInv
  <2>2. Item = <<alloc, 1>> /\ shm[alloc] = Entry
    BY <2>1 DEF Item, Put
  <2>3. Entry.els = input.mem[0].els /\ Entry.kind = "entry"
    BY <1>2, EntryFields
  <2> QED
    BY <2>1, <2>2, <2>3 DEF Here, InData, Top
<1>4. ~CopyBucket
  BY <1>3 DEF CopyBucket
<1>5. ~CopyFlat
  BY <1>2, <1>3 DEF CopyFlat, AtValue
<1>6. ~CopyAgain /\ ~CopyZstr /\ ~CopyEmpty /\ ~CopyHt /\ ~CopyRef
  BY DEF CopyAgain, CopyZstr, CopyEmpty, CopyHt, CopyRef, CopyFirst
<1> QED
  BY <1>1, <1>4, <1>5, <1>6, CopySerializedStep DEF Copy

\* The copy of a serialized value begins with the entry.
LEMMA PersistAllocSerial ==
  ASSUME StartInv, PersistAlloc
  PROVE  SerialInv'
<1> SUFFICES ASSUME ctx'.ser
             PROVE  SerialInv'
  BY DEF SerialInv
<1>1. /\ phase \in {"calc", "recalc"} /\ todo = << >> /\ shm' = Put(Nothing, alloc', Entry)
      /\ ctx' = [ctx EXCEPT !.cur = alloc' + EntrySize] /\ todo' = <<<<alloc', 1>>>> /\ phase' = "copy"
      /\ UNCHANGED setup
  BY DEF PersistAlloc, Entry
<1>2. IsContext(ctx)
  BY DEF StartInv, SetupInv
<1>3. ctx'.ser = ctx.ser /\ ctx'.size = ctx.size /\ ctx'.str = ctx.str /\ ctx'.cur = alloc' + EntrySize
  <2>1. ctx' = [ctx EXCEPT !.cur = alloc' + EntrySize]
    BY <1>1
  <2>2. \A n: LET d == [ctx EXCEPT !.cur = n] IN
             d.ser = ctx.ser /\ d.size = ctx.size /\ d.str = ctx.str /\ d.cur = n
    BY <1>2, CopyFields
  <2> QED
    BY <2>1, <2>2
<1>4. /\ ~Flat(Top) /\ ctx.size = EntrySize + StrSize(SerLen) /\ ctx.str = [by |-> Format, of |-> Top]
  BY <1>1, <1>3 DEF StartInv, SerializeInv
<1>5. Format' = Format /\ Top' = Top /\ Entry' = Entry
  BY <1>1 DEF Format, Top, Entry, setup
<1> QED
  BY <1>1, <1>3, <1>4, <1>5 DEF SerialInv

\* The copy as a whole.
CopyingInv == StartInv /\ DoneInv /\ CopyInv /\ SerialInv

\* The steps of the copy together.
LEMMA CopyStep ==
  ASSUME CopyingInv, Copy
  PROVE  CopyingInv'
<1>1. StartInv' /\ phase \in {"copy", "value"} /\ phase' \in {"copy", "value"}
  BY CopyQuietSteps DEF CopyingInv
<1>2. ctx'.ser = ctx.ser /\ IsContext(ctx)
  BY CopySameWay DEF CopyingInv
<1>3. DoneInv'
  BY <1>1 DEF DoneInv
<1>4. CASE ctx.ser
  <2>1. CopyInv'
    BY <1>2, <1>4 DEF CopyInv
  <2>2. SerialInv'
    BY <1>4, SerialCopyStep DEF CopyingInv
  <2> QED
    BY <1>1, <1>3, <2>1, <2>2 DEF CopyingInv
<1>5. CASE ~ctx.ser
  <2>1. SerialInv'
    BY <1>2, <1>5 DEF SerialInv
  <2>2. ~CopySerialized
    BY <1>5 DEF CopySerialized
  <2>3. CopyInv'
    BY <1>5, <2>2, CopyBucketStep, CopyFlatStep, CopyAgainStep, CopyZstrStep, CopyEmptyStep, CopyHtStep,
       CopyRefStep DEF Copy, CopyingInv
  <2> QED
    BY <1>1, <1>3, <2>1, <2>3 DEF CopyingInv
<1> QED
  BY <1>4, <1>5

\* Elsewhere there is nothing to show but how it begins.
LEMMA CopyingInit ==
  ASSUME Init
  PROVE  CopyingInv
BY StartInit DEF Init, CopyingInv, DoneInv, CopyInv, SerialInv

\* The actions together.
LEMMA CopyingNext ==
  ASSUME CopyingInv, [Next]_vars
  PROVE  CopyingInv'
<1>1. StartInv /\ StartInv'
  BY StartNext DEF CopyingInv
<1>2. CASE Copy
  BY <1>2, CopyStep
<1>3. CASE PersistAlloc
  <2>1. DoneInv'
    BY <1>3 DEF DoneInv, PersistAlloc
  <2> QED
    BY <1>1, <1>3, <2>1, PersistAllocCopy, PersistAllocSerial DEF CopyingInv
<1>4. CASE PersistCalc \/ PersistRetry
  <2>1. \E memo, ser \in BOOLEAN: ctx' = AddSize(Context(memo, ser), EntrySize)
    <3>1. CASE PersistCalc
      <4> DEFINE type == input.mem[0].els[1].val.type
                 memo == serializer = None /\ type = "arr"
                 ser == type = "obj" \/ (serializer # None /\ type = "arr")
      <4>1. ctx' = AddSize(Context(memo, ser), EntrySize)
        BY <3>1 DEF PersistCalc, Calculate
      <4>2. memo \in BOOLEAN /\ ser \in BOOLEAN
        OBVIOUS
      <4> HIDE DEF memo, ser
      <4> QED
        BY <4>1, <4>2
    <3>2. CASE PersistRetry
      BY <3>2 DEF PersistRetry, Calculate
    <3> QED
      BY <1>4, <3>1, <3>2
  <2>2. ctx'.done = Nothing
    BY <2>1, ContextFields, CalcFields
  <2>3. phase' \in {"calc", "recalc"}
    BY <1>4 DEF PersistCalc, PersistRetry
  <2> QED
    BY <1>1, <2>2, <2>3 DEF CopyingInv, DoneInv, CopyInv, SerialInv
<1>5. CASE Calc
  <2>1. /\ phase \in {"calc", "recalc"} /\ ctx'.done = ctx.done
        /\ phase' \in {"calc", "recalc", "again", "failed"}
    BY <1>1, <1>5, CalcDone
  <2> QED
    BY <1>1, <2>1 DEF CopyingInv, DoneInv, CopyInv, SerialInv
<1>6. CASE Minit \/ RegisterExternal \/ Rinit \/ PersistNoMemory \/ PersistEnd \/ Relocate
           \/ FetchStart \/ FetchSerialized \/ Fetch \/ Continue
  <2>1. phase' \in {"idle", "stored", "fetch", "failed"}
    <3>1. CASE Fetch
      BY <1>1, <3>1, FetchQuietSteps
    <3> QED
      BY <1>6, <3>1 DEF Minit, RegisterExternal, Rinit, PersistNoMemory, PersistEnd, Relocate, FetchStart,
         FetchSerialized, Continue
  <2> QED
    BY <1>1, <2>1 DEF CopyingInv, DoneInv, CopyInv, SerialInv
<1>7. CASE UNCHANGED vars
  <2>1. DoneInv' /\ phase' = phase /\ ctx' = ctx
    BY <1>7 DEF CopyingInv, DoneInv, vars
  <2>2. CopyInv'
    <3>1. /\ input' = input /\ phase' = phase /\ ctx' = ctx /\ todo' = todo /\ alloc' = alloc /\ shm' = shm
          /\ CopyInv
      BY <1>7 DEF vars, CopyingInv
    <3>2. Item' = Item
      BY <3>1 DEF Item
    <3>3. \A m, S, size, done, memo: Goal(m, S, size, done, memo) => Goal(m, S, size, done, memo)'
      BY <3>1 DEF Goal
    <3>4. \A m, at, raw, rk: Keyless(m, at, raw, rk) => Keyless(m, at, raw, rk)'
      BY <3>1, <3>2 DEF Keyless
    <3> QED
      BY <3>1, <3>3, <3>4 DEF CopyInv
  <2>3. SerialInv'
    BY <1>7 DEF CopyingInv, SerialInv, Entry, Top, Format, vars
  <2> QED
    BY <1>1, <2>1, <2>2, <2>3 DEF CopyingInv
<1> QED
  BY <1>2, <1>3, <1>4, <1>5, <1>6, <1>7 DEF Next

\* The invariant of both passes: in each state of the copy (apc_persist_copy_zval) the block has, word
\* for word, what the first pass has counted for the structures copied so far, and each zval in it is
\* either still as in the value or has become the offset of its copy.
THEOREM CopyingHolds == Spec => []CopyingInv
<1>1. Init => CopyingInv
  BY CopyingInit
<1>2. CopyingInv /\ [Next]_vars => CopyingInv'
  BY CopyingNext
<1> QED
  BY <1>1, <1>2, PTL DEF Spec

\* When the copy has come to its end, what it left out are empty arrays.
LEMMA AllCopied ==
  ASSUME NEW m, IsValue(m), NEW S, NEW size, NEW done, NEW memo, Goal(m, S, size, done, memo),
         NEW base, NEW s, NEW cur, Half(m, base, s, done, cur, {}, {})
  PROVE  /\ S \subseteq DOMAIN m /\ DOMAIN done \subseteq S
         /\ \A p \in S \ DOMAIN done: p \in DOMAIN m /\ IsEmpty(m[p])
<1> DEFINE D == DOMAIN done
           T == D \cup {p \in S: IsEmpty(m[p])}
           at == At(base, done)
<1>1. Structures(m, S) /\ ReachedBut(m, S, {}) /\ Least(m, S) /\ D \subseteq S
  BY DEF Goal
<1>2. S \subseteq DOMAIN m \ {0} /\ T \subseteq DOMAIN m /\ 0 \in DOMAIN m
  BY <1>1, ValueFacts DEF Structures
<1>3. DOMAIN at = D \cup {0} /\ Copied(m, s, base, at, {}, {})
  <2>1. Basics(m, base, s, done, cur, {}, {})
    BY HalfFacts
  <2> QED
    BY <2>1 DEF Basics, Half, Block
<1>4. ReachedBut(m, T, {})
  <2> SUFFICES ASSUME NEW p \in T \cup {0}, NEW i \in DOMAIN m[p].els
               PROVE  Reaches(m[p].els[i].val, T)
    BY DEF ReachedBut
  <2> DEFINE z == m[p].els[i].val
  <2>1. CASE p \in D \cup {0}
    <3>1. <<p, i>> \in Slots(m, DOMAIN at)
      BY <2>1, <1>2, <1>3, SlotIn
    <3>2. ValCopied(m, base, at, z, Cell(m, s, at, <<p, i>>).val)
      BY <3>1, <1>3 DEF Copied
    <3>3. Reaches(z, S)
      BY <1>1, <2>1 DEF ReachedBut
    <3> HIDE DEF z
    <3>4. Flat(z) \/ (z.type \in Storable /\ z.p \in S)
      BY <3>3 DEF Reaches
    <3>5. ~Flat(z) => IsEmpty(m[z.p]) \/ z.p \in DOMAIN at \ {0}
      BY <3>2 DEF ValCopied
    <3>6. z.p \in DOMAIN at \ {0} => z.p \in D
      BY <1>3
    <3>7. ~Flat(z) => z.p \in T
      BY <3>4, <3>5, <3>6
    <3> HIDE DEF T
    <3> QED
      BY <3>4, <3>7 DEF Reaches, z
  <2>2. CASE p \notin D \cup {0}
    <3>1. IsEmpty(m[p])
      BY <2>2
    <3>2. z.type = "undef"
      BY <3>1 DEF IsEmpty, Elements
    <3> QED
      BY <3>2 DEF Reaches, Flat
  <2> QED
    BY <2>1, <2>2
<1>5. S \subseteq T
  BY <1>1, <1>2, <1>4 DEF Least
<1> QED
  BY <1>1, <1>2, <1>5

\* The two passes agree.
LEMMA CopyEnds ==
  ASSUME NEW m, IsValue(m), NEW S, NEW size, NEW done, NEW memo, Goal(m, S, size, done, memo),
         NEW base, NEW s, NEW cur, NEW raw, NEW rk, Half(m, base, s, done, cur, raw, rk)
  PROVE  /\ cur <= base + size /\ size \in Nat
         /\ raw = {} => cur = base + size
<1> DEFINE D == DOMAIN done
<1>1. /\ S \subseteq DOMAIN m /\ D \subseteq S /\ size = SizeOf(m, S, Keyed(m, S))
      /\ cur = base + SizeOf(m, D, Keyed(m, D) \ rk) /\ rk \subseteq raw /\ base \in Nat /\ D \subseteq DOMAIN m
  <2>1. size = SizeOf(m, S, Keyed(m, S) \ {}) /\ S \subseteq DOMAIN m /\ D \subseteq S
    BY DEF Goal, Counted, Structures
  <2>2. Keyed(m, S) \ {} = Keyed(m, S)
    OBVIOUS
  <2>3. cur = base + SizeOf(m, D, Keyed(m, D) \ rk)
    BY DEF Half, Counted
  <2>4. rk \subseteq raw /\ base \in Nat
    BY HalfFacts DEF Basics
  <2> QED
    BY <2>1, <2>2, <2>3, <2>4
<1> HIDE DEF D
<1>2. IsFiniteSet(Keyed(m, S)) /\ IsFiniteSet(Keyed(m, D))
  BY <1>1, SlotsFinite
<1>3. IsFiniteSet(Keyed(m, D) \ rk)
  BY <1>2, FS_Difference
<1>4. SizeOf(m, S, Keyed(m, S)) \in Nat /\ SizeOf(m, D, Keyed(m, D) \ rk) \in Nat
  BY <1>1, <1>2, <1>3, SizeIsNat
<1>5. Keyed(m, D) \subseteq Keyed(m, S)
  <2>1. Slots(m, D \cup {0}) \subseteq Slots(m, S \cup {0})
    BY <1>1 DEF Slots
  <2> QED
    BY <2>1 DEF Keyed
<1>6. SizeOf(m, D, Keyed(m, D) \ rk) <= SizeOf(m, S, Keyed(m, S))
  <2> DEFINE L == Keyed(m, D) \ rk
             K == Keyed(m, S)
  <2>1. L \in SUBSET K /\ IsFiniteSet(K) /\ D \in SUBSET S
    BY <1>1, <1>2, <1>5
  <2> HIDE DEF L, K
  <2>2. SizeOf(m, D, L) <= SizeOf(m, S, K)
    BY <2>1, <1>1, SizeGrows
  <2> QED
    BY <2>2 DEF L, K
<1>7. ASSUME raw = {}
      PROVE  SizeOf(m, D, Keyed(m, D) \ rk) = SizeOf(m, S, Keyed(m, S))
  <2>1. rk = {} /\ Half(m, base, s, done, cur, {}, {})
    <3>1. rk = {}
      BY <1>1, <1>7
    <3> QED
      BY <3>1, <1>7
  <2>2. \A p \in S \ D: p \in DOMAIN m /\ IsEmpty(m[p])
    BY <2>1, AllCopied DEF D
  <2>3. \A p \in S \ D: Weights(m)[p] = 0
    BY <2>2, <1>1, WeightFacts
  <2>4. Keyed(m, D) \ rk = Keyed(m, D) /\ Keyed(m, S) = Keyed(m, D)
    <3>1. ASSUME NEW x \in Keyed(m, S)
          PROVE  x \in Keyed(m, D)
      <4>1. x \in Slots(m, S \cup {0}) /\ IsKeyed(m[x[1]].els[x[2]])
        BY DEF Keyed
      <4>2. S \cup {0} \subseteq DOMAIN m /\ D \cup {0} \subseteq DOMAIN m
        BY <1>1, ValueFacts
      <4>3. x = <<x[1], x[2]>> /\ x[1] \in S \cup {0} /\ x[2] \in DOMAIN m[x[1]].els
        BY <4>1, <4>2, SlotIn
      <4>4. x[1] \in D \cup {0}
        <5> SUFFICES ASSUME x[1] \in S \ D
                     PROVE  FALSE
          BY <4>3
        <5>1. IsEmpty(m[x[1]])
          BY <2>2
        <5>2. m[x[1]].els[x[2]].val.type = "undef"
          BY <4>3, <5>1 DEF IsEmpty, Elements
        <5> QED
          BY <4>1, <5>2 DEF IsKeyed
      <4>5. x \in Slots(m, D \cup {0})
        BY <4>2, <4>3, <4>4, SlotIn
      <4> QED
        BY <4>1, <4>5 DEF Keyed
    <3> QED
      BY <2>1, <3>1, <1>5
  <2> DEFINE K == Keyed(m, S)
  <2>5. K \in SUBSET K /\ IsFiniteSet(K) /\ D \in SUBSET S
    BY <1>1, <1>2
  <2> HIDE DEF K
  <2>6. SizeOf(m, D, K) = SizeOf(m, S, K)
    BY <2>3, <2>5, <1>1, SizeGrows
  <2> QED
    BY <2>4, <2>6 DEF K
<1> QED
  BY <1>1, <1>4, <1>6, <1>7

\* A list of nothing.
LEMMA NothingListed ==
  ASSUME NEW m, NEW at, NEW raw, Lists(m, at, << >>, raw)
  PROVE  raw = {}
<1>1. {<<Body(m, at, x[1]), x[2]>>: x \in raw} = {}
  BY NoMembers DEF Lists
<1> QED
  BY <1>1

\* What it says at the end of the block.
LEMMA CopyingFits ==
  ASSUME CopyingInv
  PROVE  CopyFits
<1> SUFFICES ASSUME phase \in {"copy", "value"}
             PROVE  /\ ctx.cur <= alloc + ctx.size
                    /\ phase = "copy" /\ todo = << >> => ctx.cur = alloc + ctx.size
  BY DEF CopyFits
<1>1. IsValue(input.mem) /\ alloc \in Nat
  BY InputIsValue, BaseAssumption DEF CopyingInv, StartInv, SetupInv, InBlock
<1>2. CASE ctx.ser
  <2>1. StrSize(SerLen) \in Nat
    BY SizeNumbers
  <2> QED
    <3>1. /\ ctx.size = EntrySize + StrSize(SerLen)
          /\ (todo = <<<<alloc, 1>>>> /\ ctx.cur = alloc + EntrySize) \/ (todo = << >> /\ ctx.cur = alloc + ctx.size)
      BY <1>2 DEF CopyingInv, SerialInv
    <3>2. <<<<alloc, 1>>>> # << >>
      OBVIOUS
    <3>3. ASSUME todo = << >>
          PROVE  ctx.cur = alloc + ctx.size
      BY <3>1, <3>2, <3>3
    <3>4. ctx.cur <= alloc + ctx.size
      <4> DEFINE w == StrSize(SerLen)
                 size == ctx.size
                 cur == ctx.cur
      <4>1. w \in Nat /\ size = EntrySize + w /\ (cur = alloc + EntrySize \/ cur = alloc + size)
        BY <2>1, <3>1
      <4> HIDE DEF w, size, cur
      <4>2. cur <= alloc + size
        BY <4>1, <1>1, SizeAssumption
      <4> QED
        BY <4>2 DEF size, cur
    <3> QED
      BY <3>3, <3>4
<1>3. CASE ~ctx.ser
  <2> DEFINE m == input.mem
             at == At(alloc, ctx.done)
  <2>1. Goal(m, ctx.counted, ctx.size, ctx.done, ctx.memo)
    BY <1>3 DEF CopyingInv, CopyInv
  <2>2. PICK raw, rk: /\ Half(m, alloc, shm, ctx.done, ctx.cur, raw, rk)
                      /\ Lists(m, at, todo, raw)
    BY <1>3 DEF CopyingInv, CopyInv
  <2> HIDE DEF m, at
  <2>3. IsValue(m)
    BY <1>1 DEF m
  <2>4. ctx.cur <= alloc + ctx.size /\ (raw = {} => ctx.cur = alloc + ctx.size)
    BY <2>1, <2>2, <2>3, CopyEnds
  <2>5. todo = << >> => raw = {}
    BY <2>2, NothingListed
  <2> QED
    BY <2>4, <2>5
<1> QED
  BY <1>2, <1>3

\* apc_persist.c:282: whatever the value, apc_persist_alloc never runs past the size that
\* apc_persist_calc has added up, and at the end of the copy nothing of the block is left.
THEOREM CopyFitsHolds == Spec => []CopyFits
BY CopyingHolds, CopyingFits, PTL
=============================================================================

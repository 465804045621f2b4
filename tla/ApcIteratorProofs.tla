------------------------- MODULE ApcIteratorProofs -------------------------
(***************************************************************************)
(* Iterators, for any processes, chunks and loops, and whatever user code  *)
(* and the other processes do: the chains stay what they are, pins are     *)
(* given back, and a loop shows what it should.                            *)
(***************************************************************************)
EXTENDS ApcIterator, ApcChainsProofs, SequenceTheorems

-----------------------------------------------------------------------------
(* Sequences *)

\* No element is twice in s.
Once(s) == \A i, j \in 1..Len(s): s[i] = s[j] => i = j

\* What Append does.
LEMMA AppendHolds ==
  ASSUME NEW E, NEW s \in Seq(E), NEW e \in E
  PROVE  /\ Append(s, e) \in Seq(E) /\ Len(Append(s, e)) = Len(s) + 1
         /\ Append(s, e)[Len(s) + 1] = e /\ \A i \in 1..Len(s): Append(s, e)[i] = s[i]
         /\ ToSet(Append(s, e)) = ToSet(s) \cup {e}
         /\ Once(s) /\ e \notin ToSet(s) => Once(Append(s, e))
<1> DEFINE a == Append(s, e)
<1>1. /\ a \in Seq(E) /\ Len(a) = Len(s) + 1 /\ Len(s) \in Nat
      /\ a[Len(s) + 1] = e /\ \A i \in 1..Len(s): a[i] = s[i]
  OBVIOUS
<1>2. DOMAIN s = 1..Len(s) /\ DOMAIN a = 1..(Len(s) + 1)
  BY <1>1
<1> HIDE DEF a
<1>3. \A i \in 1..(Len(s) + 1): i \in 1..Len(s) \/ i = Len(s) + 1
  BY <1>1
<1>4. \A i \in 1..Len(s): i \in 1..(Len(s) + 1)
  BY <1>1
<1>5. ToSet(a) \subseteq ToSet(s) \cup {e}
  BY <1>1, <1>2, <1>3 DEF ToSet
<1>6. ToSet(s) \cup {e} \subseteq ToSet(a)
  <2>1. Len(s) + 1 \in 1..(Len(s) + 1)
    BY <1>1
  <2> QED
    BY <2>1, <1>1, <1>2, <1>4 DEF ToSet
<1>7. ASSUME Once(s), e \notin ToSet(s) PROVE Once(a)
  BY <1>1, <1>2, <1>3, <1>7 DEF Once, ToSet
<1> QED
  BY <1>1, <1>5, <1>6, <1>7 DEF a

\* What concatenation does.
LEMMA ConcatHolds ==
  ASSUME NEW E, NEW s \in Seq(E), NEW t \in Seq(E)
  PROVE  /\ s \o t \in Seq(E) /\ ToSet(s \o t) = ToSet(s) \cup ToSet(t)
         /\ Once(s) /\ Once(t) /\ ToSet(s) \cap ToSet(t) = {} => Once(s \o t)
<1> DEFINE c == s \o t
<1>1. /\ c \in Seq(E) /\ Len(c) = Len(s) + Len(t) /\ Len(s) \in Nat /\ Len(t) \in Nat
      /\ \A i \in 1..Len(c): c[i] = IF i <= Len(s) THEN s[i] ELSE t[i - Len(s)]
  OBVIOUS
<1>2. DOMAIN s = 1..Len(s) /\ DOMAIN t = 1..Len(t) /\ DOMAIN c = 1..Len(c)
  BY <1>1
<1> HIDE DEF c
<1>3. ASSUME NEW i \in 1..Len(c)
      PROVE  (i \in 1..Len(s) /\ c[i] = s[i]) \/ (i - Len(s) \in 1..Len(t) /\ c[i] = t[i - Len(s)])
  BY <1>1
<1>4. ToSet(c) \subseteq ToSet(s) \cup ToSet(t)
  BY <1>2, <1>3 DEF ToSet
<1>5. \A i \in 1..Len(s): i \in 1..Len(c) /\ c[i] = s[i]
  BY <1>1
<1>6. \A i \in 1..Len(t): i + Len(s) \in 1..Len(c) /\ c[i + Len(s)] = t[i]
  BY <1>1
<1>7. ToSet(s) \cup ToSet(t) \subseteq ToSet(c)
  BY <1>2, <1>5, <1>6 DEF ToSet
<1>8. ASSUME Once(s), Once(t), ToSet(s) \cap ToSet(t) = {} PROVE Once(c)
  <2> SUFFICES ASSUME NEW i \in 1..Len(c), NEW j \in 1..Len(c), c[i] = c[j] PROVE i = j
    BY DEF Once
  <2>1. CASE i \in 1..Len(s) /\ j \in 1..Len(s) /\ c[i] = s[i] /\ c[j] = s[j]
    BY <2>1, <1>8 DEF Once
  <2>2. CASE /\ i - Len(s) \in 1..Len(t) /\ j - Len(s) \in 1..Len(t)
             /\ c[i] = t[i - Len(s)] /\ c[j] = t[j - Len(s)]
    <3>1. i - Len(s) = j - Len(s)
      BY <2>2, <1>8 DEF Once
    <3> QED
      BY <3>1, <1>1
  <2>3. c[i] \in ToSet(s) => c[i] \notin ToSet(t)
    BY <1>8
  <2> QED
    BY <2>1, <2>2, <2>3, <1>2, <1>3 DEF ToSet
<1> QED
  BY <1>1, <1>4, <1>7, <1>8 DEF c

\* among collects the elements of s that are in S, up to each place.
IsAmong(s, S, among) ==
  among = [i \in 0..Len(s) |->
            IF i = 0 THEN << >>
            ELSE IF s[i] \in S THEN Append(among[i - 1], s[i]) ELSE among[i - 1]]

\* The definition of Among.
LEMMA AmongIs ==
  ASSUME NEW s, NEW S
  PROVE  Among(s, S) = (CHOOSE f: IsAmong(s, S, f))[Len(s)]
BY DEF Among, IsAmong

\* Among collects the elements in their order.
Collects(E, s, S, f) ==
  /\ f \in [0..Len(s) -> Seq(E)] /\ Among(s, S) = f[Len(s)] /\ f[0] = << >>
  /\ \A i \in 1..Len(s): f[i] = IF s[i] \in S THEN Append(f[i - 1], s[i]) ELSE f[i - 1]

LEMMA AmongSteps ==
  ASSUME NEW E, NEW s \in Seq(E), NEW S
  PROVE  \E f: Collects(E, s, S, f)
<1> DEFINE n == Len(s)
           G == [x \in (1..n) \X Seq(E) |-> IF s[x[1]] \in S THEN Append(x[2], s[x[1]]) ELSE x[2]]
<1>1. n \in Nat /\ << >> \in Seq(E) /\ \A i \in 1..n: s[i] \in E
  OBVIOUS
<1>2. G \in [(1..n) \X Seq(E) -> Seq(E)]
  <2> SUFFICES ASSUME NEW i \in 1..n, NEW t \in Seq(E)
               PROVE  (IF s[i] \in S THEN Append(t, s[i]) ELSE t) \in Seq(E)
    OBVIOUS
  <2> QED
    BY <1>1, AppendHolds
<1>3. \A i \in 1..n, t \in Seq(E): G[<<i, t>>] = IF s[i] \in S THEN Append(t, s[i]) ELSE t
  OBVIOUS
<1> HIDE DEF G, n
<1>4. PICK f \in [0..n -> Seq(E)]: f[0] = << >> /\ \A i \in 1..n: f[i] = G[<<i, f[i - 1]>>]
  <2> DEFINE X == Seq(E)
         none == << >>
  <2>1. n \in Nat /\ none \in X /\ G \in Rules(X, n)
    BY <1>1, <1>2 DEF Rules
  <2> HIDE DEF X, none
  <2>2. Iteration(X, none, n, G)
    BY <2>1, IterationExists
  <2> QED
    BY <2>2 DEF X, none, Iteration
<1>5. ASSUME NEW i \in 1..n
      PROVE  f[i] = IF s[i] \in S THEN Append(f[i - 1], s[i]) ELSE f[i - 1]
  <2>1. i - 1 \in 0..n
    BY <1>1
  <2> QED
    BY <2>1, <1>3, <1>4
<1>6. f = [i \in 0..n |-> IF i = 0 THEN << >>
                          ELSE IF s[i] \in S THEN Append(f[i - 1], s[i]) ELSE f[i - 1]]
  <2>1. \A i \in 0..n: i # 0 => i \in 1..n
    BY <1>1
  <2> QED
    BY <2>1, <1>4, <1>5
<1>7. IsAmong(s, S, f)
  BY <1>6 DEF IsAmong, n
<1> DEFINE g == CHOOSE h: IsAmong(s, S, h)
<1>8. IsAmong(s, S, g)
  BY <1>7
<1> HIDE DEF g
<1>9. g = [i \in 0..n |-> IF i = 0 THEN << >>
                          ELSE IF s[i] \in S THEN Append(g[i - 1], s[i]) ELSE g[i - 1]]
  BY <1>8 DEF IsAmong, n
<1>10. \A i \in 0..n: g[i] = f[i]
  <2> DEFINE T == {i \in Nat: i <= n => g[i] = f[i]}
  <2>1. 0 \in T
    BY <1>1, <1>4, <1>9
  <2>2. ASSUME NEW i \in Nat, i \in T PROVE i + 1 \in T
    <3>1. SUFFICES ASSUME i + 1 <= n PROVE g[i + 1] = f[i + 1]
      OBVIOUS
    <3>2. i + 1 \in 1..n /\ (i + 1) - 1 = i /\ g[i] = f[i] /\ i + 1 # 0 /\ i + 1 \in 0..n
      BY <1>1, <2>2, <3>1
    <3>3. g[i + 1] = IF s[i + 1] \in S THEN Append(g[(i + 1) - 1], s[i + 1]) ELSE g[(i + 1) - 1]
      BY <1>9, <3>2
    <3> QED
      BY <1>5, <3>2, <3>3
  <2> HIDE DEF T
  <2>3. Nat \subseteq T
    BY <2>1, <2>2, FromZero
  <2> QED
    BY <2>3, <1>1 DEF T
<1>11. Among(s, S) = f[n]
  <2>1. Among(s, S) = g[n]
    BY AmongIs DEF g, n
  <2> QED
    BY <2>1, <1>1, <1>10
<1> QED
  BY <1>4, <1>5, <1>11 DEF n, Collects

\* What Among finds: the elements that are in S, none twice if none was, and those of the
\* first places in the first places.
LEMMA AmongHolds ==
  ASSUME NEW E, NEW s \in Seq(E), NEW S
  PROVE  /\ Among(s, S) \in Seq(E) /\ ToSet(Among(s, S)) = ToSet(s) \cap S
         /\ Once(s) => Once(Among(s, S))
         /\ \A m \in 1..Len(s), j \in 1..Len(s):
              j <= m /\ s[j] \in S =>
                \E i \in 1..Len(Among(s, S)): i <= m /\ Among(s, S)[i] = s[j]
<1>0. PICK f: Collects(E, s, S, f)
  BY AmongSteps
<1>1. /\ f \in [0..Len(s) -> Seq(E)] /\ Among(s, S) = f[Len(s)] /\ f[0] = << >>
      /\ \A i \in 1..Len(s): f[i] = IF s[i] \in S THEN Append(f[i - 1], s[i]) ELSE f[i - 1]
  BY <1>0 DEF Collects
<1> DEFINE n == Len(s)
<1>2. n \in Nat /\ DOMAIN s = 1..n /\ \A i \in 1..n: s[i] \in E
  OBVIOUS
<1>3. \A i \in 0..n: f[i] \in Seq(E) /\ Len(f[i]) \in Nat /\ DOMAIN f[i] = 1..Len(f[i])
  BY <1>1
<1>4. Len(f[0]) = 0 /\ ToSet(f[0]) = {} /\ Once(f[0])
  BY <1>1 DEF ToSet, Once
<1> HIDE DEF n
\* One step.
<1>5. ASSUME NEW i \in 1..n
      PROVE  /\ i - 1 \in 0..n /\ i \in 0..n
             /\ s[i] \notin S => f[i] = f[i - 1]
             /\ s[i] \in S => /\ Len(f[i]) = Len(f[i - 1]) + 1 /\ f[i][Len(f[i])] = s[i]
                              /\ \A l \in 1..Len(f[i - 1]): f[i][l] = f[i - 1][l]
                              /\ ToSet(f[i]) = ToSet(f[i - 1]) \cup {s[i]}
                              /\ Once(f[i - 1]) /\ s[i] \notin ToSet(f[i - 1]) => Once(f[i])
  <2>1. i - 1 \in 0..n /\ i \in 0..n
    BY <1>2
  <2>2. f[i] = IF s[i] \in S THEN Append(f[i - 1], s[i]) ELSE f[i - 1]
    BY <1>1 DEF n
  <2>3. CASE s[i] \in S
    <3>1. f[i - 1] \in Seq(E) /\ s[i] \in E /\ f[i] = Append(f[i - 1], s[i])
      BY <2>1, <2>2, <2>3, <1>2, <1>3
    <3> QED
      BY <2>1, <2>3, <3>1, AppendHolds
  <2> QED
    BY <2>1, <2>2, <2>3
\* What has been collected up to a place.
<1>6. ASSUME NEW i \in 0..n
      PROVE  /\ Len(f[i]) <= i /\ ToSet(f[i]) = {s[j]: j \in 1..i} \cap S
             /\ Once(s) => Once(f[i])
  <2> DEFINE Fine(k) == /\ Len(f[k]) <= k /\ ToSet(f[k]) = {s[j]: j \in 1..k} \cap S
                        /\ Once(s) => Once(f[k])
             T == {k \in Nat: k <= n => Fine(k)}
  <2>1. 0 \in T
    BY <1>4
  <2>2. ASSUME NEW k \in Nat, k \in T PROVE k + 1 \in T
    <3>1. SUFFICES ASSUME k + 1 <= n PROVE Fine(k + 1)
      OBVIOUS
    <3>0. {s[j]: j \in 1..(k + 1)} = {s[j]: j \in 1..k} \cup {s[k + 1]}
      <4>1. \A j \in 1..(k + 1): j \in 1..k \/ j = k + 1
        OBVIOUS
      <4>2. k + 1 \in 1..(k + 1) /\ \A j \in 1..k: j \in 1..(k + 1)
        OBVIOUS
      <4> QED
        BY <4>1, <4>2
    <3>2. k + 1 \in 1..n /\ (k + 1) - 1 = k /\ k \in 0..n /\ Fine(k) /\ Len(f[k]) \in Nat
      BY <2>2, <3>1, <1>2, <1>3
    <3>3. Once(s) => s[k + 1] \notin {s[j]: j \in 1..k}
      BY <3>2, <1>2 DEF Once, n
    <3>4. CASE s[k + 1] \in S
      <4>1. /\ Len(f[k + 1]) = Len(f[k]) + 1 /\ ToSet(f[k + 1]) = ToSet(f[k]) \cup {s[k + 1]}
            /\ Once(f[k]) /\ s[k + 1] \notin ToSet(f[k]) => Once(f[k + 1])
        BY <3>2, <3>4, <1>5
      <4>2. ToSet(f[k + 1]) = {s[j]: j \in 1..(k + 1)} \cap S
        BY <3>0, <3>2, <3>4, <4>1
      <4>3. Once(s) => Once(f[k + 1])
        BY <3>2, <3>3, <4>1
      <4> QED
        BY <3>2, <4>1, <4>2, <4>3
    <3>5. CASE s[k + 1] \notin S
      <4>1. f[k + 1] = f[k]
        BY <3>2, <3>5, <1>5
      <4>2. ToSet(f[k + 1]) = {s[j]: j \in 1..(k + 1)} \cap S
        BY <3>0, <3>2, <3>5, <4>1
      <4> QED
        BY <3>2, <4>1, <4>2
    <3> QED
      BY <3>4, <3>5
  <2> HIDE DEF T
  <2>3. Nat \subseteq T
    BY <2>1, <2>2, FromZero
  <2>4. i \in Nat /\ i <= n
    BY <1>2
  <2> QED
    BY <2>3, <2>4 DEF T
\* What has been collected stays.
<1>7. ASSUME NEW m \in 0..n, NEW l \in 1..Len(f[m])
      PROVE  l \in 1..Len(f[n]) /\ f[n][l] = f[m][l]
  <2> DEFINE Fine(k) == l \in 1..Len(f[k]) /\ f[k][l] = f[m][l]
             T == {k \in Nat: m + k <= n => Fine(m + k)}
  <2>1. 0 \in T
    BY <1>2
  <2>2. ASSUME NEW k \in Nat, k \in T PROVE k + 1 \in T
    <3>1. SUFFICES ASSUME m + (k + 1) <= n PROVE Fine(m + (k + 1))
      OBVIOUS
    <3>2. /\ m + (k + 1) \in 1..n /\ (m + (k + 1)) - 1 = m + k /\ m + k \in 0..n
          /\ Fine(m + k) /\ Len(f[m + k]) \in Nat
      BY <2>2, <3>1, <1>2, <1>3
    <3>3. CASE s[m + (k + 1)] \in S
      BY <3>2, <3>3, <1>5
    <3>4. CASE s[m + (k + 1)] \notin S
      BY <3>2, <3>4, <1>5
    <3> QED
      BY <3>3, <3>4
  <2> HIDE DEF T
  <2>3. Nat \subseteq T
    BY <2>1, <2>2, FromZero
  <2>4. n - m \in Nat /\ m + (n - m) = n /\ n - m \in T
    BY <1>2, <2>3
  <2>5. Fine(n)
    BY <2>4, <1>2 DEF T
  <2> QED
    BY <2>5
<1>8. n \in 0..n /\ Among(s, S) = f[n] /\ ToSet(s) = {s[j]: j \in 1..n}
  BY <1>1, <1>2 DEF n, ToSet
<1>9. ASSUME NEW m \in 1..n, NEW j \in 1..n, j <= m, s[j] \in S
      PROVE  \E i \in 1..Len(f[n]): i <= m /\ f[n][i] = s[j]
  <2>1. m \in 0..n /\ j \in 1..m
    BY <1>2, <1>9
  <2>2. s[j] \in ToSet(f[m]) /\ Len(f[m]) <= m /\ Len(f[m]) \in Nat
    BY <2>1, <1>3, <1>6, <1>9
  <2>3. PICK l \in 1..Len(f[m]): f[m][l] = s[j]
    BY <2>1, <2>2, <1>3 DEF ToSet
  <2>4. l \in 1..Len(f[n]) /\ f[n][l] = f[m][l] /\ l <= m
    BY <2>1, <2>2, <1>2, <1>7
  <2> QED
    BY <2>3, <2>4
<1>10. f[n] \in Seq(E) /\ ToSet(f[n]) = ToSet(s) \cap S /\ (Once(s) => Once(f[n]))
  BY <1>3, <1>6, <1>8
<1> QED
  BY <1>8, <1>9, <1>10 DEF n

\* The definition of FlattenSeq.
IsFlat(q, flat) == flat = [i \in 1..Len(q) |-> IF i = 1 THEN q[i] ELSE flat[i - 1] \o q[i]]

LEMMA FlattenIs ==
  ASSUME NEW q
  PROVE  FlattenSeq(q) = IF Len(q) = 0 THEN q ELSE (CHOOSE f: IsFlat(q, f))[Len(q)]
BY DEF FlattenSeq, IsFlat

\* FlattenSeq puts n sequences together; none is twice in the result if none was before and
\* they have nothing in common.
LEMMA FlattenHolds ==
  ASSUME NEW E, NEW n \in Nat, NEW q \in [1..n -> Seq(E)]
  PROVE  /\ FlattenSeq(q) \in Seq(E) /\ ToSet(FlattenSeq(q)) = UNION {ToSet(q[i]): i \in 1..n}
         /\ (\A i \in 1..n: Once(q[i])) /\ (\A i, j \in 1..n: i # j => ToSet(q[i]) \cap ToSet(q[j]) = {})
              => Once(FlattenSeq(q))
<1> DEFINE G == [x \in (1..n) \X Seq(E) |-> x[2] \o q[x[1]]]
<1>1. << >> \in Seq(E) /\ Len(q) = n
  OBVIOUS
<1>2. G \in [(1..n) \X Seq(E) -> Seq(E)]
  <2> SUFFICES ASSUME NEW i \in 1..n, NEW t \in Seq(E) PROVE t \o q[i] \in Seq(E)
    OBVIOUS
  <2> QED
    BY ConcatHolds
<1>3. \A i \in 1..n, t \in Seq(E): G[<<i, t>>] = t \o q[i]
  OBVIOUS
<1> HIDE DEF G
<1>4. PICK f \in [0..n -> Seq(E)]: f[0] = << >> /\ \A i \in 1..n: f[i] = G[<<i, f[i - 1]>>]
  <2> DEFINE X == Seq(E)
             none == << >>
  <2>1. none \in X /\ G \in Rules(X, n)
    BY <1>1, <1>2 DEF Rules
  <2> HIDE DEF X, none
  <2>2. Iteration(X, none, n, G)
    BY <2>1, IterationExists
  <2> QED
    BY <2>2 DEF X, none, Iteration
<1>5. ASSUME NEW i \in 1..n PROVE f[i] = f[i - 1] \o q[i] /\ f[i - 1] \in Seq(E) /\ f[i] \in Seq(E)
  <2>1. i - 1 \in 0..n /\ i \in 0..n
    OBVIOUS
  <2> QED
    BY <2>1, <1>3, <1>4
<1>6. CASE n = 0
  <2>1. q = << >>
    BY <1>6
  <2>2. FlattenSeq(q) = << >>
    BY <2>1, FlattenIs
  <2>3. ToSet(<< >>) = {} /\ Once(<< >>) /\ UNION {ToSet(q[i]): i \in 1..n} = {}
    BY <1>6 DEF ToSet, Once
  <2> QED
    BY <2>2, <2>3, <1>1
<1>7. CASE n # 0
  <2> DEFINE h == [i \in 1..n |-> f[i]]
             g == CHOOSE x: IsFlat(q, x)
  <2>1. ASSUME NEW i \in 1..n PROVE h[i] = IF i = 1 THEN q[i] ELSE h[i - 1] \o q[i]
    <3>1. CASE i = 1
      <4>0. 1 \in 1..n /\ 1 - 1 = 0
        BY <3>1
      <4>1. f[1] = << >> \o q[1] /\ q[1] \in Seq(E)
        BY <4>0, <1>4, <1>5
      <4>2. << >> \o q[1] = q[1]
        BY <4>1
      <4> QED
        BY <3>1, <4>1, <4>2
    <3>2. CASE i # 1
      <4>1. i - 1 \in 1..n
        BY <3>2
      <4> QED
        BY <3>2, <4>1, <1>5
    <3> QED
      BY <3>1, <3>2
  <2>2. h = [i \in 1..n |-> IF i = 1 THEN q[i] ELSE h[i - 1] \o q[i]]
    <3>1. \A i \in 1..n: h[i] = IF i = 1 THEN q[i] ELSE h[i - 1] \o q[i]
      BY <2>1
    <3>2. h = [i \in 1..n |-> h[i]]
      OBVIOUS
    <3> HIDE DEF h
    <3> QED
      BY <3>1, <3>2
  <2>3. IsFlat(q, h)
    <3> HIDE DEF h
    <3> QED
      BY <2>2, <1>1 DEF IsFlat
  <2>4. IsFlat(q, g)
    BY <2>3
  <2> HIDE DEF g, h
  <2>5. g = [i \in 1..n |-> IF i = 1 THEN q[i] ELSE g[i - 1] \o q[i]]
    BY <2>4, <1>1 DEF IsFlat
  <2>6. \A i \in 1..n: g[i] = h[i]
    <3> DEFINE T == {i \in Nat: i + 1 <= n => g[i + 1] = h[i + 1]}
    <3>1. 0 \in T
      BY <2>1, <2>5
    <3>2. ASSUME NEW i \in Nat, i \in T PROVE i + 1 \in T
      <4>1. SUFFICES ASSUME (i + 1) + 1 <= n PROVE g[(i + 1) + 1] = h[(i + 1) + 1]
        OBVIOUS
      <4> DEFINE k == (i + 1) + 1
      <4>2. k \in 1..n /\ k - 1 = i + 1 /\ k # 1 /\ g[i + 1] = h[i + 1]
        BY <3>2, <4>1
      <4> HIDE DEF k
      <4>4. g[k] = g[k - 1] \o q[k]
        BY <2>5, <4>2
      <4>5. h[k] = h[k - 1] \o q[k]
        BY <2>1, <4>2
      <4>3. g[k] = h[k]
        BY <4>2, <4>4, <4>5
      <4> QED
        BY <4>3 DEF k
    <3> HIDE DEF T
    <3>3. Nat \subseteq T
      BY <3>1, <3>2, FromZero
    <3> SUFFICES ASSUME NEW i \in 1..n PROVE g[i] = h[i]
      OBVIOUS
    <3>4. i - 1 \in T /\ (i - 1) + 1 = i
      BY <3>3
    <3> QED
      BY <3>4 DEF T
  <2>7. FlattenSeq(q) = f[n]
    <3>1. FlattenSeq(q) = g[n]
      BY <1>1, <1>7, FlattenIs DEF g
    <3> QED
      BY <3>1, <2>6, <1>7 DEF h
  <2> DEFINE Fine(k) == ToSet(f[k]) = UNION {ToSet(q[i]): i \in 1..k}
             Apart == /\ \A i \in 1..n: Once(q[i])
                      /\ \A i, j \in 1..n: i # j => ToSet(q[i]) \cap ToSet(q[j]) = {}
             T == {k \in Nat: k <= n => Fine(k) /\ (Apart => Once(f[k]))}
  <2>8. 0 \in T
    BY <1>4 DEF ToSet, Once
  <2>9. ASSUME NEW k \in Nat, k \in T PROVE k + 1 \in T
    <3>1. SUFFICES ASSUME k + 1 <= n PROVE Fine(k + 1) /\ (Apart => Once(f[k + 1]))
      OBVIOUS
    <3>2. /\ k + 1 \in 1..n /\ (k + 1) - 1 = k /\ Fine(k) /\ (Apart => Once(f[k]))
      BY <2>9, <3>1
    <3>3. f[k + 1] = f[k] \o q[k + 1] /\ f[k] \in Seq(E) /\ q[k + 1] \in Seq(E)
      BY <3>2, <1>5
    <3>4. ToSet(f[k + 1]) = ToSet(f[k]) \cup ToSet(q[k + 1])
      BY <3>3, ConcatHolds
    <3>5. UNION {ToSet(q[i]): i \in 1..(k + 1)} = (UNION {ToSet(q[i]): i \in 1..k}) \cup ToSet(q[k + 1])
      <4>1. \A j \in 1..(k + 1): j \in 1..k \/ j = k + 1
        OBVIOUS
      <4>2. k + 1 \in 1..(k + 1) /\ \A j \in 1..k: j \in 1..(k + 1)
        OBVIOUS
      <4> QED
        BY <4>1, <4>2
    <3>6. ASSUME Apart PROVE Once(f[k + 1])
      <4>1. ToSet(f[k]) \cap ToSet(q[k + 1]) = {}
        <5>1. \A i \in 1..k: i \in 1..n /\ i # k + 1
          BY <3>2
        <5>2. \A i \in 1..k: ToSet(q[i]) \cap ToSet(q[k + 1]) = {}
          BY <5>1, <3>2, <3>6
        <5> QED
          BY <5>2, <3>2
      <4>2. Once(f[k]) /\ Once(q[k + 1])
        BY <3>2, <3>6
      <4> QED
        BY <3>3, <4>1, <4>2, ConcatHolds
    <3> QED
      BY <3>2, <3>4, <3>5, <3>6
  <2> HIDE DEF T
  <2>10. n \in T
    BY <2>8, <2>9, FromZero
  <2>11. f[n] \in Seq(E)
    OBVIOUS
  <2> QED
    BY <2>7, <2>10, <2>11 DEF T
<1> QED
  BY <1>6, <1>7

-----------------------------------------------------------------------------
(* The iterator *)

\* The keys an iterator shows are keys, and it holds references while it builds items only.
IteratorInv ==
  /\ DOMAIN it = DOMAIN NoIterator
  /\ it.stack \in Seq(Key) /\ it.sidx \in Nat
  /\ it.pc # "build" => it.entries = << >>
  /\ ItemsPinned

Inv == ChainsInv /\ IteratorInv

\* There is nothing in an iterator that does not exist.
LEMMA NoIteratorFields ==
  /\ NoIterator.stack = << >> /\ NoIterator.entries = << >> /\ NoIterator.sidx = 0
  /\ NoIterator.pc = "none" /\ NoIterator.stack \in Seq(Key)
BY DEF NoIterator

\* Between two fetches the iterator holds nothing.
LEMMA NothingHeld ==
  ASSUME IteratorInv, it.pc # "build"
  PROVE  it.entries = << >> /\ held[Self] = {}
<1>1. it.entries = << >> /\ DOMAIN << >> = {}
  BY DEF IteratorInv
<1> QED
  BY <1>1 DEF IteratorInv, ItemsPinned

\* A method that changes only the iterator.
LEMMA MethodInv ==
  ASSUME Inv, UNCHANGED chainVars, it.pc # "build",
         DOMAIN it' = DOMAIN NoIterator, it'.stack \in Seq(Key), it'.sidx \in Nat,
         it'.entries = << >>
  PROVE  Inv'
<1>1. ChainsInv'
  BY StutterInv DEF Inv
<1>2. held' = held /\ held[Self] = {}
  BY NothingHeld DEF Inv, chainVars
<1>3. DOMAIN it'.entries = {}
  OBVIOUS
<1>4. ItemsPinned'
  BY <1>2, <1>3 DEF ItemsPinned
<1> QED
  BY <1>1, <1>4 DEF Inv, IteratorInv

\* A step of others.
LEMMA CacheStepInv ==
  ASSUME Inv, CacheStep
  PROVE  Inv'
<1>1. ChainsNext /\ it' = it /\ held'[Self] = held[Self]
  <2>1. it' = it /\ held \in [Reader -> SUBSET Addr] /\ Self \in Reader
    BY SelfAssumption DEF CacheStep, Inv, ChainsInv, ProcessTypes
  <2>2. CASE \E p \in Writer: Begin(p) \/ Continue(p)
    <3>1. ChainsNext
      BY <2>2 DEF ChainsNext
    <3>2. held' = held
      BY <2>2 DEF Begin, Continue, BeginStore, BeginDelete, LockDelete, BeginClear, LockStore,
                  GcKeep, GcFree, GcEnd, InsertRefuse, InsertReplace, InsertExpire, InsertSkip,
                  InsertEnd, InsertLink, ReleaseNew, DropNew, DeleteFound, DeleteSkip,
                  DeleteMissing, WipeEntry, WipeSlotEnd
    <3> QED
      BY <2>1, <3>1, <3>2
  <2>3. CASE Defragment \/ Tick
    BY <2>1, <2>3 DEF Defragment, Tick, ChainsNext
  <2>4. ASSUME NEW r \in Reader \ {Self}, FetchPin(r) \/ FetchRelease(r)
        PROVE  ChainsNext /\ held'[Self] = held[Self]
    <3>1. PICK a: (Pin(r, {a}) /\ a \in linked) \/ (Release(r, {a}) /\ a \in held[r])
      BY <2>4 DEF FetchPin, FetchRelease
    <3>2. {a} \in SUBSET Addr
      BY <2>1, <3>1 DEF Inv, ChainsInv, Lists
    <3>3. ChainsNext
      BY <3>1, <3>2 DEF ChainsNext
    <3>4. held'[Self] = held[Self]
      BY <2>1, <3>1 DEF Pin, Release
    <3> QED
      BY <3>3, <3>4
  <2> QED
    BY <2>1, <2>2, <2>3, <2>4 DEF CacheStep
<1>2. ChainsInv'
  BY <1>1, ChainsInvNext DEF Inv
<1>3. ASSUME NEW i \in DOMAIN it.entries
      PROVE  Stays(it.entries[i].addr)
  <2>1. it.entries[i].addr \in held[Self]
    BY DEF Inv, IteratorInv, ItemsPinned
  <2> QED
    BY <1>1, <2>1, HeldStays, SelfAssumption DEF Inv
<1>4. ItemsPinned'
  BY <1>1, <1>3 DEF Inv, IteratorInv, ItemsPinned, Stays
<1> QED
  BY <1>1, <1>2, <1>4 DEF Inv, IteratorInv

\* A fetch pins the entries it has collected on the chains.
LEMMA FetchChunkInv ==
  ASSUME Inv, FetchChunk
  PROVE  Inv'
<1>1. PICK found: found = Chunk.entries
  OBVIOUS
<1>2. PICK es: es = [i \in DOMAIN found |-> [addr |-> found[i], key |-> ent[found[i]].key]]
  OBVIOUS
<1>3. it.pc = "lock" /\ Pin(Self, ToSet(found))
  BY <1>1 DEF FetchChunk, Running
<1>4. it' = [it EXCEPT !.pc = "build", !.slot = Chunk.slot, !.sidx = 0, !.built = 0, !.t = 0,
                       !.entries = es]
  BY <1>1, <1>2 DEF FetchChunk
<1>5. /\ DOMAIN it' = DOMAIN it /\ it'.pc = "build" /\ it'.sidx = 0 /\ it'.entries = es
      /\ it'.stack = it.stack
  BY <1>4 DEF Inv, IteratorInv, NoIterator
<1>6. ChainsInv'
  BY <1>3, PinInv, SelfAssumption DEF Inv
<1>7. held[Self] = {}
  BY <1>3, NothingHeld DEF Inv
<1>8. held'[Self] = ToSet(found)
  BY <1>3, <1>7, SelfAssumption DEF Pin, Inv, ChainsInv, ProcessTypes
<1>9. /\ DOMAIN es = DOMAIN found
      /\ \A i \in DOMAIN found: es[i].addr = found[i] /\ es[i].key = ent[found[i]].key
  BY <1>2
<1>10. ToSet(found) = {es[i].addr: i \in DOMAIN es}
  BY <1>9 DEF ToSet
<1>11. ASSUME NEW i \in DOMAIN es
       PROVE  ent'[es[i].addr] # Free /\ ent'[es[i].addr].key = es[i].key
  <2>1. found[i] \in ToSet(found) /\ es[i].addr = found[i] /\ es[i].key = ent[found[i]].key
    BY <1>9 DEF ToSet
  <2>2. found[i] \in Listed /\ Lists
    BY <2>1, <1>3 DEF Pin, Inv, ChainsInv
  <2>3. found[i] \in Addr /\ ent[found[i]] \in Entry
    BY <2>2, ListedEntry
  <2>4. ent'[found[i]] = [ent[found[i]] EXCEPT !.ref = @ + 1]
    BY <1>3, <2>1, <2>3 DEF Pin
  <2>5. ent'[found[i]] \in Entry /\ ent'[found[i]].key = ent[found[i]].key
    BY <2>3, <2>4 DEF Entry
  <2> QED
    BY <2>1, <2>5, FreeAssumption
<1>12. ItemsPinned'
  BY <1>5, <1>8, <1>10, <1>11 DEF ItemsPinned
<1> QED
  BY <1>5, <1>6, <1>12 DEF Inv, IteratorInv

\* An item is made of an entry that is pinned.
LEMMA BuildItemInv ==
  ASSUME Inv, BuildItem
  PROVE  Inv'
<1>1. PICK e: e = it.entries[it.built + 1].addr
  OBVIOUS
<1>2. e \in held[Self]
  BY <1>1 DEF BuildItem, Inv, IteratorInv, ItemsPinned
<1>3. ent[e].key \in Key
  BY <1>2, HeldEntry, SelfAssumption DEF Inv, Entry
<1>4. /\ DOMAIN it' = DOMAIN it /\ it'.pc = it.pc /\ it'.sidx = it.sidx
      /\ it'.entries = it.entries /\ it'.stack = Append(it.stack, ent[e].key)
  BY <1>1 DEF BuildItem, Inv, IteratorInv, NoIterator
<1>5. it'.stack \in Seq(Key)
  BY <1>3, <1>4 DEF Inv, IteratorInv
<1>6. UNCHANGED chainVars /\ held' = held /\ ent' = ent
  BY DEF BuildItem, chainVars, chains
<1>7. ChainsInv'
  BY <1>6, StutterInv DEF Inv
<1> QED
  BY <1>4, <1>5, <1>6, <1>7 DEF Inv, IteratorInv, ItemsPinned

\* The end of a fetch, whatever the way.
LEMMA AllReleased ==
  ASSUME Inv, Release(Self, held[Self]), DOMAIN it' = DOMAIN NoIterator,
         it'.stack \in Seq(Key), it'.sidx \in Nat, it'.entries = << >>
  PROVE  Inv'
<1>1. ChainsInv'
  BY ReleaseInv, SelfAssumption DEF Inv
<1>2. held'[Self] = {}
  BY SelfAssumption DEF Release, Inv, ChainsInv, ProcessTypes
<1>3. DOMAIN it'.entries = {}
  OBVIOUS
<1>4. ItemsPinned'
  BY <1>2, <1>3 DEF ItemsPinned
<1> QED
  BY <1>1, <1>4 DEF Inv, IteratorInv

\* apcu_delete locks the cache with the key of an item.
LEMMA DeleteItemInv ==
  ASSUME Inv, DeleteItem
  PROVE  Inv'
<1>1. PICK k: k = it.stack[it.sidx + 1]
  OBVIOUS
<1>2. k \in Key
  <2>1. it.sidx + 1 \in 1..Len(it.stack)
    BY DEF DeleteItem, Inv, IteratorInv
  <2> QED
    BY <1>1, <2>1 DEF Inv, IteratorInv
<1>3. it.pc = "delete" /\ Idle(Self) /\ LockDelete(Self, k) /\ it' = [it EXCEPT !.sidx = @ + 1]
  BY <1>1 DEF DeleteItem, Running, SelfIdle
<1>4. ChainsInv'
  BY <1>2, <1>3, BeginDeleteInv, SelfAssumption DEF Inv
<1>5. /\ DOMAIN it' = DOMAIN it /\ it'.sidx = it.sidx + 1 /\ it'.stack = it.stack
      /\ it'.entries = it.entries /\ it'.pc = it.pc
  BY <1>3 DEF Inv, IteratorInv, NoIterator
<1>6. held' = held /\ ent' = ent
  BY <1>3 DEF LockDelete, chains
<1> QED
  BY <1>4, <1>5, <1>6 DEF Inv, IteratorInv, ItemsPinned

\* A fetch starts without entries.
LEMMA FetchFields ==
  ASSUME NEW i, DOMAIN i = DOMAIN NoIterator, i.stack \in Seq(Key), i.sidx \in Nat,
         i.entries = << >>, NEW then, Fetch(i, then)
  PROVE  /\ DOMAIN it' = DOMAIN NoIterator /\ it'.stack \in Seq(Key) /\ it'.sidx \in Nat
         /\ it'.entries = << >>
BY DEF Fetch, NoIterator

\* One step of an iterator.
LEMMA IteratorStepInv ==
  ASSUME Inv, IteratorStep
  PROVE  Inv'
<1>1. /\ DOMAIN it = DOMAIN NoIterator /\ it.stack \in Seq(Key) /\ it.sidx \in Nat
      /\ it.pc # "build" => it.entries = << >>
  BY DEF Inv, IteratorInv
<1>2. CASE Construct
  <2>1. PICK l \in Loops: it' = [NoIterator EXCEPT !.pc = "user", !.list = l[1], !.search = l[2]]
    BY <1>2 DEF Construct
  <2>2. /\ DOMAIN it' = DOMAIN NoIterator /\ it'.stack = << >> /\ it'.sidx = 0
        /\ it'.entries = << >>
    BY <2>1 DEF NoIterator
  <2>3. it.pc # "build" /\ UNCHANGED chainVars
    BY <1>2 DEF Construct, Running
  <2> QED
    BY <2>2, <2>3, MethodInv
<1>3. CASE Rewind
  <2>1. PICK i: i = [it EXCEPT !.slot = 0, !.sidx = 0]
    OBVIOUS
  <2>2. Fetch(i, "user") /\ it.pc # "build" /\ UNCHANGED chainVars
    BY <1>3, <2>1 DEF Rewind, Running
  <2>3. /\ DOMAIN i = DOMAIN NoIterator /\ i.stack \in Seq(Key) /\ i.sidx \in Nat
        /\ i.entries = << >>
    BY <1>1, <2>1, <2>2 DEF NoIterator
  <2> QED
    BY <2>2, <2>3, FetchFields, MethodInv
<1>4. CASE Valid \/ DeleteFetch \/ Delete
  <2>1. (Fetch(it, "user") \/ Fetch(it, "delete")) /\ it.pc # "build" /\ UNCHANGED chainVars
    BY <1>4 DEF Valid, DeleteFetch, Delete, Running
  <2> QED
    BY <1>1, <2>1, FetchFields, MethodInv
<1>5. CASE NextItem
  <2>1. it.pc # "build" /\ UNCHANGED chainVars /\ it' = [it EXCEPT !.sidx = @ + 1]
    BY <1>5 DEF NextItem, Running
  <2>2. /\ DOMAIN it' = DOMAIN it /\ it'.stack = it.stack /\ it'.sidx = it.sidx + 1
        /\ it'.entries = it.entries
    BY <1>1, <2>1 DEF NoIterator
  <2> QED
    BY <1>1, <2>1, <2>2, MethodInv
<1>6. CASE FreeIterator
  BY <1>6, MethodInv, NoIteratorFields DEF FreeIterator, Running
<1>7. CASE Return
  <2>1. Release(Self, held[Self])
    BY <1>7 DEF Return
  <2>2. /\ DOMAIN it' = DOMAIN it /\ it'.stack = it.stack /\ it'.sidx = it.sidx
        /\ it'.entries = << >>
    BY <1>1, <1>7 DEF Return, NoIterator
  <2> QED
    BY <1>1, <2>1, <2>2, AllReleased
<1>8. CASE BuildBailout
  BY <1>8, AllReleased, NoIteratorFields DEF BuildBailout, BailoutReleases
<1> QED
  BY <1>2, <1>3, <1>4, <1>5, <1>6, <1>7, <1>8, FetchChunkInv, BuildItemInv, DeleteItemInv
  DEF IteratorStep

\* A step that changes nothing.
LEMMA InvStutter ==
  ASSUME Inv, UNCHANGED vars
  PROVE  Inv'
<1>1. UNCHANGED chainVars /\ it' = it /\ held' = held /\ ent' = ent
  BY DEF vars, chainVars, chains
<1> QED
  BY <1>1, StutterInv DEF Inv, IteratorInv, ItemsPinned

\* The chains and the iterator are in order, always.
LEMMA InvAlways == Spec => []Inv
<1>1. Init => Inv
  <2> SUFFICES ASSUME Init PROVE Inv
    OBVIOUS
  <2>1. ChainsInv /\ it = NoIterator /\ held[Self] = {}
    BY ChainsInvInit, SelfAssumption DEF Init, ChainsInit
  <2>2. DOMAIN it.entries = {}
    BY <2>1, NoIteratorFields
  <2>3. ItemsPinned
    BY <2>1, <2>2 DEF ItemsPinned
  <2> QED
    BY <2>1, <2>3, NoIteratorFields DEF Inv, IteratorInv
<1>2. Inv /\ [Next]_vars => Inv'
  BY CacheStepInv, IteratorStepInv, InvStutter DEF Next
<1> QED
  BY <1>1, <1>2, PTL DEF Spec

\* The chains stay linked while iterators fetch, delete and build items.
THEOREM IteratorWellLinked == Spec => []WellLinked
<1>1. Inv => WellLinked
  BY ListsWellLinked DEF Inv, ChainsInv
<1> QED
  BY <1>1, InvAlways, PTL

\* An iterator neither leaks a reference nor gives one back twice, on any path out of a
\* fetch (apc_iterator.c:196-252).
THEOREM IteratorPinsExact == Spec => []PinsExact
<1>1. Inv => PinsExact
  BY DEF Inv, ChainsInv
<1> QED
  BY <1>1, InvAlways, PTL

\* The entries whose items user code may read while they are built are there and are
\* those that were found, whatever user code and the other processes do.
THEOREM IteratorItemsPinned == Spec => []ItemsPinned
<1>1. Inv => ItemsPinned
  BY DEF Inv, IteratorInv
<1> QED
  BY <1>1, InvAlways, PTL

\* To the chains, a step of the iterator is a step of its process.
LEMMA IteratorOnChains ==
  ASSUME Inv, IteratorStep
  PROVE  [ChainsStep]_chainVars
<1>1. ASSUME NEW S, Pin(Self, S) \/ Release(Self, S), S \in SUBSET Addr PROVE ChainsStep
  BY <1>1, SelfAssumption DEF ChainsStep, ChainsNext
<1>2. CASE FetchChunk
  <2>1. PICK S: Pin(Self, S)
    BY <1>2 DEF FetchChunk
  <2>2. S \in SUBSET Addr
    BY <2>1 DEF Pin, Listed, Inv, ChainsInv, Lists
  <2> QED
    BY <1>1, <2>1, <2>2
<1>3. CASE Return \/ BuildBailout
  <2>1. Release(Self, held[Self])
    BY <1>3 DEF Return, BuildBailout, BailoutReleases
  <2>2. held[Self] \in SUBSET Addr
    BY SelfAssumption DEF Inv, ChainsInv, ProcessTypes
  <2> QED
    BY <1>1, <2>1, <2>2
<1>4. CASE DeleteItem
  <2>1. PICK k: k = it.stack[it.sidx + 1]
    OBVIOUS
  <2>2. k \in Key
    <3>1. it.sidx + 1 \in 1..Len(it.stack)
      BY <1>4 DEF DeleteItem, Inv, IteratorInv
    <3> QED
      BY <2>1, <3>1 DEF Inv, IteratorInv
  <2>3. Idle(Self) /\ LockDelete(Self, k)
    BY <1>4, <2>1 DEF DeleteItem, Running, SelfIdle
  <2> QED
    BY <2>2, <2>3, SelfAssumption DEF ChainsStep
<1>5. CASE \/ Construct \/ Rewind \/ Valid \/ NextItem \/ FreeIterator
           \/ BuildItem \/ Delete \/ DeleteFetch
  BY <1>5 DEF Construct, Rewind, Valid, NextItem, FreeIterator, BuildItem, Delete, DeleteFetch
<1> QED
  BY <1>2, <1>3, <1>4, <1>5 DEF IteratorStep

\* To the chains, a step of the others is one of theirs.
LEMMA CacheOnChains ==
  ASSUME Inv, CacheStep
  PROVE  ChainsStep
<1>1. CASE \E p \in Writer: Begin(p) \/ Continue(p)
  BY <1>1 DEF ChainsStep, ChainsNext
<1>2. CASE Defragment \/ Tick
  BY <1>2 DEF ChainsStep, ChainsNext
<1>3. ASSUME NEW r \in Reader, FetchPin(r) \/ FetchRelease(r)
      PROVE  ChainsStep
  <2>1. PICK a: (Pin(r, {a}) /\ a \in linked) \/ (Release(r, {a}) /\ a \in held[r])
    BY <1>3 DEF FetchPin, FetchRelease
  <2>2. {a} \in SUBSET Addr
    BY <2>1 DEF Inv, ChainsInv, Lists, ProcessTypes
  <2> QED
    BY <2>1, <2>2 DEF ChainsStep, ChainsNext
<1> QED
  BY <1>1, <1>2, <1>3 DEF CacheStep

\* The chains hold exactly what the cache holds, and mem_size is exact, also with
\* iterators that fetch, delete and bail out (apc_iterator.c:196-252, :607-613).
THEOREM IteratorChainsExact == Spec => []ChainsExact
<1>1. Init => ExactInv
  BY ExactInit DEF Init
<1>2. Inv /\ ExactInv /\ [Next]_vars => ExactInv'
  <2>1. Inv /\ [Next]_vars => [ChainsStep]_chainVars
    BY IteratorOnChains, CacheOnChains DEF Next, vars
  <2> QED
    BY <2>1, ExactNext DEF Inv
<1>3. Inv /\ ExactInv => ChainsExact
  BY ExactHolds DEF Inv
<1> QED
  BY <1>1, <1>2, <1>3, InvAlways, PTL DEF Spec

-----------------------------------------------------------------------------
(* What a fetch finds *)

\* The chain of a head is the sequence of its entries.
LEMMA ChainOnce ==
  ASSUME Lists, Loose, NEW c \in HeadCell
  PROVE  /\ Chain(c) \in Seq(Addr) /\ Once(Chain(c))
         /\ ToSet(Chain(c)) = IF c = Gc THEN removed
                              ELSE {a \in linked: SlotHead(ent[a].key) = c}
<1>0. PICK rk \in Ranks: InOrder(next, prev, Listed, Homes, rk)
  BY DEF Lists
<1> DEFINE T == {d \in HeadCell \cup Listed: Once(Chain(d))}
<1>1. \A d \in HeadCell \cup Listed: d \in Cell /\ rk[d] \in Nat
  BY CellFacts DEF Lists, Listed, Ranks
<1>2. \A d: Members(d) = ToSet(Chain(d))
  BY DEF Members, ToSet
<1>3. ASSUME NEW d \in HeadCell \cup Listed, next[d] = Null \/ next[d] \in T
      PROVE  Once(Chain(d))
  <2>1. CASE next[d] = Null
    <3>1. Chain(d) = << >>
      BY <2>1, <1>1, ChainWalk
    <3> QED
      BY <3>1 DEF Once
  <2>2. CASE next[d] # Null
    <3>1. PICK e: e = next[d]
      OBVIOUS
    <3>2. e \in Addr /\ Chain(d) = <<e>> \o Chain(e) /\ e \in Cell /\ Chain(e) \in Seq(Addr)
      BY <2>2, <3>1, <1>1, ChainWalk, CellFacts
    <3>3. e \in HeadCell \cup Listed /\ Once(Chain(e))
      BY <1>3, <2>2, <3>1
    <3>4. e \notin ToSet(Chain(e))
      BY <3>3, <1>0, <1>1, <1>2, MembersBehind
    <3>5. <<e>> \in Seq(Addr) /\ Once(<<e>>) /\ ToSet(<<e>>) = {e}
      <4>1. <<e>> \in Seq(Addr) /\ Len(<<e>>) = 1 /\ <<e>>[1] = e /\ DOMAIN <<e>> = {1}
        BY <3>2
      <4> QED
        BY <4>1 DEF Once, ToSet
    <3>6. Once(<<e>> \o Chain(e))
      BY <3>2, <3>3, <3>4, <3>5, ConcatHolds
    <3> QED
      BY <3>2, <3>6
  <2> QED
    BY <2>1, <2>2
<1>4. HeadCell \cup Listed \subseteq T
  <2>1. \A d \in HeadCell \cup Listed: next[d] = Null \/ next[d] \in T => d \in T
    BY <1>3
  <2> HIDE DEF T
  <2> QED
    BY <2>1, FromTheEnds
<1>5. Once(Chain(c)) /\ Chain(c) \in Seq(Addr)
  BY <1>1, <1>4, ChainWalk
<1> QED
  BY <1>2, <1>5, ChainHolds

\* The entries that a loop wants at time t, and those that a loop over removed ones wants.
Wanted(t) == {a \in linked: CheckExpiry(a, t) /\ SearchMatch(a)}
WantedDeleted == {a \in removed: SearchMatch(a)}

\* A fetch finds what it wants in a slot, each entry once.
LEMMA SlotFinds ==
  ASSUME Lists, Loose, NEW s \in 0..(NSlots - 1), NEW t
  PROVE  /\ InSlot(s, t) \in Seq(Addr) /\ Once(InSlot(s, t))
         /\ ToSet(InSlot(s, t)) = {a \in Wanted(t): SlotHead(ent[a].key) = s}
<1>1. s \in HeadCell /\ s # Gc
  BY SlotAssumption DEF HeadCell, Gc
<1>2. /\ Chain(s) \in Seq(Addr) /\ Once(Chain(s))
      /\ ToSet(Chain(s)) = {a \in linked: SlotHead(ent[a].key) = s}
  BY <1>1, ChainOnce
<1>3. /\ InSlot(s, t) \in Seq(Addr) /\ Once(InSlot(s, t))
      /\ ToSet(InSlot(s, t)) = ToSet(Chain(s)) \cap Wanted(t)
  <2>1. PICK S: S = {a \in ToSet(Chain(s)): CheckExpiry(a, t) /\ SearchMatch(a)}
    OBVIOUS
  <2>2. InSlot(s, t) = Among(Chain(s), S)
    BY <2>1 DEF InSlot
  <2>3. /\ InSlot(s, t) \in Seq(Addr) /\ Once(InSlot(s, t))
        /\ ToSet(InSlot(s, t)) = ToSet(Chain(s)) \cap S
    BY <1>2, <2>2, AmongHolds
  <2>4. ToSet(Chain(s)) \cap S = ToSet(Chain(s)) \cap Wanted(t)
    BY <1>2, <2>1 DEF Wanted
  <2> QED
    BY <2>3, <2>4
<1>4. Wanted(t) \subseteq linked
  BY DEF Wanted
<1> QED
  BY <1>2, <1>3, <1>4

\* And in the slots up to s.
LEMMA UpToFinds ==
  ASSUME Lists, Loose, it.slot \in Nat, NEW s \in it.slot..NSlots, NEW t
  PROVE  /\ UpTo(s, t) \in Seq(Addr) /\ Once(UpTo(s, t))
         /\ ToSet(UpTo(s, t)) =
              {a \in Wanted(t): it.slot <= SlotHead(ent[a].key) /\ SlotHead(ent[a].key) < s}
<1>1. PICK n: n = s - it.slot
  OBVIOUS
<1>2. PICK q: q = [i \in 1..n |-> InSlot(it.slot + i - 1, t)]
  OBVIOUS
<1>3. n \in Nat /\ NSlots \in Nat /\ s \in Nat
  BY <1>1, SlotAssumption
<1>4. ASSUME NEW i \in 1..n
      PROVE  /\ it.slot + i - 1 \in 0..(NSlots - 1) /\ q[i] = InSlot(it.slot + i - 1, t)
             /\ q[i] \in Seq(Addr) /\ Once(q[i])
             /\ ToSet(q[i]) = {a \in Wanted(t): SlotHead(ent[a].key) = it.slot + i - 1}
  <2>1. it.slot + i - 1 \in 0..(NSlots - 1) /\ q[i] = InSlot(it.slot + i - 1, t)
    BY <1>1, <1>2, <1>3
  <2> QED
    BY <2>1, SlotFinds
<1>5. q \in [1..n -> Seq(Addr)]
  BY <1>2, <1>4
<1>6. ASSUME NEW i \in 1..n, NEW j \in 1..n, i # j PROVE ToSet(q[i]) \cap ToSet(q[j]) = {}
  <2>1. it.slot + i - 1 # it.slot + j - 1
    BY <1>6, <1>3
  <2> QED
    BY <2>1, <1>4
<1>7. UpTo(s, t) = FlattenSeq(q)
  BY <1>1, <1>2 DEF UpTo
<1>8. /\ UpTo(s, t) \in Seq(Addr) /\ Once(UpTo(s, t))
      /\ ToSet(UpTo(s, t)) = UNION {ToSet(q[i]): i \in 1..n}
  <2>1. (\A i \in 1..n: Once(q[i])) /\ (\A i, j \in 1..n: i # j => ToSet(q[i]) \cap ToSet(q[j]) = {})
    BY <1>4, <1>6
  <2>2. n \in Nat /\ q \in [1..n -> Seq(Addr)]
    BY <1>3, <1>5
  <2>3. /\ FlattenSeq(q) \in Seq(Addr) /\ Once(FlattenSeq(q))
        /\ ToSet(FlattenSeq(q)) = UNION {ToSet(q[i]): i \in 1..n}
    BY <2>1, <2>2, FlattenHolds
  <2> QED
    BY <1>7, <2>3
<1>9. \A a \in Wanted(t): SlotHead(ent[a].key) \in 0..(NSlots - 1)
  <2> SUFFICES ASSUME NEW a \in Wanted(t) PROVE SlotHead(ent[a].key) \in 0..(NSlots - 1)
    OBVIOUS
  <2>1. a \in Listed
    BY DEF Wanted, Listed
  <2> QED
    BY <2>1, ListedEntry, SlotAssumption DEF SlotHead
<1>10. ASSUME NEW a \in Wanted(t)
       PROVE  (\E i \in 1..n: SlotHead(ent[a].key) = it.slot + i - 1)
                <=> it.slot <= SlotHead(ent[a].key) /\ SlotHead(ent[a].key) < s
  <2>1. PICK h: h = SlotHead(ent[a].key)
    OBVIOUS
  <2>2. h \in Nat
    BY <1>9, <2>1
  <2>3. it.slot <= h /\ h < s => h - it.slot + 1 \in 1..n /\ h = it.slot + (h - it.slot + 1) - 1
    BY <2>2, <1>1, <1>3
  <2>4. ASSUME NEW i \in 1..n, h = it.slot + i - 1 PROVE it.slot <= h /\ h < s
    BY <2>4, <2>2, <1>1, <1>3
  <2> QED
    BY <2>1, <2>3, <2>4
<1> QED
  BY <1>4, <1>8, <1>10

\* A chunk of the active list is all that is wanted in whole slots; an empty one is the last.
LEMMA ActiveFinds ==
  ASSUME Lists, Loose, it.slot \in 0..NSlots, NEW t
  PROVE  /\ ActiveChunk(t).slot \in it.slot..NSlots
         /\ ActiveChunk(t).entries = UpTo(ActiveChunk(t).slot, t)
         /\ ActiveChunk(t).entries = << >> => ActiveChunk(t).slot = NSlots
<1> DEFINE slots == {s \in it.slot..NSlots: s = NSlots \/ Len(UpTo(s, t)) > ChunkSize}
           end == CHOOSE s \in slots: \A r \in slots: s <= r
<1>1. NSlots \in Nat /\ NSlots \in slots /\ slots \subseteq Nat
  BY SlotAssumption
<1>2. \E s \in slots: \A r \in slots: s <= r
  <2> HIDE DEF slots
  <2> QED
    BY <1>1, LeastNat
<1>3. end \in slots
  BY <1>2
<1>4. ActiveChunk(t).slot = end /\ ActiveChunk(t).entries = UpTo(end, t)
  BY DEF ActiveChunk
<1> HIDE DEF end
<1>5. ASSUME UpTo(end, t) = << >> PROVE end = NSlots
  <2>1. Len(UpTo(end, t)) = 0
    BY <1>5
  <2> QED
    BY <2>1, <1>3, ChunkAssumption
<1> QED
  BY <1>3, <1>4, <1>5

\* A chunk of the removed entries: from the place after the one that is skipped, and none
\* of the places it moves over is left out.
LEMMA DeletedFinds ==
  ASSUME Lists, Loose, it.slot \in Nat
  PROVE  LET c == DeletedChunk
             gc == Chain(Gc)
         IN /\ c.entries \in Seq(Addr) /\ Once(c.entries) /\ c.slot = it.slot + Len(c.entries)
            /\ ToSet(c.entries) \subseteq WantedDeleted \ {next[Gc]}
            /\ \A j \in 1..Len(gc):
                 it.slot + 2 <= j /\ j <= c.slot + 1 /\ gc[j] \in WantedDeleted
                   => gc[j] \in ToSet(c.entries)
            /\ c.entries = << >> =>
                 \A j \in 1..Len(gc): it.slot + 2 <= j => gc[j] \notin WantedDeleted
<1>1. PICK gc: gc = Chain(Gc)
  OBVIOUS
<1>2. Gc \in HeadCell /\ Gc \in Cell
  BY CellFacts, SlotAssumption DEF HeadCell, Gc
<1>3. gc \in Seq(Addr) /\ Once(gc) /\ Len(gc) \in Nat
  BY <1>1, <1>2, ChainOnce
<1>4. PICK rest: rest = SubSeq(gc, it.slot + 2, Len(gc))
  OBVIOUS
<1>5. /\ rest \in Seq(Addr) /\ Len(rest) \in Nat
      /\ \A i \in 1..Len(rest): it.slot + 1 + i \in 1..Len(gc) /\ rest[i] = gc[it.slot + 1 + i]
      /\ \A j \in 1..Len(gc): it.slot + 2 <= j => j - it.slot - 1 \in 1..Len(rest)
  <2>1. CASE it.slot + 2 > Len(gc)
    <3>1. rest = << >>
      BY <1>3, <1>4, <2>1, SubSeqEmpty
    <3> QED
      BY <2>1, <3>1, <1>3
  <2>2. CASE it.slot + 2 <= Len(gc)
    <3>1. /\ rest \in Seq(Addr) /\ Len(rest) = Len(gc) - (it.slot + 2) + 1
          /\ \A i \in 1..(Len(gc) - (it.slot + 2) + 1): rest[i] = gc[(it.slot + 2) + i - 1]
      BY <1>3, <1>4, <2>2, SubSeqProperties
    <3>2. Len(rest) = Len(gc) - it.slot - 1
      BY <3>1, <1>3
    <3>3. ASSUME NEW i \in 1..Len(rest)
          PROVE  it.slot + 1 + i \in 1..Len(gc) /\ rest[i] = gc[it.slot + 1 + i]
      <4>1. i \in 1..(Len(gc) - (it.slot + 2) + 1) /\ (it.slot + 2) + i - 1 = it.slot + 1 + i
        BY <3>2, <1>3
      <4>2. rest[i] = gc[it.slot + 1 + i]
        BY <3>1, <4>1
      <4> QED
        BY <4>1, <4>2, <1>3
    <3>4. \A j \in 1..Len(gc): it.slot + 2 <= j => j - it.slot - 1 \in 1..Len(rest)
      BY <3>2, <1>3
    <3>5. Len(rest) \in Nat
      BY <2>2, <3>2, <1>3
    <3> QED
      BY <3>1, <3>3, <3>4, <3>5
  <2>3. it.slot + 2 > Len(gc) \/ it.slot + 2 <= Len(gc)
    BY <1>3
  <2> QED
    BY <2>1, <2>2, <2>3
<1>6. Once(rest)
  <2> SUFFICES ASSUME NEW i \in 1..Len(rest), NEW j \in 1..Len(rest), rest[i] = rest[j]
               PROVE  i = j
    BY DEF Once
  <2>1. it.slot + 1 + i = it.slot + 1 + j
    BY <1>3, <1>5 DEF Once
  <2> QED
    BY <2>1
<1>7. PICK all: all = Matching(rest)
  OBVIOUS
<1>8. /\ all \in Seq(Addr) /\ Len(all) \in Nat /\ Once(all)
      /\ ToSet(all) = ToSet(rest) \cap WantedDeleted
      /\ \A m \in 1..Len(rest), j \in 1..Len(rest):
           j <= m /\ rest[j] \in WantedDeleted => \E i \in 1..Len(all): i <= m /\ all[i] = rest[j]
  <2>1. /\ all \in Seq(Addr) /\ Once(all) /\ ToSet(all) = ToSet(rest) \cap WantedDeleted
        /\ \A m \in 1..Len(rest), j \in 1..Len(rest):
             j <= m /\ rest[j] \in WantedDeleted => \E i \in 1..Len(all): i <= m /\ all[i] = rest[j]
    <3>1. PICK S: S = {a \in ToSet(rest): SearchMatch(a)}
      OBVIOUS
    <3>2. all = Among(rest, S)
      BY <1>7, <3>1 DEF Matching
    <3>3. /\ all \in Seq(Addr) /\ ToSet(all) = ToSet(rest) \cap S /\ (Once(rest) => Once(all))
          /\ \A m \in 1..Len(rest), j \in 1..Len(rest):
               j <= m /\ rest[j] \in S => \E i \in 1..Len(all): i <= m /\ all[i] = rest[j]
      <4>1. rest \in Seq(Addr)
        BY <1>5
      <4> QED
        BY <4>1, <3>2, AmongHolds
    <3>4. ToSet(rest) = {rest[j]: j \in 1..Len(rest)}
      <4>1. rest \in Seq(Addr)
        BY <1>5
      <4>2. DOMAIN rest = 1..Len(rest)
        BY <4>1
      <4> QED
        BY <4>2 DEF ToSet
    <3>5. \A j \in 1..Len(rest): rest[j] \in ToSet(rest) /\ rest[j] \in removed
      <4>1. ToSet(gc) = removed
        BY <1>1, <1>2, ChainOnce
      <4>2. DOMAIN gc = 1..Len(gc)
        BY <1>3
      <4>3. ToSet(gc) = {gc[j]: j \in 1..Len(gc)}
        BY <4>2 DEF ToSet
      <4> QED
        BY <4>1, <4>3, <3>4, <1>5
    <3>6. ToSet(rest) \cap S = ToSet(rest) \cap WantedDeleted
      BY <3>1, <3>4, <3>5 DEF WantedDeleted
    <3>7. \A j \in 1..Len(rest): rest[j] \in WantedDeleted => rest[j] \in S
      BY <3>1, <3>4 DEF WantedDeleted
    <3> QED
      BY <1>6, <3>3, <3>6, <3>7
  <2>2. Len(all) \in Nat
    BY <2>1
  <2> QED
    BY <2>1, <2>2
<1>9. PICK m: m = IF Len(all) < ChunkSize THEN Len(all) ELSE ChunkSize
  OBVIOUS
<1>10. m \in Nat /\ m <= Len(all) /\ (m = 0 => Len(all) = 0)
  BY <1>8, <1>9, ChunkAssumption
<1>11. PICK found: found = SubSeq(all, 1, m)
  OBVIOUS
<1>12. found \in Seq(Addr) /\ Len(found) = m /\ \A i \in 1..m: found[i] = all[i]
  <2>1. CASE m = 0
    BY <2>1, <1>8, <1>11, SubSeqEmpty
  <2>2. CASE m # 0
    <3>1. 1 \in 1..Len(all) /\ m \in 1..Len(all)
      BY <2>2, <1>8, <1>10
    <3>2. /\ found \in Seq(Addr) /\ Len(found) = m - 1 + 1
          /\ \A i \in 1..(m - 1 + 1): found[i] = all[1 + i - 1]
      BY <3>1, <1>8, <1>10, <1>11, SubSeqProperties
    <3> QED
      BY <3>2, <1>10
  <2> QED
    BY <2>1, <2>2
<1>13. DeletedChunk.entries = found /\ DeletedChunk.slot = it.slot + m
  BY <1>1, <1>4, <1>7, <1>9, <1>11, <1>12 DEF DeletedChunk, FirstOf
<1>14. Once(found)
  BY <1>8, <1>10, <1>12 DEF Once
<1>15. \A i \in 1..m: found[i] \in ToSet(all)
  <2>1. DOMAIN all = 1..Len(all)
    BY <1>8
  <2> QED
    BY <2>1, <1>8, <1>10, <1>12 DEF ToSet
<1>16. DOMAIN found = 1..m /\ DOMAIN rest = 1..Len(rest) /\ ToSet(found) = {found[i]: i \in 1..m}
  <2>1. DOMAIN found = 1..m /\ DOMAIN rest = 1..Len(rest)
    BY <1>5, <1>12
  <2> QED
    BY <2>1 DEF ToSet
<1>17. next[Gc] \notin ToSet(rest)
  <2> SUFFICES ASSUME NEW i \in 1..Len(rest), rest[i] = next[Gc] PROVE FALSE
    BY <1>16 DEF ToSet
  <2>1. rest[i] = gc[it.slot + 1 + i] /\ it.slot + 1 + i \in 1..Len(gc)
    BY <1>5
  <2>2. next[Gc] # Null
    <3>1. gc # << >>
      BY <2>1, <1>3
    <3> QED
      BY <3>1, <1>1, <1>2, ChainWalk
  <2>3. PICK tail \in Seq(Addr): gc = <<next[Gc]>> \o tail
    <3>1. next[Gc] \in Addr /\ next[Gc] \in Cell
      BY <2>2, <1>2, ChainWalk, CellFacts
    <3> QED
      BY <3>1, <2>2, <1>1, <1>2, ChainWalk
  <2>4. gc[1] = next[Gc] /\ 1 \in 1..Len(gc)
    BY <2>3
  <2>5. it.slot + 1 + i = 1
    BY <2>1, <2>4, <1>3 DEF Once
  <2> QED
    BY <2>5, <1>5
<1>18. ToSet(found) \subseteq WantedDeleted \ {next[Gc]}
  BY <1>8, <1>15, <1>16, <1>17
<1>19. ASSUME NEW j \in 1..Len(gc), it.slot + 2 <= j, gc[j] \in WantedDeleted
       PROVE  /\ \E i \in 1..Len(all): i <= j - it.slot - 1 /\ all[i] = gc[j]
  <2>1. PICK k: k = j - it.slot - 1
    OBVIOUS
  <2>2. k \in 1..Len(rest) /\ it.slot + 1 + k = j
    BY <2>1, <1>3, <1>5, <1>19
  <2>3. rest[k] = gc[j] /\ k <= k
    BY <2>2, <1>5
  <2>4. \E i \in 1..Len(all): i <= k /\ all[i] = rest[k]
    BY <2>2, <2>3, <1>8, <1>19
  <2> QED
    BY <2>1, <2>3, <2>4
<1>20. ASSUME NEW j \in 1..Len(gc), it.slot + 2 <= j, j <= (it.slot + m) + 1, gc[j] \in WantedDeleted
       PROVE  gc[j] \in ToSet(found)
  <2>1. PICK i \in 1..Len(all): i <= j - it.slot - 1 /\ all[i] = gc[j]
    BY <1>19, <1>20
  <2>2. i \in 1..m
    BY <2>1, <1>3, <1>10, <1>20
  <2> QED
    BY <2>1, <2>2, <1>12, <1>16
<1>21. ASSUME found = << >>, NEW j \in 1..Len(gc), it.slot + 2 <= j, gc[j] \in WantedDeleted
       PROVE  FALSE
  <2>1. Len(all) = 0
    BY <1>10, <1>12, <1>21
  <2> QED
    BY <2>1, <1>19, <1>21
<1> QED
  BY <1>1, <1>12, <1>13, <1>14, <1>18, <1>20, <1>21

\* The removed entries keep their keys and the pointers between them.
RemovedKeep ==
  /\ \A a \in removed: ent'[a].key = ent[a].key
  /\ \A c \in {Gc} \cup removed: next'[c] = next[c]

\* A removal from a slot leaves the gc list alone, or puts the entry there.
LEMMA RemoveGc ==
  ASSUME ChainsInv, NEW e \in linked, RemoveEntry(e), removed' = removed
  PROVE  RemovedKeep
<1>1. Lists /\ e \in Listed /\ e \in Addr /\ e \notin removed
  BY DEF ChainsInv, Lists, Listed
<1>2. RemoveUnused(e)
  BY <1>1 DEF RemoveEntry, RemoveUsed
<1>3. next' = [next EXCEPT ![prev[e]] = next[e], ![e] = Null] /\ ent' = [ent EXCEPT ![e] = Free]
  BY <1>2 DEF RemoveUnused, Unlink, UnlinkNext, FreeEntry
<1>4. prev[e] \in HeadCell \cup Listed /\ next[prev[e]] = e
  BY <1>1, ListsWellLinked DEF WellLinked
<1>5. e # Null
  BY <1>1, CellFacts
<1>6. Home(e) = Home(prev[e])
  BY <1>1, <1>4, <1>5, NextOnChain
<1>7. Home(e) # Gc
  BY <1>1, HomeOf
<1>8. Gc \in HeadCell /\ Home(Gc) = Gc
  BY SlotAssumption DEF HeadCell, Gc, Home
<1>9. \A a \in removed: a \in Listed /\ Home(a) = Gc
  BY <1>1, HomeOf DEF Listed
<1>10. \A c \in {Gc} \cup removed: c # e /\ c # prev[e] /\ c \in Cell
  BY <1>1, <1>6, <1>7, <1>8, <1>9, CellFacts DEF Lists
<1>11. next \in [Cell -> Pointer] /\ ent \in [Addr -> Entry \cup {Free}] /\ removed \subseteq Addr
  BY <1>1 DEF Lists, PointersType
<1> QED
  BY <1>1, <1>3, <1>10, <1>11 DEF RemovedKeep

\* While the removed entries are the same, so are their keys and the pointers between them.
LEMMA RemovedStay ==
  ASSUME ChainsInv, ChainsStep, removed' = removed
  PROVE  RemovedKeep
<1>1. /\ Lists /\ removed \subseteq Listed /\ removed \subseteq Addr /\ linked \subseteq Listed
      /\ next \in [Cell -> Pointer] /\ ent \in [Addr -> Entry \cup {Free}]
      /\ \A a \in removed: ent[a] # Free /\ ent[a] \in Entry
  BY ListedEntry DEF ChainsInv, Lists, PointersType, Listed
<1>2. ASSUME ent' = ent, next' = next PROVE RemovedKeep
  BY <1>2 DEF RemovedKeep
<1>3. ASSUME NEW p \in Writer, BeginStore(p) PROVE RemovedKeep
  <2>1. PICK b \in Addr: \E e: ent[b] = Free /\ ent' = [ent EXCEPT ![b] = e]
    BY <1>3 DEF BeginStore
  <2>2. next' = next
    BY <1>3 DEF BeginStore, pointers
  <2> QED
    BY <1>1, <2>1, <2>2 DEF RemovedKeep
<1>4. ASSUME NEW p \in Writer, ReleaseNew(p) PROVE RemovedKeep
  <2>1. PICK b: b = wr[p].new
    OBVIOUS
  <2>2. ent' = [ent EXCEPT ![b].ref = @ - 1] /\ next' = next
    BY <1>4, <2>1 DEF ReleaseNew, pointers
  <2>3. ASSUME NEW a \in removed PROVE ent'[a].key = ent[a].key
    <3>1. ent'[a] = ent[a] \/ \E n: ent'[a] = [ent[a] EXCEPT !.ref = n]
      BY <1>1, <2>2
    <3> QED
      BY <1>1, <3>1 DEF Entry
  <2> QED
    BY <2>2, <2>3 DEF RemovedKeep
<1>5. ASSUME NEW p \in Writer, DropNew(p) PROVE RemovedKeep
  <2>1. PICK b: b = wr[p].new
    OBVIOUS
  <2>2. ent' = [ent EXCEPT ![b] = Free] /\ b \notin Listed /\ next' = next
    BY <1>5, <2>1 DEF DropNew, FreeEntry, ChainsInv, Control, Storing, pointers
  <2> QED
    BY <1>1, <2>2 DEF RemovedKeep
<1>6. ASSUME NEW p \in Writer PROVE ~GcFree(p)
  <2>1. SUFFICES ASSUME GcFree(p) PROVE FALSE
    OBVIOUS
  <2>2. next[wr[p].cur] \in removed
    BY <2>1, Walk DEF GcFree, Locked
  <2> QED
    BY <2>1, <2>2 DEF GcFree
<1>7. ASSUME NEW p \in Writer,
             InsertReplace(p) \/ InsertExpire(p) \/ DeleteFound(p) \/ WipeEntry(p)
      PROVE  RemovedKeep
  <2>1. PICK e: e = next[wr[p].cur]
    OBVIOUS
  <2>2. RemoveEntry(e) /\ e # Null /\ wr[p].step \in {"insert", "delete", "wipe"}
    BY <1>7, <2>1 DEF InsertReplace, InsertExpire, DeleteFound, WipeEntry
  <2>3. e \in linked
    BY <2>1, <2>2, Walk DEF Locked
  <2> QED
    BY <2>2, <2>3, RemoveGc
<1>8. ASSUME NEW p \in Writer, InsertLink(p) PROVE RemovedKeep
  <2>1. PICK c, b: c = wr[p].cur /\ b = wr[p].new
    OBVIOUS
  <2>2. next' = [next EXCEPT ![c] = b, ![b] = next[c]] /\ ent' = ent
    BY <1>8, <2>1 DEF InsertLink, Link, LinkNext
  <2>3. wr[p].step \in Locked /\ Control(p) /\ wr[p] \in OpRecord
    BY <1>8, Walk DEF InsertLink, Locked
  <2>4. Home(c) = SlotHead(wr[p].key) /\ wr[p].key \in Key /\ b \in Addr \ Listed
    BY <1>8, <2>1, <2>3 DEF InsertLink, Control, Storing, OnChain, OpRecord
  <2>5. SlotHead(wr[p].key) # Gc
    BY <2>4, CellFacts
  <2>6. Gc \in HeadCell /\ Home(Gc) = Gc
    BY SlotAssumption DEF HeadCell, Gc, Home
  <2>7. \A a \in removed: Home(a) = Gc
    BY <1>1, HomeOf
  <2>8. \A d \in {Gc} \cup removed: d # c /\ d # b /\ d \in Cell
    BY <1>1, <2>4, <2>5, <2>6, <2>7, CellFacts
  <2> QED
    BY <1>1, <2>2, <2>8 DEF RemovedKeep
<1>9. ASSUME NEW p \in Writer,
             \/ LockStore(p) \/ GcKeep(p) \/ GcEnd(p) \/ InsertRefuse(p) \/ InsertSkip(p)
             \/ InsertEnd(p) \/ DeleteSkip(p) \/ DeleteMissing(p) \/ WipeSlotEnd(p)
             \/ BeginDelete(p) \/ BeginClear(p) \/ (\E k \in Key: LockDelete(p, k))
      PROVE  RemovedKeep
  BY <1>2, <1>9 DEF LockStore, GcKeep, GcEnd, InsertRefuse, InsertSkip, InsertEnd, DeleteSkip,
                    DeleteMissing, WipeSlotEnd, BeginDelete, LockDelete, BeginClear, chains, pointers
<1>10. CASE Defragment
  <2>1. PICK old \in Addr, new \in Addr:
          /\ ent[old] # Free /\ Movable(ent[old]) /\ ent[new] = Free
          /\ next' = MoveNext(next, prev, old, new)
          /\ ent' = [ent EXCEPT ![new] = ent[old], ![old] = Free]
          /\ removed' = IF old \in removed THEN (removed \ {old}) \cup {new} ELSE removed
    BY <1>10 DEF Defragment
  <2>2. old # new
    BY <2>1
  <2>3. old \notin removed /\ new \notin removed
    BY <1>1, <2>1, <2>2
  <2>4. old \in Listed
    <3>1. SUFFICES ASSUME old \notin Listed PROVE FALSE
      OBVIOUS
    <3>2. PICK p \in Writer: wr[p].new = old
      BY <2>1, <3>1 DEF ChainsInv, Owned
    <3>3. old # Null
      BY CellFacts
    <3>4. ent[old].ref > 0 /\ ent[old] \in Entry
      BY <3>2, <3>3, NewIsEntry
    <3> QED
      BY <2>1, <3>4 DEF Movable, Entry
  <2>5. old \in linked /\ old # Null
    BY <2>3, <2>4, CellFacts DEF Listed
  <2>6. prev[old] \in HeadCell \cup Listed /\ next[prev[old]] = old
    BY <1>1, <2>4, ListsWellLinked DEF WellLinked
  <2>7. Home(old) = Home(prev[old]) /\ Home(old) # Gc
    BY <1>1, <2>3, <2>4, <2>5, <2>6, NextOnChain, HomeOf
  <2>8. Gc \in HeadCell /\ Home(Gc) = Gc
    BY SlotAssumption DEF HeadCell, Gc, Home
  <2>9. \A a \in removed: Home(a) = Gc
    BY <1>1, HomeOf
  <2>10. \A d \in {Gc} \cup removed: d # old /\ d # new /\ d # prev[old] /\ d \in Cell
    BY <1>1, <2>3, <2>7, <2>8, <2>9, CellFacts
  <2>11. next' = [next EXCEPT ![prev[old]] = new, ![new] = next[old], ![old] = Null]
    BY <2>1 DEF MoveNext
  <2> QED
    BY <1>1, <2>1, <2>10, <2>11 DEF RemovedKeep
<1>11. CASE Tick
  BY <1>2, <1>11 DEF Tick, chains, pointers
<1>12. ASSUME NEW r, NEW S, Pin(r, S) \/ Release(r, S) PROVE RemovedKeep
  <2>1. next' = next
    BY <1>12 DEF Pin, Release, pointers
  <2>2. ASSUME NEW a \in removed PROVE ent'[a].key = ent[a].key
    <3>1. a \in Addr
      BY <1>1
    <3>2. ent'[a] = ent[a] \/ \E n: ent'[a] = [ent[a] EXCEPT !.ref = n]
      BY <1>12, <3>1 DEF Pin, Release
    <3> QED
      BY <1>1, <3>2 DEF Entry
  <2> QED
    BY <2>1, <2>2 DEF RemovedKeep
<1> QED
  <2>1. ASSUME NEW p \in Writer, Continue(p) PROVE RemovedKeep
    BY <2>1, <1>4, <1>5, <1>6, <1>7, <1>8, <1>9 DEF Continue
  <2>2. ASSUME NEW p \in Writer, Begin(p) \/ \E k \in Key: LockDelete(p, k) PROVE RemovedKeep
    BY <2>2, <1>3, <1>9 DEF Begin
  <2>3. CASE ChainsNext
    BY <2>1, <2>2, <2>3, <1>10, <1>11, <1>12 DEF ChainsNext
  <2>4. CASE \E p \in Writer, k \in Key: Idle(p) /\ LockDelete(p, k)
    BY <2>2, <2>4
  <2> QED
    BY <2>3, <2>4 DEF ChainsStep

\* The definition of a chain, in this state and the next.
LEMMA WalkNow ==
  Lists /\ Loose =>
    \A c \in Cell: IF next[c] = Null THEN Chain(c) = << >> ELSE Chain(c) = <<next[c]>> \o Chain(next[c])
BY ChainWalk
LEMMA WalkNext ==
  (Lists /\ Loose =>
    \A c \in Cell: IF next[c] = Null THEN Chain(c) = << >> ELSE Chain(c) = <<next[c]>> \o Chain(next[c]))'
BY WalkNow, PTL

\* And the gc list is the same.
LEMMA GcSame ==
  ASSUME Lists, Loose, Lists', Loose',
         RemovedKeep
  PROVE  Chain(Gc)' = Chain(Gc)
<1>1. PICK ahead: ahead = [c \in Cell |-> Chain(c)']
  OBVIOUS
<1>2. PICK T: T = {c \in HeadCell \cup Listed: c \in {Gc} \cup removed => ahead[c] = Chain(c)}
  OBVIOUS
<1>3. \A c \in HeadCell \cup Listed: c \in Cell
  BY CellFacts DEF Lists, Listed
<1>4. Gc \in HeadCell /\ Home(Gc) = Gc
  BY SlotAssumption DEF HeadCell, Gc, Home
<1>5. \A c \in Cell: IF next'[c] = Null THEN Chain(c)' = << >>
                     ELSE Chain(c)' = <<next'[c]>> \o Chain(next[c])'
  BY WalkNext
<1>6. ASSUME NEW c \in HeadCell \cup Listed, next[c] = Null \/ next[c] \in T PROVE c \in T
  <2>1. SUFFICES ASSUME c \in {Gc} \cup removed PROVE Chain(c)' = Chain(c)
    BY <1>1, <1>2, <1>3
  <2>2. next'[c] = next[c] /\ c \in Cell
    BY <1>3, <2>1 DEF RemovedKeep
  <2>3. CASE next[c] = Null
    BY <2>2, <2>3, <1>5, WalkNow
  <2>4. CASE next[c] # Null
    <3>1. next[c] \in Listed /\ Home(next[c]) = Home(c)
      BY <2>4, NextOnChain
    <3>2. next[c] \in removed
      BY <2>1, <3>1, <1>4, HomeOf DEF Listed
    <3>3. next[c] \in Cell
      BY <1>3, <3>1
    <3>4. Chain(next[c])' = Chain(next[c])
      <4>1. PICK e: e = next[c]
        OBVIOUS
      <4>2. ahead[e] = Chain(e)
        BY <1>2, <1>6, <2>4, <3>2, <4>1
      <4> QED
        BY <1>1, <2>2, <3>3, <4>1, <4>2
    <3> QED
      BY <2>2, <2>4, <3>4, <1>5, WalkNow
  <2> QED
    BY <2>3, <2>4
<1>7. HeadCell \cup Listed \subseteq T
  BY <1>6, FromTheEnds
<1> QED
  BY <1>1, <1>2, <1>3, <1>4, <1>7

\* Readers change counts only: what is live, and what is removed, is the same.
LEMMA CountsKeep ==
  ASSUME ChainsInv, NEW r, NEW S, Pin(r, S) \/ Release(r, S)
  PROVE  /\ LiveKeys' = LiveKeys /\ RemovedKeep
         /\ UNCHANGED <<next, linked, removed, wr, lock, now>>
<1>1. UNCHANGED <<next, linked, removed, wr, lock, now>>
  BY DEF Pin, Release, pointers
<1>2. ASSUME NEW a \in Listed PROVE ent'[a].key = ent[a].key /\ ent'[a].exp = ent[a].exp
  <2>1. a \in Addr /\ ent[a] \in Entry
    BY ListedEntry DEF ChainsInv
  <2>2. ent'[a] = ent[a] \/ \E n: ent'[a] = [ent[a] EXCEPT !.ref = n]
    BY <2>1 DEF Pin, Release
  <2> QED
    BY <2>1, <2>2 DEF Entry
<1>3. \A a \in linked: HardExpired(ent[a], now)' = HardExpired(ent[a], now)
  BY <1>1, <1>2 DEF HardExpired, Listed
<1>4. LiveKeys' = LiveKeys
  BY <1>1, <1>2, <1>3 DEF LiveKeys, Listed
<1> QED
  BY <1>1, <1>2, <1>4 DEF RemovedKeep, Listed

\* While Self deletes a key only its own steps are taken, and at the end the key is gone.
LEMMA DeletingGoes ==
  ASSUME ChainsInv, ExactInv, CacheStep, wr[Self].step = "delete"
  PROVE  \/ wr'[Self].step = "delete" /\ wr'[Self].key = wr[Self].key
         \/ lock' = Nobody /\ wr[Self].key \notin LiveKeys'
<1>1. Self \in Writer /\ lock = Self /\ Self # Nobody
  BY SelfAssumption, ProcessAssumption, Walk DEF Locked
<1>2. Continue(Self)
  BY <1>1 DEF CacheStep
<1>3. DeleteFound(Self) \/ DeleteSkip(Self) \/ DeleteMissing(Self)
  BY <1>2 DEF Continue, LockStore, GcKeep, GcFree, GcEnd, InsertRefuse, InsertReplace, InsertExpire,
              InsertSkip, InsertEnd, InsertLink, ReleaseNew, DropNew, WipeEntry, WipeSlotEnd
<1>4. CASE DeleteFound(Self)
  <2>1. PICK e: e = next[wr[Self].cur]
    OBVIOUS
  <2>2. RemoveEntry(e) /\ e # Null /\ ent[e].key = wr[Self].key /\ lock' = Nobody /\ now' = now
    BY <1>4, <2>1 DEF DeleteFound, Unlock
  <2>3. e \in linked /\ Lists /\ linked \subseteq Addr
    BY <1>1, <2>1, <2>2, Walk DEF Locked, ChainsInv, Lists
  <2>4. linked' = linked \ {e} /\ \A a \in linked': ent'[a] = ent[a]
    BY <2>2, <2>3 DEF RemoveEntry, RemoveUnused, RemoveUsed, FreeEntry, Lists
  <2>5. \A a \in linked': ent'[a].key # wr[Self].key
    BY <2>2, <2>3, <2>4 DEF ExactInv, KeysUnique
  <2> QED
    BY <2>2, <2>5 DEF LiveKeys
<1>5. CASE DeleteMissing(Self)
  <2>1. next[wr[Self].cur] = Null /\ lock' = Nobody /\ linked' = linked /\ ent' = ent
    BY <1>5 DEF DeleteMissing, Unlock, chains
  <2>2. \A a \in linked: ent[a].key # wr[Self].key
    BY <1>1, <2>1, NotThere
  <2> QED
    BY <2>1, <2>2 DEF LiveKeys
<1>6. CASE DeleteSkip(Self)
  BY <1>1, <1>6 DEF DeleteSkip, SetCur, ChainsInv, ProcessTypes, OpRecord
<1> QED
  BY <1>3, <1>4, <1>5, <1>6

\* The clock does not go back.
LEMMA TimeGoesOn ==
  ASSUME ChainsInv, CacheStep
  PROVE  now \in Nat /\ now' \in Nat /\ now <= now'
<1>1. now \in Nat
  BY DEF ChainsInv, ProcessTypes
<1>2. CASE Tick
  BY <1>1, <1>2, TimeAssumption DEF Tick
<1>3. CASE \E p \in Writer: Begin(p) \/ Continue(p)
  <2>1. now' = now
    BY <1>3 DEF Begin, Continue, BeginStore, BeginDelete, LockDelete, BeginClear, LockStore,
                GcKeep, GcFree, GcEnd, InsertRefuse, InsertReplace, InsertExpire, InsertSkip,
                InsertEnd, InsertLink, ReleaseNew, DropNew, DeleteFound, DeleteSkip,
                DeleteMissing, WipeEntry, WipeSlotEnd
  <2> QED
    BY <1>1, <2>1
<1>4. CASE Defragment \/ \E r \in Reader: FetchPin(r) \/ FetchRelease(r)
  <2>1. now' = now
    BY <1>4 DEF Defragment, FetchPin, FetchRelease, Pin, Release
  <2> QED
    BY <1>1, <2>1
<1> QED
  BY <1>2, <1>3, <1>4 DEF CacheStep

-----------------------------------------------------------------------------
(* What a loop has to show *)

Iterator == [pc: {"none", "user", "lock", "build", "delete"}, then: {"user", "delete"},
             list: {"active", "deleted"}, search: SUBSET Key,
             slot: Nat, sidx: Nat, t: Nat, built: Nat,
             entries: Seq([addr: Addr, key: Key]), stack: Seq(Key)]

\* The keys of the entries that are made items, and those of the items not yet visited.
Making == {it.entries[i].key: i \in 1..Len(it.entries)}
Waiting == {it.stack[i]: i \in (it.sidx + 1)..Len(it.stack)}
Pending == IF it.pc = "build" THEN Making ELSE Waiting

\* The stages of a fetch: the clock it has read is not ahead, and items are made one by one.
StagesInv ==
  /\ it \in Iterator /\ pass \in Pass /\ it.t <= now
  /\ it.pc \in {"user", "delete"} => it.sidx <= Len(it.stack)
  /\ it.pc = "build" => it.sidx = 0 /\ it.built <= Len(it.entries)
  /\ it.pc \notin {"lock", "build"} => it.then = "user"

\* A loop over the active list.  Its items are those of the last chunk, each of another key.
ItemsInv ==
  /\ it.pc = "lock" => it.stack = << >>
  /\ it.pc = "build" =>
       /\ Len(it.stack) = it.built
       /\ \A i \in 1..it.built: it.stack[i] = it.entries[i].key
       /\ \A i, j \in 1..Len(it.entries): it.entries[i].key = it.entries[j].key => i = j
  /\ it.pc # "build" => Once(it.stack)

\* What is pending and what has been visited is from the slots that were read.
VisitInv ==
  /\ it.slot <= NSlots
  /\ it.pc = "build" /\ it.entries = << >> => it.slot = NSlots
  /\ pass.over => it.slot = NSlots /\ Pending = {}
  /\ \A k \in Pending \cup pass.shown: SlotOf[k] < it.slot
  /\ Pending \cap pass.shown = {} /\ ~pass.twice

\* apcu_delete goes on until nothing is found.
DeletingInv ==
  /\ it.pc = "delete" \/ it.then = "delete" => pass.kind = "delete"
  /\ pass.kind = "delete" => pass.over \/ it.pc = "delete" \/ it.then = "delete"

\* No steady key of the slots that were read is left out: it is pending, or visited, or it
\* is being deleted.
SteadyInv ==
  /\ lock = Nobody => pass.steady \subseteq LiveKeys
  /\ \A k \in pass.steady \cap it.search:
       SlotOf[k] < it.slot =>
         \/ k \in Pending
         \/ pass.kind # "delete" /\ k \in pass.shown
         \/ /\ pass.kind = "delete" /\ ~pass.over
            /\ wr[Self].step = "delete" /\ wr[Self].key = k

ActiveInv == it.list = "active" => ItemsInv /\ VisitInv /\ DeletingInv /\ SteadyInv

\* A loop over the removed entries has fetched what matches in the places it has passed
\* but the first, and an empty fetch has seen that there is no more.
Behind(n) == {j \in 1..Len(Chain(Gc)): n <= j /\ Chain(Gc)[j] \in WantedDeleted}
DeletedInv ==
  it.list = "deleted" /\ pass.still =>
    /\ pass.seen \subseteq WantedDeleted \ {next[Gc]}
    /\ \A j \in Behind(2) \ Behind(it.slot + 2): Chain(Gc)[j] \in pass.seen
    /\ pass.over \/ (it.pc = "build" /\ it.entries = << >>) => Behind(it.slot + 2) = {}

LoopInv == StagesInv /\ ActiveInv /\ DeletedInv

\* The keys in the cache are keys.
LEMMA LiveAreKeys == Lists => LiveKeys \subseteq Key
BY ListedEntry DEF LiveKeys, Listed

\* What a step of others leaves as it is.
LEMMA ObserveFields ==
  ASSUME pass \in Pass, Observe
  PROVE  /\ pass' \in Pass
         /\ pass'.kind = pass.kind /\ pass'.over = pass.over /\ pass'.shown = pass.shown
         /\ pass'.twice = pass.twice
         /\ pass'.steady = IF lock' = Nobody THEN pass.steady \cap LiveKeys' ELSE pass.steady
         /\ pass'.still = (pass.still /\ removed' = removed)
         /\ pass'.seen = IF removed' = removed THEN pass.seen ELSE {}
BY DEF Observe, Pass

\* What a loop over the removed entries looks at, while nothing of it changes.
LEMMA SameRemoved ==
  ASSUME RemovedKeep, removed' = removed, Chain(Gc)' = Chain(Gc), it'.search = it.search
  PROVE  /\ WantedDeleted' = WantedDeleted /\ next'[Gc] = next[Gc]
         /\ \A n: Behind(n)' = Behind(n)
<1>1. WantedDeleted' = WantedDeleted
  BY DEF RemovedKeep, WantedDeleted, SearchMatch
<1>2. next'[Gc] = next[Gc]
  BY DEF RemovedKeep
<1>3. \A n: Behind(n)' = Behind(n)
  BY <1>1 DEF Behind
<1> QED
  BY <1>1, <1>2, <1>3

\* A step of others keeps the loop: what it fetched is fetched, and a key that stays in the
\* cache is still pending, visited, or being deleted.
LEMMA CacheStepLoop ==
  ASSUME Inv, ExactInv, LoopInv, CacheStep, Inv', ExactInv'
  PROVE  LoopInv'
<1>1. it' = it /\ Observe
  BY DEF CacheStep
<1>2. /\ pass' \in Pass
      /\ pass'.kind = pass.kind /\ pass'.over = pass.over /\ pass'.shown = pass.shown
      /\ pass'.twice = pass.twice
      /\ pass'.steady = IF lock' = Nobody THEN pass.steady \cap LiveKeys' ELSE pass.steady
      /\ pass'.still = (pass.still /\ removed' = removed)
      /\ pass'.seen = IF removed' = removed THEN pass.seen ELSE {}
  BY <1>1, ObserveFields DEF LoopInv, StagesInv
<1>3. Pending' = Pending
  BY <1>1 DEF Pending, Making, Waiting
<1>4. StagesInv'
  <2>1. it.t \in Nat /\ it.t <= now /\ now \in Nat /\ now' \in Nat /\ now <= now'
    BY TimeGoesOn DEF Inv, LoopInv, StagesInv, Iterator
  <2> QED
    BY <1>1, <1>2, <2>1 DEF LoopInv, StagesInv
<1>5. ASSUME it.list = "active" PROVE (ItemsInv /\ VisitInv /\ DeletingInv /\ SteadyInv)'
  <2>1. ItemsInv /\ VisitInv /\ DeletingInv /\ SteadyInv
    BY <1>5 DEF LoopInv, ActiveInv
  <2>2. ItemsInv' /\ VisitInv' /\ DeletingInv'
    BY <1>1, <1>2, <1>3, <2>1 DEF ItemsInv, VisitInv, DeletingInv
  <2>3. ASSUME NEW k \in pass'.steady \cap it.search, SlotOf[k] < it.slot,
               k \notin Pending, ~(pass.kind # "delete" /\ k \in pass.shown)
        PROVE  /\ pass.kind = "delete" /\ ~pass.over
               /\ wr'[Self].step = "delete" /\ wr'[Self].key = k
    <3>1. k \in pass.steady
      BY <1>2, <2>3
    <3>2. pass.kind = "delete" /\ ~pass.over /\ wr[Self].step = "delete" /\ wr[Self].key = k
      BY <2>1, <2>3, <3>1 DEF SteadyInv
    <3>3. \/ wr'[Self].step = "delete" /\ wr'[Self].key = k
          \/ lock' = Nobody /\ k \notin LiveKeys'
      BY <3>2, DeletingGoes DEF Inv
    <3> QED
      BY <1>2, <2>3, <3>2, <3>3
  <2>4. SteadyInv'
    BY <1>1, <1>2, <1>3, <2>3 DEF SteadyInv
  <2> QED
    BY <2>2, <2>4
<1>6. DeletedInv'
  <2>1. SUFFICES ASSUME it.list = "deleted", pass'.still PROVE DeletedInv'
    BY <1>1 DEF DeletedInv
  <2>2. removed' = removed /\ pass.still /\ pass'.seen = pass.seen
    BY <1>2, <2>1
  <2>3. RemovedKeep
    BY <2>2, CacheOnChains, RemovedStay DEF Inv
  <2>4. Lists /\ Loose /\ Lists' /\ Loose'
    BY DEF Inv, ChainsInv, ExactInv
  <2>5. Chain(Gc)' = Chain(Gc)
    BY <2>3, <2>4, GcSame
  <2>6. /\ WantedDeleted' = WantedDeleted /\ next'[Gc] = next[Gc]
        /\ \A n: Behind(n)' = Behind(n)
    BY <1>1, <2>2, <2>3, <2>5, SameRemoved
  <2>7. Behind(2)' = Behind(2) /\ Behind(it.slot + 2)' = Behind(it.slot + 2)
    BY <1>1, <2>6
  <2> QED
    BY <1>1, <1>2, <2>1, <2>2, <2>5, <2>6, <2>7 DEF LoopInv, DeletedInv
<1> QED
  BY <1>1, <1>4, <1>5, <1>6 DEF LoopInv, ActiveInv

\* What an iterator leaves of the chains, in all its steps but the deletion of an item.
Quiet ==
  /\ LiveKeys' = LiveKeys /\ RemovedKeep /\ Chain(Gc)' = Chain(Gc)
  /\ removed' = removed /\ now' = now /\ lock' = lock /\ wr' = wr

\* A method that leaves the chains, the references and the clock alone.
LEMMA MethodQuiet == UNCHANGED chainVars => Quiet
<1> SUFFICES ASSUME UNCHANGED chainVars PROVE Quiet
  OBVIOUS
<1>1. UNCHANGED <<next, linked, removed, wr, lock, now>> /\ ent' = ent
  BY DEF chainVars, chains, pointers
<1>2. LiveKeys' = LiveKeys
  BY <1>1 DEF LiveKeys, HardExpired
<1>3. Chain(Gc)' = Chain(Gc)
  BY <1>1 DEF Chain
<1> QED
  BY <1>1, <1>2, <1>3 DEF Quiet, RemovedKeep

\* Taking or giving back references changes no member of a chain.
LEMMA CountsQuiet ==
  ASSUME ChainsInv, NEW r, NEW S, Pin(r, S) \/ Release(r, S)
  PROVE  Quiet
<1>1. /\ LiveKeys' = LiveKeys /\ RemovedKeep
      /\ UNCHANGED <<next, linked, removed, wr, lock, now>>
  BY CountsKeep
<1>2. Chain(Gc)' = Chain(Gc)
  BY <1>1 DEF Chain
<1> QED
  BY <1>1, <1>2 DEF Quiet

\* A fetch starts.
LEMMA FetchStarts ==
  ASSUME NEW i \in Iterator, NEW then \in {"user", "delete"}, now \in Nat, Fetch(i, then)
  PROVE  /\ it' \in Iterator /\ it'.pc = "lock" /\ it'.then = then
         /\ it'.list = i.list /\ it'.search = i.search /\ it'.slot = i.slot /\ it'.sidx = i.sidx
         /\ it'.entries = i.entries /\ it'.built = i.built
         /\ i.list = "active" => it'.stack = << >> /\ it'.t = now
         /\ i.list # "active" => it'.stack = i.stack /\ it'.t = i.t
<1>1. CASE i.list = "active"
  <2>1. it' = [i EXCEPT !.pc = "lock", !.then = then, !.stack = << >>, !.t = now]
    BY <1>1 DEF Fetch
  <2>2. << >> \in Seq(Key)
    OBVIOUS
  <2> QED
    BY <1>1, <2>1, <2>2 DEF Iterator
<1>2. CASE i.list # "active"
  <2>1. it' = [i EXCEPT !.pc = "lock", !.then = then]
    BY <1>2 DEF Fetch
  <2> QED
    BY <1>2, <2>1 DEF Iterator
<1> QED
  BY <1>1, <1>2

\* A loop starts.
IsNew(p, list, search) ==
  /\ p \in Pass /\ p.kind = "visit" /\ ~p.over /\ p.shown = {} /\ ~p.twice
  /\ p.steady = IF list = "active" THEN LiveKeys \cap search ELSE {}
  /\ (p.still <=> list = "deleted") /\ p.seen = {}

LEMMA NewPassIs ==
  ASSUME LiveKeys \subseteq Key, NEW list, NEW search
  PROVE  IsNew(NewPass(list, search), list, search)
BY DEF NewPass, NoPass, Pass, IsNew

\* Nothing is pending of a chunk that has been visited, or dropped.
LEMMA NothingWaits ==
  ASSUME it.sidx \in Nat, it.stack = << >> \/ (it.stack \in Seq(Key) /\ it.sidx = Len(it.stack))
  PROVE  Waiting = {}
BY DEF Waiting
LEMMA NothingWaitsNext ==
  (it.sidx \in Nat /\ (it.stack = << >> \/ (it.stack \in Seq(Key) /\ it.sidx = Len(it.stack)))
     => Waiting = {})'
BY NothingWaits, PTL

\* The order of the slots.
LEMMA SlotNumbers == NSlots \in Nat /\ \A k \in Key: SlotOf[k] \in Nat /\ SlotOf[k] < NSlots
BY SlotAssumption

\* A loop starts again from the first slot.
LEMMA RewindLoop ==
  ASSUME Inv, ExactInv, LoopInv, Rewind
  PROVE  LoopInv'
<1>1. PICK i: i = [it EXCEPT !.slot = 0, !.sidx = 0]
  OBVIOUS
<1>2. Fetch(i, "user") /\ UNCHANGED chainVars /\ pass' = NewPass(it.list, it.search)
  BY <1>1 DEF Rewind
<1>3. it \in Iterator /\ it.t <= now /\ now \in Nat /\ LiveKeys \subseteq Key
  BY LiveAreKeys DEF LoopInv, StagesInv, Inv, ChainsInv, ProcessTypes
<1>4. /\ i \in Iterator /\ i.slot = 0 /\ i.sidx = 0 /\ i.list = it.list /\ i.search = it.search
      /\ i.t = it.t
  BY <1>1, <1>3 DEF Iterator
<1>5. /\ it' \in Iterator /\ it'.pc = "lock" /\ it'.then = "user"
      /\ it'.list = it.list /\ it'.search = it.search /\ it'.slot = 0 /\ it'.sidx = 0
      /\ it.list = "active" => it'.stack = << >>
      /\ it'.t = now \/ it'.t = it.t
  BY <1>2, <1>3, <1>4, FetchStarts
<1>6. /\ pass' \in Pass /\ pass'.kind = "visit" /\ ~pass'.over /\ pass'.shown = {} /\ ~pass'.twice
      /\ pass'.steady = IF it.list = "active" THEN LiveKeys \cap it.search ELSE {}
      /\ (pass'.still <=> it.list = "deleted") /\ pass'.seen = {}
  <2>1. PICK p: p = NewPass(it.list, it.search)
    OBVIOUS
  <2>2. IsNew(p, it.list, it.search)
    BY <1>3, <2>1, NewPassIs
  <2> QED
    BY <1>2, <2>1, <2>2 DEF IsNew
<1>7. Quiet
  BY <1>2, MethodQuiet
<1>8. StagesInv'
  BY <1>3, <1>5, <1>6, <1>7 DEF StagesInv, Quiet
<1>9. ASSUME it.list = "active" PROVE (ItemsInv /\ VisitInv /\ DeletingInv /\ SteadyInv)'
  <2>1. it'.stack = << >> /\ Waiting' = {} /\ Pending' = {}
    BY <1>5, <1>9, NothingWaitsNext DEF Pending
  <2>2. Once(it'.stack)
    BY <2>1 DEF Once
  <2>3. ItemsInv' /\ DeletingInv'
    BY <1>5, <1>6, <2>1, <2>2 DEF ItemsInv, DeletingInv
  <2>4. VisitInv'
    BY <1>5, <1>6, <2>1, SlotNumbers DEF VisitInv
  <2>5. ASSUME NEW k \in pass'.steady PROVE ~(SlotOf[k] < 0)
    BY <2>5, <1>3, <1>6, <1>9, SlotNumbers
  <2>6. SteadyInv'
    BY <1>5, <1>6, <1>7, <1>9, <2>5 DEF SteadyInv, Quiet
  <2> QED
    BY <2>3, <2>4, <2>6
<1>10. DeletedInv'
  <2>1. Behind(2) \ Behind(2) = {}
    OBVIOUS
  <2>2. Behind(it.slot + 2)' = Behind(2)'
    BY <1>5
  <2> QED
    BY <1>5, <1>6, <2>2 DEF DeletedInv
<1> QED
  BY <1>5, <1>8, <1>9, <1>10 DEF LoopInv, ActiveInv

\* The next chunk is fetched when all items have been visited, or deleted.
LEMMA FetchOnLoop ==
  ASSUME Inv, ExactInv, LoopInv, Valid \/ DeleteFetch
  PROVE  LoopInv'
<1>1. PICK then \in {"user", "delete"}: Fetch(it, then) /\ then = it.pc
  BY DEF Valid, DeleteFetch, Running
<1>2. /\ UNCHANGED chainVars /\ pass' = pass /\ it.sidx = Len(it.stack) /\ Idle(Self)
      /\ it.pc # "build"
  BY <1>1 DEF Valid, DeleteFetch, Running, SelfIdle
<1>3. it \in Iterator /\ it.t <= now /\ now \in Nat /\ StagesInv
  BY DEF LoopInv, StagesInv, Inv, ChainsInv, ProcessTypes
<1>4. /\ it' \in Iterator /\ it'.pc = "lock" /\ it'.then = then
      /\ it'.list = it.list /\ it'.search = it.search /\ it'.slot = it.slot
      /\ it.list = "active" => it'.stack = << >>
      /\ it'.t = now \/ it'.t = it.t
  BY <1>1, <1>3, FetchStarts
<1>5. Quiet
  BY <1>2, MethodQuiet
<1>6. StagesInv'
  BY <1>2, <1>3, <1>4, <1>5 DEF StagesInv, Quiet
<1>7. ASSUME it.list = "active" PROVE (ItemsInv /\ VisitInv /\ DeletingInv /\ SteadyInv)'
  <2>0. ItemsInv /\ VisitInv /\ DeletingInv /\ SteadyInv
    BY <1>7 DEF LoopInv, ActiveInv
  <2>1. it'.stack = << >> /\ Waiting' = {} /\ Pending' = {}
    <3>1. it'.sidx \in Nat
      BY <1>4 DEF Iterator
    <3> QED
      BY <1>4, <1>7, <3>1, NothingWaitsNext DEF Pending
  <2>2. Pending = {}
    BY <1>2, <1>3, NothingWaits DEF Pending, Iterator
  <2>3. Once(it'.stack)
    BY <2>1 DEF Once
  <2>4. ItemsInv'
    BY <1>4, <2>1, <2>3 DEF ItemsInv
  <2>5. DeletingInv'
    BY <1>1, <1>2, <1>3, <1>4, <2>0 DEF DeletingInv, StagesInv
  <2>6. VisitInv'
    BY <1>2, <1>4, <2>0, <2>1, <2>2 DEF VisitInv
  <2>7. wr[Self].step # "delete"
    BY <1>2 DEF Idle
  <2>8. SteadyInv'
    BY <1>2, <1>4, <1>5, <2>0, <2>2, <2>7 DEF SteadyInv, Quiet
  <2> QED
    BY <2>4, <2>5, <2>6, <2>8
<1>8. DeletedInv'
  <2>1. SUFFICES ASSUME it.list = "deleted", pass.still PROVE DeletedInv'
    BY <1>2, <1>4 DEF DeletedInv
  <2>2. /\ WantedDeleted' = WantedDeleted /\ next'[Gc] = next[Gc]
        /\ \A n: Behind(n)' = Behind(n)
    BY <1>4, <1>5, SameRemoved DEF Quiet
  <2>3. Behind(2)' = Behind(2) /\ Behind(it.slot + 2)' = Behind(it.slot + 2)
    BY <1>4, <2>2
  <2> QED
    BY <1>2, <1>4, <1>5, <2>1, <2>2, <2>3 DEF LoopInv, DeletedInv, Quiet
<1> QED
  BY <1>4, <1>6, <1>7, <1>8 DEF LoopInv, ActiveInv

\* apcu_delete starts: it has to delete what is live, from the slot of the iterator on.
LEMMA DeleteLoop ==
  ASSUME Inv, ExactInv, LoopInv, Delete
  PROVE  LoopInv'
<1>1. /\ Fetch(it, "delete") /\ UNCHANGED chainVars /\ it.pc = "user"
      /\ pass' = [NewPass(it.list, it.search) EXCEPT
                    !.kind = "delete", !.still = pass.still, !.seen = pass.seen,
                    !.steady = {k \in @: SlotOf[k] >= it.slot}]
  BY DEF Delete, Running
<1>2. /\ it \in Iterator /\ it.t <= now /\ now \in Nat /\ StagesInv /\ LiveKeys \subseteq Key
      /\ pass \in Pass
  BY LiveAreKeys DEF LoopInv, StagesInv, Inv, ChainsInv, ProcessTypes
<1>3. /\ it' \in Iterator /\ it'.pc = "lock" /\ it'.then = "delete"
      /\ it'.list = it.list /\ it'.search = it.search /\ it'.slot = it.slot
      /\ it.list = "active" => it'.stack = << >>
      /\ it'.t = now \/ it'.t = it.t
  BY <1>1, <1>2, FetchStarts
<1>4. PICK p: p = NewPass(it.list, it.search)
  OBVIOUS
<1>5. /\ p \in Pass /\ ~p.over /\ p.shown = {} /\ ~p.twice
      /\ p.steady = IF it.list = "active" THEN LiveKeys \cap it.search ELSE {}
  <2>1. IsNew(p, it.list, it.search)
    BY <1>2, <1>4, NewPassIs
  <2> QED
    BY <2>1 DEF IsNew
<1>6. /\ pass' \in Pass /\ pass'.kind = "delete" /\ ~pass'.over /\ pass'.shown = {}
      /\ ~pass'.twice /\ pass'.still = pass.still /\ pass'.seen = pass.seen
      /\ pass'.steady = {k \in p.steady: SlotOf[k] >= it.slot}
  <2>1. pass' = [p EXCEPT !.kind = "delete", !.still = pass.still, !.seen = pass.seen,
                          !.steady = {k \in @: SlotOf[k] >= it.slot}]
    BY <1>1, <1>4
  <2>2. {k \in p.steady: SlotOf[k] >= it.slot} \subseteq Key
    BY <1>5 DEF Pass
  <2> QED
    BY <1>2, <1>5, <2>1, <2>2 DEF Pass
<1>7. Quiet
  BY <1>1, MethodQuiet
<1>8. StagesInv'
  BY <1>2, <1>3, <1>6, <1>7 DEF StagesInv, Quiet
<1>9. ASSUME it.list = "active" PROVE (ItemsInv /\ VisitInv /\ DeletingInv /\ SteadyInv)'
  <2>0. VisitInv
    BY <1>9 DEF LoopInv, ActiveInv
  <2>1. it'.stack = << >> /\ Waiting' = {} /\ Pending' = {}
    <3>1. it'.sidx \in Nat
      BY <1>3 DEF Iterator
    <3> QED
      BY <1>3, <1>9, <3>1, NothingWaitsNext DEF Pending
  <2>2. Once(it'.stack)
    BY <2>1 DEF Once
  <2>3. ItemsInv' /\ DeletingInv'
    BY <1>3, <1>6, <2>1, <2>2 DEF ItemsInv, DeletingInv
  <2>4. VisitInv'
    BY <1>3, <1>6, <2>0, <2>1 DEF VisitInv
  <2>5. ASSUME NEW k \in pass'.steady PROVE k \in LiveKeys /\ ~(SlotOf[k] < it.slot)
    <3>1. k \in LiveKeys /\ SlotOf[k] >= it.slot /\ k \in Key
      BY <1>2, <1>5, <1>6, <1>9, <2>5
    <3> QED
      BY <1>2, <3>1, SlotNumbers DEF Iterator
  <2>6. SteadyInv'
    BY <1>3, <1>6, <1>7, <1>9, <2>5 DEF SteadyInv, Quiet
  <2> QED
    BY <2>3, <2>4, <2>6
<1>10. DeletedInv'
  <2>1. SUFFICES ASSUME it.list = "deleted", pass.still PROVE DeletedInv'
    BY <1>3, <1>6 DEF DeletedInv
  <2>2. /\ WantedDeleted' = WantedDeleted /\ next'[Gc] = next[Gc]
        /\ \A n: Behind(n)' = Behind(n)
    BY <1>3, <1>7, SameRemoved DEF Quiet
  <2>3. Behind(2)' = Behind(2) /\ Behind(it.slot + 2)' = Behind(it.slot + 2)
    BY <1>3, <2>2
  <2> QED
    BY <1>3, <1>6, <1>7, <2>1, <2>2, <2>3 DEF LoopInv, DeletedInv, Quiet
<1> QED
  BY <1>3, <1>8, <1>9, <1>10 DEF LoopInv, ActiveInv

\* No iterator, no loop.
LEMMA BlankLoop ==
  ASSUME it' = NoIterator, pass' = NoPass, now' \in Nat
  PROVE  LoopInv'
<1>1. /\ NoIterator \in Iterator /\ NoIterator.pc = "none" /\ NoIterator.then = "user"
      /\ NoIterator.list = "active" /\ NoIterator.search = {} /\ NoIterator.slot = 0
      /\ NoIterator.t = 0 /\ NoIterator.stack = << >> /\ NoIterator.sidx = 0
  BY DEF NoIterator, Iterator
<1>2. /\ NoPass \in Pass /\ NoPass.kind = "none" /\ ~NoPass.over /\ NoPass.steady = {}
      /\ NoPass.shown = {} /\ ~NoPass.twice
  BY DEF NoPass, Pass
<1>3. StagesInv'
  BY <1>1, <1>2 DEF StagesInv
<1>4. Waiting' = {} /\ Pending' = {}
  BY <1>1, NothingWaitsNext DEF Pending
<1>5. Once(<< >>)
  BY DEF Once
<1>6. ItemsInv' /\ DeletingInv' /\ SteadyInv'
  BY <1>1, <1>2, <1>5 DEF ItemsInv, DeletingInv, SteadyInv
<1>7. VisitInv'
  BY <1>1, <1>2, <1>4, SlotNumbers DEF VisitInv
<1>8. DeletedInv'
  BY <1>1 DEF DeletedInv
<1> QED
  BY <1>3, <1>6, <1>7, <1>8 DEF LoopInv, ActiveInv

\* A loop is made.
LEMMA ConstructLoop ==
  ASSUME Inv, ExactInv, LoopInv, Construct
  PROVE  LoopInv'
<1>1. PICK l \in Loops: it' = [NoIterator EXCEPT !.pc = "user", !.list = l[1], !.search = l[2]]
  BY DEF Construct
<1>2. l[1] \in {"active", "deleted"} /\ l[2] \in SUBSET Key
  BY SearchAssumption
<1>3. /\ it' \in Iterator /\ it'.pc = "user" /\ it'.then = "user" /\ it'.list = l[1]
      /\ it'.search = l[2] /\ it'.slot = 0 /\ it'.t = 0 /\ it'.stack = << >> /\ it'.sidx = 0
  <2>1. PICK list, search: list = l[1] /\ search = l[2]
    OBVIOUS
  <2>2. << >> \in Seq(Key) /\ << >> \in Seq([addr: Addr, key: Key])
    OBVIOUS
  <2> QED
    BY <1>1, <1>2, <2>1, <2>2 DEF NoIterator, Iterator
<1>4. PICK p: p = NewPass(l[1], l[2])
  OBVIOUS
<1>5. now \in Nat /\ LiveKeys \subseteq Key
  BY LiveAreKeys DEF Inv, ChainsInv, ProcessTypes
<1>6. /\ p \in Pass /\ p.kind = "visit" /\ ~p.over /\ p.shown = {} /\ ~p.twice
      /\ p.steady = IF l[1] = "active" THEN LiveKeys \cap l[2] ELSE {}
      /\ (p.still <=> l[1] = "deleted") /\ p.seen = {}
  <2>1. IsNew(p, l[1], l[2])
    BY <1>4, <1>5, NewPassIs
  <2> QED
    BY <2>1 DEF IsNew
<1>7. pass' = p /\ UNCHANGED chainVars
  BY <1>3, <1>4 DEF Construct
<1>8. Quiet
  BY <1>7, MethodQuiet
<1>9. StagesInv'
  <2>1. Len(<< >>) = 0
    OBVIOUS
  <2> QED
    BY <2>1, <1>3, <1>5, <1>6, <1>7, <1>8 DEF StagesInv, Quiet
<1>10. ASSUME l[1] = "active" PROVE (ItemsInv /\ VisitInv /\ DeletingInv /\ SteadyInv)'
  <2>1. Waiting' = {} /\ Pending' = {}
    BY <1>3, NothingWaitsNext DEF Pending
  <2>2. Once(<< >>)
    BY DEF Once
  <2>3. ItemsInv' /\ DeletingInv'
    BY <1>3, <1>6, <1>7, <2>2 DEF ItemsInv, DeletingInv
  <2>4. VisitInv'
    BY <1>3, <1>6, <1>7, <2>1, SlotNumbers DEF VisitInv
  <2>5. ASSUME NEW k \in p.steady PROVE k \in LiveKeys /\ ~(SlotOf[k] < 0)
    <3>1. k \in LiveKeys
      BY <2>5, <1>6, <1>10
    <3> QED
      BY <3>1, <1>5, SlotNumbers
  <2>6. SteadyInv'
    BY <1>3, <1>7, <1>8, <2>5 DEF SteadyInv, Quiet
  <2> QED
    BY <2>3, <2>4, <2>6
<1>11. DeletedInv'
  <2>1. Behind(it.slot + 2)' = Behind(2)'
    BY <1>3
  <2> QED
    BY <1>3, <1>6, <1>7, <2>1 DEF DeletedInv
<1> QED
  BY <1>3, <1>9, <1>10, <1>11 DEF LoopInv, ActiveInv

\* An item is visited, or its key given to apcu_delete.
LEMMA TakeItem ==
  ASSUME StagesInv, it.pc \in {"user", "delete"}, it.sidx < Len(it.stack),
         it' = [it EXCEPT !.sidx = @ + 1], NEW k, k = it.stack[it.sidx + 1], pass' = Show(k)
  PROVE  /\ it' \in Iterator /\ it'.sidx = it.sidx + 1 /\ it'.sidx <= Len(it.stack)
         /\ it'.pc = it.pc /\ it'.then = it.then /\ it'.list = it.list
         /\ it'.search = it.search /\ it'.slot = it.slot /\ it'.t = it.t
         /\ it'.stack = it.stack /\ it'.entries = it.entries
         /\ k \in Key /\ k \in Pending
         /\ pass' \in Pass
         /\ it.list # "active" => pass' = pass
         /\ it.list = "active" =>
              /\ pass'.kind = pass.kind /\ pass'.over = pass.over
              /\ pass'.steady = pass.steady
              /\ pass'.shown = pass.shown \cup {k}
              /\ (pass'.twice <=> pass.twice \/ k \in pass.shown)
              /\ ItemsInv => Pending' = Pending \ {k}
<1>1. it \in Iterator /\ pass \in Pass
  BY DEF StagesInv
<1>2. /\ it.sidx \in Nat /\ it.stack \in Seq(Key) /\ Len(it.stack) \in Nat
      /\ it.sidx + 1 \in 1..Len(it.stack)
  BY <1>1 DEF Iterator
<1>3. k \in Key
  BY <1>2
<1>4. /\ it' \in Iterator /\ it'.sidx = it.sidx + 1 /\ it'.sidx <= Len(it.stack)
      /\ it'.pc = it.pc /\ it'.then = it.then /\ it'.list = it.list
      /\ it'.search = it.search /\ it'.slot = it.slot /\ it'.t = it.t
      /\ it'.stack = it.stack /\ it'.entries = it.entries
  BY <1>1, <1>2 DEF Iterator
<1>5. Pending = {it.stack[i]: i \in (it.sidx + 1)..Len(it.stack)}
  BY DEF Pending, Waiting
<1>6. k \in Pending
  BY <1>2, <1>5
<1>7. Pending' = {it.stack[i]: i \in (it.sidx + 2)..Len(it.stack)}
  <2>1. (it.sidx + 1) + 1 = it.sidx + 2
    BY <1>2
  <2> QED
    BY <1>4, <2>1 DEF Pending, Waiting
<1>8. ASSUME ItemsInv PROVE Pending' = Pending \ {k}
  <2>1. Once(it.stack)
    BY <1>8 DEF ItemsInv
  <2>2. \A i \in (it.sidx + 1)..Len(it.stack):
          /\ i \in 1..Len(it.stack)
          /\ i \in (it.sidx + 2)..Len(it.stack) <=> i # it.sidx + 1
    BY <1>2
  <2>3. \A i \in (it.sidx + 1)..Len(it.stack): it.stack[i] = k <=> i = it.sidx + 1
    BY <1>2, <2>1, <2>2 DEF Once
  <2>4. \A i \in (it.sidx + 2)..Len(it.stack): i \in (it.sidx + 1)..Len(it.stack)
    BY <1>2
  <2> QED
    BY <1>5, <1>7, <2>2, <2>3, <2>4
<1>9. ASSUME it.list = "active"
      PROVE  /\ pass' \in Pass
             /\ pass'.kind = pass.kind /\ pass'.over = pass.over
             /\ pass'.steady = pass.steady
             /\ pass'.shown = pass.shown \cup {k}
             /\ (pass'.twice <=> pass.twice \/ k \in pass.shown)
  <2>1. pass' = [pass EXCEPT !.shown = @ \cup {k}, !.twice = @ \/ k \in pass.shown]
    BY <1>9 DEF Show
  <2>2. PICK shown, twice: shown = pass.shown \cup {k} /\ twice = (pass.twice \/ k \in pass.shown)
    OBVIOUS
  <2>3. shown \in SUBSET Key /\ twice \in BOOLEAN
    BY <1>1, <1>3, <2>2 DEF Pass
  <2>4. pass' = [pass EXCEPT !.shown = shown, !.twice = twice]
    BY <2>1, <2>2
  <2>5. /\ pass' \in Pass /\ pass'.kind = pass.kind /\ pass'.over = pass.over
        /\ pass'.steady = pass.steady /\ pass'.shown = shown /\ pass'.twice = twice
    BY <1>1, <2>3, <2>4 DEF Pass
  <2> QED
    BY <2>2, <2>5
<1>10. it.list # "active" => pass' = pass
  BY DEF Show
<1> QED
  BY <1>1, <1>3, <1>4, <1>6, <1>8, <1>9, <1>10

\* An item that was pending has been shown.
LEMMA TakeActive ==
  ASSUME StagesInv, it.pc \in {"user", "delete"}, it.sidx < Len(it.stack),
         it' = [it EXCEPT !.sidx = @ + 1], NEW k, k = it.stack[it.sidx + 1], pass' = Show(k),
         it.list = "active", ItemsInv, VisitInv, DeletingInv
  PROVE  (ItemsInv /\ VisitInv /\ DeletingInv)' /\ ~pass.over /\ pass'.kind = pass.kind
<1>1. /\ it'.pc = it.pc /\ it'.then = it.then /\ it'.slot = it.slot
      /\ it'.stack = it.stack /\ it'.entries = it.entries
      /\ k \in Pending /\ pass'.kind = pass.kind /\ pass'.over = pass.over
      /\ pass'.shown = pass.shown \cup {k} /\ (pass'.twice <=> pass.twice \/ k \in pass.shown)
      /\ Pending' = Pending \ {k}
  BY TakeItem
<1>2. ~pass.over
  BY <1>1 DEF VisitInv
<1>3. ItemsInv' /\ DeletingInv'
  BY <1>1 DEF ItemsInv, DeletingInv
<1>4. VisitInv'
  BY <1>1, <1>2 DEF VisitInv
<1> QED
  BY <1>1, <1>2, <1>3, <1>4

\* The loop takes its next item: the key is shown, and waits no more.
LEMMA NextItemLoop ==
  ASSUME Inv, ExactInv, LoopInv, NextItem
  PROVE  LoopInv'
<1>1. PICK k: k = it.stack[it.sidx + 1]
  OBVIOUS
<1>2. /\ it.pc = "user" /\ it.sidx < Len(it.stack) /\ it' = [it EXCEPT !.sidx = @ + 1]
      /\ pass' = Show(k) /\ UNCHANGED chainVars /\ Idle(Self) /\ StagesInv
  BY <1>1 DEF NextItem, Running, SelfIdle, LoopInv
<1>3. /\ it' \in Iterator /\ it'.sidx = it.sidx + 1 /\ it'.sidx <= Len(it.stack)
      /\ it'.pc = it.pc /\ it'.then = it.then /\ it'.list = it.list
      /\ it'.search = it.search /\ it'.slot = it.slot /\ it'.t = it.t
      /\ it'.stack = it.stack /\ it'.entries = it.entries
      /\ pass' \in Pass
      /\ it.list # "active" => pass' = pass
  BY <1>1, <1>2, TakeItem
<1>4. Quiet
  BY <1>2, MethodQuiet
<1>5. StagesInv'
  BY <1>2, <1>3, <1>4 DEF StagesInv, Quiet
<1>6. ASSUME it.list = "active" PROVE (ItemsInv /\ VisitInv /\ DeletingInv /\ SteadyInv)'
  <2>1. ItemsInv /\ VisitInv /\ DeletingInv /\ SteadyInv
    BY <1>6 DEF LoopInv, ActiveInv
  <2>2. (ItemsInv /\ VisitInv /\ DeletingInv)' /\ ~pass.over /\ pass'.kind = pass.kind
    BY <1>1, <1>2, <1>6, <2>1, TakeActive
  <2>3. /\ pass'.steady = pass.steady /\ pass'.shown = pass.shown \cup {k}
        /\ Pending' = Pending \ {k}
    BY <1>1, <1>2, <1>6, <2>1, TakeItem
  <2>4. pass.kind # "delete"
    BY <1>2, <2>1, <2>2 DEF DeletingInv, StagesInv
  <2>5. SteadyInv'
    BY <1>3, <1>4, <2>1, <2>2, <2>3, <2>4 DEF SteadyInv, Quiet
  <2> QED
    BY <2>2, <2>5
<1>7. DeletedInv'
  <2>1. SUFFICES ASSUME it.list = "deleted", pass.still PROVE DeletedInv'
    BY <1>3 DEF DeletedInv
  <2>2. /\ WantedDeleted' = WantedDeleted /\ next'[Gc] = next[Gc]
        /\ \A n: Behind(n)' = Behind(n)
    BY <1>3, <1>4, SameRemoved DEF Quiet
  <2>3. Behind(2)' = Behind(2) /\ Behind(it.slot + 2)' = Behind(it.slot + 2)
    BY <1>3, <2>2
  <2> QED
    BY <1>2, <1>3, <1>4, <2>1, <2>2, <2>3 DEF LoopInv, DeletedInv, Quiet
<1> QED
  BY <1>3, <1>5, <1>6, <1>7 DEF LoopInv, ActiveInv

\* apcu_delete with an iterator shows an item and takes its key out of the table.
LEMMA DeleteItemLoop ==
  ASSUME Inv, ExactInv, LoopInv, DeleteItem
  PROVE  LoopInv'
<1>1. PICK k: k = it.stack[it.sidx + 1]
  OBVIOUS
<1>2. /\ it.pc = "delete" /\ it.sidx < Len(it.stack) /\ it' = [it EXCEPT !.sidx = @ + 1]
      /\ pass' = Show(k) /\ LockDelete(Self, k) /\ Idle(Self) /\ StagesInv
  BY <1>1 DEF DeleteItem, Running, SelfIdle, LoopInv
<1>3. /\ it' \in Iterator /\ it'.sidx = it.sidx + 1 /\ it'.sidx <= Len(it.stack)
      /\ it'.pc = it.pc /\ it'.then = it.then /\ it'.list = it.list
      /\ it'.search = it.search /\ it'.slot = it.slot /\ it'.t = it.t
      /\ it'.stack = it.stack /\ it'.entries = it.entries
      /\ pass' \in Pass
      /\ it.list # "active" => pass' = pass
  BY <1>1, <1>2, TakeItem
<1>4. UNCHANGED <<next, ent, removed, linked, now>> /\ lock' # Nobody
  BY <1>2, SelfAssumption, ProcessAssumption DEF LockDelete, chains, pointers
<1>5. wr'[Self].step = "delete" /\ wr'[Self].key = k
  BY <1>2, SelfAssumption DEF LockDelete, Inv, ChainsInv, ProcessTypes, NoOp
<1>6. StagesInv'
  BY <1>2, <1>3, <1>4 DEF StagesInv
<1>7. ASSUME it.list = "active" PROVE (ItemsInv /\ VisitInv /\ DeletingInv /\ SteadyInv)'
  <2>1. ItemsInv /\ VisitInv /\ DeletingInv /\ SteadyInv
    BY <1>7 DEF LoopInv, ActiveInv
  <2>2. (ItemsInv /\ VisitInv /\ DeletingInv)' /\ ~pass.over /\ pass'.kind = pass.kind
    BY <1>1, <1>2, <1>7, <2>1, TakeActive
  <2>3. /\ pass'.steady = pass.steady /\ pass'.over = pass.over
        /\ Pending' = Pending \ {k}
    BY <1>1, <1>2, <1>7, <2>1, TakeItem
  <2>4. pass.kind = "delete" /\ wr[Self].step # "delete"
    BY <1>2, <2>1 DEF DeletingInv, Idle
  <2>5. SteadyInv'
    BY <1>3, <1>4, <1>5, <2>1, <2>2, <2>3, <2>4 DEF SteadyInv
  <2> QED
    BY <2>2, <2>5
<1>8. DeletedInv'
  <2>1. SUFFICES ASSUME it.list = "deleted", pass.still PROVE DeletedInv'
    BY <1>3 DEF DeletedInv
  <2>2. RemovedKeep
    BY <1>4 DEF RemovedKeep
  <2>3. Chain(Gc)' = Chain(Gc)
    BY <1>4 DEF Chain
  <2>4. /\ WantedDeleted' = WantedDeleted /\ next'[Gc] = next[Gc]
        /\ \A n: Behind(n)' = Behind(n)
    BY <1>3, <1>4, <2>2, <2>3, SameRemoved
  <2>5. Behind(2)' = Behind(2) /\ Behind(it.slot + 2)' = Behind(it.slot + 2)
    BY <1>3, <2>4
  <2> QED
    BY <1>2, <1>3, <2>1, <2>3, <2>4, <2>5 DEF LoopInv, DeletedInv
<1> QED
  BY <1>3, <1>6, <1>7, <1>8 DEF LoopInv, ActiveInv

\* An item of the chunk is built: its key waits in the stack instead of in the chunk.
LEMMA BuildItemLoop ==
  ASSUME Inv, ExactInv, LoopInv, BuildItem
  PROVE  LoopInv'
<1>1. PICK n: n = it.built + 1
  OBVIOUS
<1>2. PICK k: k = ent[it.entries[n].addr].key
  OBVIOUS
<1>3. /\ it.pc = "build" /\ n \in DOMAIN it.entries /\ UNCHANGED chainVars /\ pass' = pass
      /\ it' = [it EXCEPT !.built = n, !.stack = Append(@, k)]
      /\ it \in Iterator /\ StagesInv
  BY <1>1, <1>2 DEF BuildItem, Running, LoopInv, StagesInv
<1>4. it.entries \in Seq([addr: Addr, key: Key]) /\ it.stack \in Seq(Key) /\ it.built \in Nat
  BY <1>3 DEF Iterator
<1>5. n \in 1..Len(it.entries) /\ n \in Nat
  BY <1>1, <1>3, <1>4
<1>6. k = it.entries[n].key
  BY <1>2, <1>3 DEF Inv, IteratorInv, ItemsPinned
<1>7. k \in Key
  <2>1. it.entries[n] \in [addr: Addr, key: Key]
    <3>1. PICK S: S = [addr: Addr, key: Key]
      OBVIOUS
    <3>2. it.entries \in Seq(S)
      BY <1>4, <3>1
    <3> QED
      BY <1>5, <3>1, <3>2, ElementOfSeq
  <2> QED
    BY <1>6, <2>1
<1>8. PICK stack: stack = Append(it.stack, k)
  OBVIOUS
<1>9. /\ stack \in Seq(Key) /\ Len(stack) = Len(it.stack) + 1 /\ stack[Len(it.stack) + 1] = k
      /\ \A i \in 1..Len(it.stack): stack[i] = it.stack[i]
  BY <1>4, <1>7, <1>8, AppendHolds
<1>10. it' = [it EXCEPT !.built = n, !.stack = stack]
  BY <1>3, <1>8
<1>11. /\ it' \in Iterator /\ it'.pc = "build" /\ it'.then = it.then /\ it'.list = it.list
       /\ it'.search = it.search /\ it'.slot = it.slot /\ it'.sidx = it.sidx /\ it'.t = it.t
       /\ it'.built = n /\ it'.entries = it.entries /\ it'.stack = stack
  BY <1>3, <1>5, <1>9, <1>10 DEF Iterator
<1>12. Quiet
  BY <1>3, MethodQuiet
<1>13. StagesInv'
  BY <1>3, <1>5, <1>11, <1>12 DEF StagesInv, Quiet
<1>14. Pending' = Pending
  BY <1>3, <1>11 DEF Pending, Making
<1>15. ASSUME it.list = "active" PROVE (ItemsInv /\ VisitInv /\ DeletingInv /\ SteadyInv)'
  <2>1. ItemsInv /\ VisitInv /\ DeletingInv /\ SteadyInv
    BY <1>15 DEF LoopInv, ActiveInv
  <2>2. Len(it.stack) = it.built /\ \A i \in 1..it.built: it.stack[i] = it.entries[i].key
    BY <1>3, <2>1 DEF ItemsInv
  <2>3. Len(stack) = n
    BY <1>1, <1>9, <2>2
  <2>4. ASSUME NEW i \in 1..n PROVE stack[i] = it.entries[i].key
    <3>1. i = n \/ i \in 1..it.built
      BY <1>1, <1>4
    <3> QED
      BY <3>1, <1>1, <1>6, <1>9, <2>2
  <2>5. ItemsInv'
    BY <1>3, <1>11, <2>1, <2>3, <2>4 DEF ItemsInv
  <2>6. VisitInv' /\ DeletingInv'
    BY <1>3, <1>11, <1>14, <2>1 DEF VisitInv, DeletingInv
  <2>7. SteadyInv'
    BY <1>3, <1>11, <1>12, <1>14, <2>1 DEF SteadyInv, Quiet
  <2> QED
    BY <2>5, <2>6, <2>7
<1>16. DeletedInv'
  <2>1. SUFFICES ASSUME it.list = "deleted", pass.still PROVE DeletedInv'
    BY <1>3, <1>11 DEF DeletedInv
  <2>2. /\ WantedDeleted' = WantedDeleted /\ next'[Gc] = next[Gc]
        /\ \A n_1: Behind(n_1)' = Behind(n_1)
    BY <1>11, <1>12, SameRemoved DEF Quiet
  <2>3. Behind(2)' = Behind(2) /\ Behind(it.slot + 2)' = Behind(it.slot + 2)
    BY <1>11, <2>2
  <2> QED
    BY <1>3, <1>11, <1>12, <2>1, <2>2, <2>3 DEF LoopInv, DeletedInv, Quiet
<1> QED
  BY <1>11, <1>13, <1>15, <1>16 DEF LoopInv, ActiveInv

\* The items of a chunk are made: they are its entries.
LEMMA ReturnLoop ==
  ASSUME Inv, ExactInv, LoopInv, Return
  PROVE  LoopInv'
<1>1. /\ it.pc = "build" /\ it.built = Len(it.entries) /\ Release(Self, held[Self]) /\ Idle(Self)
      /\ it' = [it EXCEPT !.pc = IF it.built = 0 THEN "user" ELSE it.then,
                          !.then = "user", !.built = 0, !.entries = << >>]
      /\ pass' = [pass EXCEPT !.over = it.built = 0]
      /\ it \in Iterator /\ pass \in Pass /\ StagesInv /\ it.sidx = 0
  BY DEF Return, Running, SelfIdle, LoopInv, StagesInv
<1>2. it.entries \in Seq([addr: Addr, key: Key]) /\ it.stack \in Seq(Key) /\ it.built \in Nat
  BY <1>1 DEF Iterator
<1>3. it.built = 0 <=> it.entries = << >>
  BY <1>1, <1>2
<1>4. PICK pc \in {"user", "delete"}: pc = IF it.built = 0 THEN "user" ELSE it.then
  BY <1>1 DEF Iterator
<1>5. /\ it' \in Iterator /\ it'.pc = pc /\ it'.then = "user" /\ it'.list = it.list
      /\ it'.search = it.search /\ it'.slot = it.slot /\ it'.sidx = 0 /\ it'.t = it.t
      /\ it'.entries = << >> /\ it'.stack = it.stack
  <2>1. << >> \in Seq([addr: Addr, key: Key])
    OBVIOUS
  <2> QED
    BY <1>1, <1>4, <2>1 DEF Iterator
<1>6. PICK over \in BOOLEAN: over <=> it.built = 0
  OBVIOUS
<1>7. /\ pass' \in Pass /\ pass'.kind = pass.kind /\ pass'.steady = pass.steady
      /\ pass'.shown = pass.shown /\ pass'.twice = pass.twice /\ pass'.still = pass.still
      /\ pass'.seen = pass.seen
      /\ pass'.over <=> it.built = 0
  BY <1>1 DEF Pass
<1>8. Quiet
  BY <1>1, CountsQuiet DEF Inv
<1>9. StagesInv'
  BY <1>1, <1>2, <1>4, <1>5, <1>7, <1>8 DEF StagesInv, Quiet
<1>10. ASSUME it.list = "active" PROVE (ItemsInv /\ VisitInv /\ DeletingInv /\ SteadyInv)'
  <2>1. ItemsInv /\ VisitInv /\ DeletingInv /\ SteadyInv
    BY <1>10 DEF LoopInv, ActiveInv
  <2>2. /\ Len(it.stack) = Len(it.entries)
        /\ \A i \in 1..Len(it.stack): it.stack[i] = it.entries[i].key
        /\ \A i, j \in 1..Len(it.entries): it.entries[i].key = it.entries[j].key => i = j
    BY <1>1, <2>1 DEF ItemsInv
  <2>3. Once(it.stack)
    BY <2>2 DEF Once
  <2>4. ItemsInv'
    BY <1>4, <1>5, <2>3 DEF ItemsInv
  <2>5. Pending' = Pending
    <3>1. Pending = {it.stack[i]: i \in 1..Len(it.stack)}
      BY <1>1, <2>2 DEF Pending, Making
    <3>2. Pending' = {it.stack[i]: i \in (0 + 1)..Len(it.stack)}
      BY <1>4, <1>5 DEF Pending, Waiting
    <3> QED
      BY <3>1, <3>2
  <2>6. pass.over => it.built = 0
    <3>1. SUFFICES ASSUME it.built # 0, Pending = {} PROVE FALSE
      BY <2>1 DEF VisitInv
    <3>2. 1 \in 1..Len(it.entries)
      BY <1>1, <1>2, <3>1
    <3>3. it.entries[1].key \in Pending
      BY <1>1, <3>2 DEF Pending, Making
    <3> QED
      BY <3>1, <3>3
  <2>7. DeletingInv'
    BY <1>1, <1>4, <1>5, <1>7, <2>1, <2>6 DEF DeletingInv
  <2>8. it.built = 0 => Pending = {}
    BY <1>1 DEF Pending, Making
  <2>9. VisitInv'
    BY <1>1, <1>3, <1>4, <1>5, <1>7, <2>1, <2>5, <2>8 DEF VisitInv
  <2>10. wr[Self].step # "delete"
    BY <1>1 DEF Idle
  <2>11. SteadyInv'
    BY <1>5, <1>7, <1>8, <2>1, <2>5, <2>10 DEF SteadyInv, Quiet
  <2> QED
    BY <2>4, <2>7, <2>9, <2>11
<1>11. DeletedInv'
  <2>1. SUFFICES ASSUME it.list = "deleted", pass.still PROVE DeletedInv'
    BY <1>5, <1>7 DEF DeletedInv
  <2>2. /\ WantedDeleted' = WantedDeleted /\ next'[Gc] = next[Gc]
        /\ \A n: Behind(n)' = Behind(n)
    BY <1>5, <1>8, SameRemoved DEF Quiet
  <2>3. Behind(2)' = Behind(2) /\ Behind(it.slot + 2)' = Behind(it.slot + 2)
    BY <1>5, <2>2
  <2> QED
    BY <1>1, <1>3, <1>4, <1>5, <1>7, <1>8, <2>1, <2>2, <2>3 DEF LoopInv, DeletedInv, Quiet
<1> QED
  BY <1>5, <1>9, <1>10, <1>11 DEF LoopInv, ActiveInv

\* A chunk is read.
LEMMA FetchChunkLoop ==
  ASSUME Inv, ExactInv, LoopInv, FetchChunk
  PROVE  LoopInv'
<1>1. PICK c: c = Chunk
  OBVIOUS
<1>2. PICK found: found = c.entries
  OBVIOUS
<1>3. PICK es: es = [i \in DOMAIN found |-> [addr |-> found[i], key |-> ent[found[i]].key]]
  OBVIOUS
<1>4. /\ it.pc = "lock" /\ lock = Nobody /\ Idle(Self) /\ Pin(Self, ToSet(found))
      /\ it' = [it EXCEPT !.pc = "build", !.slot = c.slot, !.sidx = 0, !.built = 0, !.t = 0,
                          !.entries = es]
      /\ pass' = IF pass.still THEN [pass EXCEPT !.seen = @ \cup ToSet(found)] ELSE pass
      /\ it \in Iterator /\ pass \in Pass /\ StagesInv
  BY <1>1, <1>2, <1>3 DEF FetchChunk, Running, SelfIdle, LoopInv, StagesInv
<1>5. Lists /\ Loose /\ KeysUnique /\ now \in Nat
  BY DEF Inv, ChainsInv, ExactInv, ProcessTypes
<1>6. it.slot \in Nat /\ it.t \in Nat /\ it.t <= now /\ it.stack \in Seq(Key)
  BY <1>4 DEF Iterator, StagesInv
<1>7. ASSUME it.list = "active"
      PROVE  /\ c.slot \in it.slot..NSlots /\ found = UpTo(c.slot, it.t)
             /\ found = << >> => c.slot = NSlots
             /\ found \in Seq(Addr) /\ Once(found)
             /\ ToSet(found) = {a \in Wanted(it.t): it.slot <= SlotHead(ent[a].key)
                                                      /\ SlotHead(ent[a].key) < c.slot}
  <2>1. it.slot \in 0..NSlots
    BY <1>6, <1>7, SlotNumbers DEF LoopInv, ActiveInv, VisitInv
  <2>2. /\ c.slot \in it.slot..NSlots /\ found = UpTo(c.slot, it.t)
        /\ found = << >> => c.slot = NSlots
    BY <1>1, <1>2, <1>5, <1>7, <2>1, ActiveFinds DEF Chunk
  <2> QED
    BY <1>5, <1>6, <2>2, UpToFinds
<1>8. ASSUME it.list # "active"
      PROVE  c = DeletedChunk /\ found \in Seq(Addr) /\ c.slot = it.slot + Len(found)
  BY <1>1, <1>2, <1>5, <1>6, <1>8, DeletedFinds DEF Chunk
<1>9. found \in Seq(Addr) /\ c.slot \in Nat /\ Len(found) \in Nat
  <2>1. found \in Seq(Addr)
    BY <1>7, <1>8
  <2>2. Len(found) \in Nat
    BY <2>1
  <2> QED
    BY <1>6, <1>7, <1>8, <2>1, <2>2, SlotNumbers
<1>10. DOMAIN found = 1..Len(found)
  BY <1>9
<1>11. ASSUME NEW i \in 1..Len(found)
       PROVE  found[i] \in ToSet(found) /\ found[i] \in Addr /\ ent[found[i]].key \in Key
  <2>1. found[i] \in ToSet(found) /\ found[i] \in Addr
    BY <1>9, <1>10 DEF ToSet
  <2>2. found[i] \in Listed
    BY <1>4, <2>1 DEF Pin
  <2> QED
    BY <1>5, <2>1, <2>2, ListedEntry
<1>12. /\ es \in Seq([addr: Addr, key: Key]) /\ Len(es) = Len(found)
       /\ \A i \in 1..Len(found): es[i].key = ent[found[i]].key
       /\ es = << >> <=> found = << >>
  <2>1. es \in [1..Len(found) -> [addr: Addr, key: Key]]
    BY <1>3, <1>10, <1>11
  <2>2. es \in Seq([addr: Addr, key: Key])
    <3>1. PICK S: S = [addr: Addr, key: Key]
      OBVIOUS
    <3>2. es \in [1..Len(found) -> S]
      BY <2>1, <3>1
    <3>3. es \in Seq(S)
      BY <1>9, <3>2
    <3> QED
      BY <3>1, <3>3
  <2>3. Len(es) = Len(found)
    BY <1>9, <2>1, <2>2
  <2> QED
    BY <1>3, <1>9, <1>10, <2>2, <2>3
<1>13. /\ it' \in Iterator /\ it'.pc = "build" /\ it'.then = it.then /\ it'.list = it.list
       /\ it'.search = it.search /\ it'.slot = c.slot /\ it'.sidx = 0 /\ it'.built = 0
       /\ it'.t = 0 /\ it'.entries = es /\ it'.stack = it.stack
  BY <1>4, <1>9, <1>12 DEF Iterator
<1>14. ToSet(found) \subseteq Addr
  BY <1>10, <1>11 DEF ToSet
<1>15. /\ pass' \in Pass /\ pass'.kind = pass.kind /\ pass'.over = pass.over
       /\ pass'.steady = pass.steady /\ pass'.shown = pass.shown /\ pass'.twice = pass.twice
       /\ pass'.still = pass.still
       /\ pass.still => pass'.seen = pass.seen \cup ToSet(found)
  BY <1>4, <1>14 DEF Pass
<1>16. Quiet
  BY <1>4, CountsQuiet DEF Inv
<1>17. StagesInv'
  BY <1>4, <1>5, <1>9, <1>12, <1>13, <1>15, <1>16 DEF StagesInv, Quiet
<1>18. Pending' = {ent[a].key: a \in ToSet(found)}
  <2>1. Pending' = {es[i].key: i \in 1..Len(es)}
    BY <1>13 DEF Pending, Making
  <2> QED
    BY <1>10, <1>12, <2>1 DEF ToSet
<1>19. ASSUME it.list = "active" PROVE (ItemsInv /\ VisitInv /\ DeletingInv /\ SteadyInv)'
  <2>0. ItemsInv /\ VisitInv /\ DeletingInv /\ SteadyInv
    BY <1>19 DEF LoopInv, ActiveInv
  <2>1. /\ c.slot \in it.slot..NSlots
        /\ found = << >> => c.slot = NSlots
        /\ Once(found)
        /\ ToSet(found) = {a \in Wanted(it.t): it.slot <= SlotHead(ent[a].key)
                                                 /\ SlotHead(ent[a].key) < c.slot}
    BY <1>7, <1>19
  <2>2. it.stack = << >> /\ Len(it.stack) = 0
    BY <1>4, <2>0 DEF ItemsInv
  <2>3. Pending = {}
    <3>1. it.sidx \in Nat
      BY <1>4 DEF Iterator
    <3> QED
      BY <1>4, <2>2, <3>1, NothingWaits DEF Pending
  <2>4. ASSUME NEW i \in 1..Len(es), NEW j \in 1..Len(es), es[i].key = es[j].key PROVE i = j
    <3>1. found[i] \in linked /\ found[j] \in linked
      BY <1>11, <1>12, <2>1 DEF Wanted
    <3>2. found[i] = found[j]
      BY <1>5, <1>12, <2>4, <3>1 DEF KeysUnique
    <3> QED
      BY <1>12, <2>1, <3>2 DEF Once
  <2>5. ItemsInv'
    <3>1. \A i \in 1..0: FALSE
      OBVIOUS
    <3> QED
      BY <1>13, <2>2, <2>4, <3>1 DEF ItemsInv
  <2>6. DeletingInv'
    BY <1>4, <1>13, <1>15, <2>0 DEF DeletingInv
  <2>7. \A k \in Pending': k \in Key /\ it.slot <= SlotOf[k] /\ SlotOf[k] < c.slot
    <3>1. \A a \in ToSet(found): ent[a].key \in Key
      BY <1>10, <1>11 DEF ToSet
    <3> QED
      BY <1>18, <2>1, <3>1 DEF SlotHead
  <2>8. \A k \in pass.shown: k \in Key /\ SlotOf[k] < it.slot
    BY <1>4, <2>0 DEF VisitInv, Pass
  <2>9. c.slot \in Nat /\ it.slot <= c.slot /\ c.slot <= NSlots /\ NSlots \in Nat
    BY <1>6, <2>1, SlotNumbers
  <2>10. \A k \in Key: SlotOf[k] \in Nat
    BY SlotNumbers
  <2>11. \A k \in Pending' \cup pass.shown: SlotOf[k] < c.slot
    BY <1>6, <2>7, <2>8, <2>9, <2>10
  <2>12. Pending' \cap pass.shown = {}
    BY <1>6, <2>7, <2>8, <2>10
  <2>13. pass.over => c.slot = NSlots /\ Pending' = {}
    <3>1. SUFFICES ASSUME it.slot = NSlots PROVE c.slot = NSlots /\ Pending' = {}
      BY <2>0 DEF VisitInv
    <3>2. c.slot = NSlots
      BY <2>9, <3>1
    <3> QED
      BY <1>6, <2>7, <2>10, <3>1, <3>2
  <2>14. VisitInv'
    BY <1>12, <1>13, <1>15, <2>0, <2>1, <2>9, <2>11, <2>12, <2>13 DEF VisitInv
  <2>15. ASSUME NEW k \in pass.steady \cap it.search, SlotOf[k] < c.slot, k \notin Pending'
         PROVE  pass.kind # "delete" /\ k \in pass.shown
    <3>1. CASE SlotOf[k] < it.slot
      <4>1. wr[Self].step # "delete"
        BY <1>4 DEF Idle
      <4> QED
        BY <2>0, <2>3, <2>15, <3>1, <4>1 DEF SteadyInv
    <3>2. CASE ~(SlotOf[k] < it.slot)
      <4>1. k \in LiveKeys
        BY <1>4, <2>0, <2>15 DEF SteadyInv
      <4>2. PICK a \in linked: ent[a].key = k /\ ~HardExpired(ent[a], now)
        BY <4>1 DEF LiveKeys
      <4>3. a \in Listed /\ ent[a] \in Entry /\ k \in Key
        BY <1>5, <4>2, ListedEntry DEF Listed
      <4>4. ~HardExpired(ent[a], it.t)
        BY <1>5, <1>6, <4>2, <4>3 DEF HardExpired, Entry
      <4>5. a \in Wanted(it.t)
        BY <2>15, <4>2, <4>4 DEF Wanted, CheckExpiry, SearchMatch
      <4>6. it.slot <= SlotHead(ent[a].key) /\ SlotHead(ent[a].key) < c.slot
        BY <1>6, <2>10, <2>15, <3>2, <4>2, <4>3 DEF SlotHead
      <4>7. k \in Pending'
        BY <1>18, <2>1, <4>2, <4>5, <4>6
      <4> QED
        BY <2>15, <4>7
    <3> QED
      BY <3>1, <3>2
  <2>16. SteadyInv'
    BY <1>13, <1>15, <1>16, <2>0, <2>15 DEF SteadyInv, Quiet
  <2> QED
    BY <2>5, <2>6, <2>14, <2>16
<1>20. DeletedInv'
  <2>1. SUFFICES ASSUME it.list = "deleted", pass.still PROVE DeletedInv'
    BY <1>13, <1>15 DEF DeletedInv
  <2>2. PICK gc: gc = Chain(Gc)
    OBVIOUS
  <2>3. /\ c.slot = it.slot + Len(found)
        /\ ToSet(found) \subseteq WantedDeleted \ {next[Gc]}
        /\ \A j \in 1..Len(gc):
             it.slot + 2 <= j /\ j <= c.slot + 1 /\ gc[j] \in WantedDeleted => gc[j] \in ToSet(found)
        /\ found = << >> => \A j \in 1..Len(gc): it.slot + 2 <= j => gc[j] \notin WantedDeleted
    BY <1>2, <1>5, <1>6, <1>8, <2>1, <2>2, DeletedFinds
  <2>4. /\ WantedDeleted' = WantedDeleted /\ next'[Gc] = next[Gc] /\ Chain(Gc)' = gc
        /\ \A n: Behind(n)' = Behind(n)
    BY <1>13, <1>16, <2>2, SameRemoved DEF Quiet
  <2>5. \A n: Behind(n) = {j \in 1..Len(gc): n <= j /\ gc[j] \in WantedDeleted}
    BY <2>2 DEF Behind
  <2>6. /\ pass.seen \subseteq WantedDeleted \ {next[Gc]}
        /\ \A j \in Behind(2) \ Behind(it.slot + 2): gc[j] \in pass.seen
        /\ pass.over => Behind(it.slot + 2) = {}
    BY <2>1, <2>2 DEF LoopInv, DeletedInv
  <2>7. pass'.seen = pass.seen \cup ToSet(found)
    BY <1>15, <2>1
  <2>8. Len(gc) \in Nat
    <3>1. Gc \in HeadCell
      BY SlotAssumption DEF HeadCell, Gc
    <3>2. gc \in Seq(Addr)
      BY <1>5, <2>2, <3>1, ChainOnce
    <3> QED
      BY <3>2
  <2>9. ASSUME NEW j \in Behind(2) \ Behind(c.slot + 2) PROVE gc[j] \in pass'.seen
    <3>1. /\ j \in 1..Len(gc) /\ 2 <= j /\ gc[j] \in WantedDeleted /\ ~(c.slot + 2 <= j)
      BY <2>5
    <3>2. CASE it.slot + 2 <= j
      <4>1. j <= c.slot + 1
        BY <1>9, <2>8, <3>1
      <4> QED
        BY <2>3, <2>7, <3>1, <3>2, <4>1
    <3>3. CASE ~(it.slot + 2 <= j)
      <4>1. j \in Behind(2) \ Behind(it.slot + 2)
        BY <2>5, <3>3
      <4> QED
        BY <2>6, <2>7, <4>1
    <3> QED
      BY <3>2, <3>3
  <2>10. Behind(c.slot + 2) \subseteq Behind(it.slot + 2)
    <3> SUFFICES ASSUME NEW j \in Behind(c.slot + 2) PROVE j \in Behind(it.slot + 2)
      OBVIOUS
    <3>1. j \in 1..Len(gc) /\ c.slot + 2 <= j /\ gc[j] \in WantedDeleted
      BY <2>5
    <3>2. it.slot + 2 <= j
      BY <1>6, <1>9, <2>3, <2>8, <3>1
    <3> QED
      BY <2>5, <3>1, <3>2
  <2>11. found = << >> => Behind(it.slot + 2) = {}
    BY <2>3, <2>5
  <2>12. /\ Behind(2)' = Behind(2) /\ Behind(c.slot + 2)' = Behind(c.slot + 2)
    BY <2>4
  <2>13. pass'.seen \subseteq WantedDeleted \ {next[Gc]}
    BY <2>3, <2>6, <2>7
  <2>14. pass.over \/ es = << >> => Behind(c.slot + 2) = {}
    BY <1>12, <2>6, <2>10, <2>11
  <2> QED
    BY <1>13, <1>15, <2>4, <2>9, <2>12, <2>13, <2>14 DEF DeletedInv
<1> QED
  BY <1>13, <1>17, <1>19, <1>20 DEF LoopInv, ActiveInv

\* What a loop has to show stays in view, in every step.
LEMMA LoopNext ==
  ASSUME Inv, ExactInv, LoopInv, [Next]_vars, Inv', ExactInv'
  PROVE  LoopInv'
<1>1. CASE CacheStep
  BY <1>1, CacheStepLoop
<1>2. CASE FreeIterator \/ BuildBailout
  <2>1. it' = NoIterator /\ pass' = NoPass
    BY <1>2 DEF FreeIterator, BuildBailout
  <2>2. now' \in Nat
    BY DEF Inv, ChainsInv, ProcessTypes
  <2> QED
    BY <2>1, <2>2, BlankLoop
<1>3. CASE \/ Construct \/ Rewind \/ Valid \/ NextItem \/ FetchChunk \/ BuildItem \/ Return
           \/ Delete \/ DeleteItem \/ DeleteFetch
  BY <1>3, ConstructLoop, RewindLoop, FetchOnLoop, NextItemLoop, FetchChunkLoop, BuildItemLoop,
     ReturnLoop, DeleteLoop, DeleteItemLoop
<1>4. CASE UNCHANGED vars
  <2>1. UNCHANGED chainVars /\ it' = it /\ pass' = pass
    BY <1>4 DEF vars
  <2>2. Quiet
    BY <2>1, MethodQuiet
  <2>3. Pending' = Pending
    BY <2>1 DEF Pending, Making, Waiting
  <2>4. StagesInv'
    BY <2>1, <2>2 DEF LoopInv, StagesInv, Quiet
  <2>5. it.list = "active" => (ItemsInv /\ VisitInv /\ DeletingInv)'
    BY <2>1, <2>3 DEF LoopInv, ActiveInv, ItemsInv, VisitInv, DeletingInv
  <2>6. it.list = "active" => SteadyInv'
    BY <2>1, <2>2, <2>3 DEF LoopInv, ActiveInv, SteadyInv, Quiet
  <2>7. DeletedInv'
    <3>1. /\ WantedDeleted' = WantedDeleted /\ next'[Gc] = next[Gc]
          /\ \A n: Behind(n)' = Behind(n)
      BY <2>1, <2>2, SameRemoved DEF Quiet
    <3>2. Behind(2)' = Behind(2) /\ Behind(it.slot + 2)' = Behind(it.slot + 2)
      BY <2>1, <3>1
    <3> QED
      BY <2>1, <2>2, <3>1, <3>2 DEF LoopInv, DeletedInv, Quiet
  <2> QED
    BY <2>1, <2>4, <2>5, <2>6, <2>7 DEF LoopInv, ActiveInv
<1> QED
  BY <1>1, <1>2, <1>3, <1>4 DEF Next, IteratorStep

\* All that is known of the iterator and the chains.
LEMMA LoopAlways == Spec => [](Inv /\ ExactInv /\ LoopInv)
<1>1. Init => ExactInv /\ LoopInv
  <2> SUFFICES ASSUME Init PROVE ExactInv /\ LoopInv
    OBVIOUS
  <2>1. /\ it = NoIterator /\ pass = NoPass /\ ChainsInit /\ now = 0
    BY DEF Init, ChainsInit
  <2>2. /\ NoIterator \in Iterator /\ NoIterator.pc = "none" /\ NoIterator.then = "user"
        /\ NoIterator.list = "active" /\ NoIterator.search = {} /\ NoIterator.slot = 0
        /\ NoIterator.t = 0 /\ NoIterator.stack = << >> /\ NoIterator.sidx = 0
    BY DEF NoIterator, Iterator
  <2>3. /\ NoPass \in Pass /\ NoPass.kind = "none" /\ ~NoPass.over /\ NoPass.steady = {}
        /\ NoPass.shown = {} /\ ~NoPass.twice
    BY DEF NoPass, Pass
  <2>4. StagesInv
    BY <2>1, <2>2, <2>3 DEF StagesInv
  <2>5. Pending = {}
    BY <2>1, <2>2, NothingWaits DEF Pending
  <2>6. Once(<< >>)
    BY DEF Once
  <2>7. ItemsInv /\ DeletingInv /\ SteadyInv
    BY <2>1, <2>2, <2>3, <2>6 DEF ItemsInv, DeletingInv, SteadyInv
  <2>8. VisitInv
    BY <2>1, <2>2, <2>3, <2>5, SlotNumbers DEF VisitInv
  <2>9. DeletedInv
    BY <2>1, <2>2 DEF DeletedInv
  <2> QED
    BY <2>1, <2>4, <2>7, <2>8, <2>9, ExactInit DEF LoopInv, ActiveInv
<1>2. Inv /\ ExactInv /\ LoopInv /\ Inv' /\ [Next]_vars => (ExactInv /\ LoopInv)'
  <2> SUFFICES ASSUME Inv, ExactInv, LoopInv, Inv', [Next]_vars PROVE (ExactInv /\ LoopInv)'
    OBVIOUS
  <2>1. [ChainsStep]_chainVars
    BY IteratorOnChains, CacheOnChains DEF Next, vars
  <2>2. ExactInv'
    BY <2>1, ExactNext DEF Inv
  <2> QED
    BY <2>2, LoopNext
<1> QED
  BY <1>1, <1>2, InvAlways, PTL DEF Spec

\* The members of a sequence.
LEMMA MembersIn ==
  ASSUME NEW S, NEW s \in Seq(S)
  PROVE  ToSet(s) \subseteq S
<1>1. DOMAIN s = 1..Len(s)
  OBVIOUS
<1> QED
  BY <1>1 DEF ToSet

\* The chains are of their types, and mem_size does not go below zero.
LEMMA ChainsTyped ==
  ASSUME ChainsInv, ExactInv
  PROVE  ChainsTypeOK
<1>1. Lists /\ ProcessTypes /\ SizeExact
  BY DEF ChainsInv, ExactInv
<1>2. memSize \in Nat
  BY <1>1, LinkedWeigh, BytesAre, BytesTakes DEF SizeExact
<1> QED
  BY <1>1, <1>2 DEF ChainsTypeOK, Lists, PointersType, ProcessTypes

\* The iterator is of its type, its items are those of its entries, and its position never
\* runs past them (apc_iterator.c:226-250).
THEOREM IteratorTyped == Spec => []TypeOK
<1>1. Inv /\ LoopInv /\ ExactInv => TypeOK
  <2> SUFFICES ASSUME Inv, LoopInv, ExactInv PROVE TypeOK
    OBVIOUS
  <2>1. ChainsTypeOK
    BY ChainsTyped DEF Inv
  <2>2. it \in Iterator /\ pass \in Pass /\ (it.pc \in {"user", "delete"} => it.sidx <= Len(it.stack))
    BY DEF LoopInv, StagesInv
  <2>3. ToSet(it.entries) \subseteq [addr: Addr, key: Key] /\ ToSet(it.stack) \subseteq Key
    <3>1. it.entries \in Seq([addr: Addr, key: Key]) /\ it.stack \in Seq(Key)
      BY <2>2 DEF Iterator
    <3> QED
      BY <3>1, MembersIn
  <2>4. /\ it.pc \in {"none", "user", "lock", "build", "delete"} /\ it.then \in {"user", "delete"}
        /\ it.list \in {"active", "deleted"} /\ it.search \in SUBSET Key
        /\ it.slot \in Nat /\ it.sidx \in Nat /\ it.built \in Nat /\ it.t \in Nat
    BY <2>2 DEF Iterator
  <2> QED
    BY <2>1, <2>2, <2>3, <2>4 DEF TypeOK
<1> QED
  BY <1>1, LoopAlways, PTL

\* A loop over the active list visits every matching key that the cache has held all the
\* time, none twice, and apcu_delete leaves none of them, whatever the other processes and
\* user code do (apc_iterator.c:226-240).
THEOREM PassesComplete == Spec => []PassComplete
<1>1. LoopInv => PassComplete
  <2> SUFFICES ASSUME LoopInv, it.list = "active"
               PROVE  /\ ~pass.twice
                      /\ pass.over => pass.steady \cap it.search \subseteq
                                        IF pass.kind = "delete" THEN {} ELSE pass.shown
    BY DEF PassComplete
  <2>1. VisitInv /\ SteadyInv /\ pass \in Pass
    BY DEF LoopInv, ActiveInv, StagesInv
  <2>2. ~pass.twice
    BY <2>1 DEF VisitInv
  <2>3. ASSUME pass.over, NEW k \in pass.steady \cap it.search
        PROVE  pass.kind # "delete" /\ k \in pass.shown
    <3>1. k \in Key /\ SlotOf[k] < NSlots
      BY <2>1, SlotNumbers DEF Pass
    <3>2. SlotOf[k] < it.slot /\ k \notin Pending
      BY <2>1, <2>3, <3>1 DEF VisitInv
    <3> QED
      BY <2>1, <2>3, <3>2 DEF SteadyInv
  <2> QED
    BY <2>2, <2>3
<1> QED
  BY <1>1, LoopAlways, PTL

\* A loop over the removed entries shows all but the newest, as long as their list is the
\* same (apc_iterator.c:273).
THEOREM DeletedTailShown == Spec => []DeletedTail
<1>1. Inv /\ ExactInv /\ LoopInv => DeletedTail
  <2> SUFFICES ASSUME Inv, ExactInv, LoopInv, it.list = "deleted", pass.over, pass.still
               PROVE  pass.seen = {a \in removed \ {next[Gc]}: SearchMatch(a)}
    BY DEF DeletedTail
  <2>1. PICK gc: gc = Chain(Gc)
    OBVIOUS
  <2>2. Gc \in HeadCell /\ Gc \in Cell /\ Lists /\ Loose
    BY SlotAssumption, CellFacts DEF HeadCell, Gc, Inv, ChainsInv, ExactInv
  <2>3. gc \in Seq(Addr) /\ ToSet(gc) = removed
    BY <2>1, <2>2, ChainOnce
  <2>4. /\ pass.seen \subseteq WantedDeleted \ {next[Gc]}
        /\ \A j \in Behind(2) \ Behind(it.slot + 2): gc[j] \in pass.seen
        /\ Behind(it.slot + 2) = {}
    BY <2>1 DEF LoopInv, DeletedInv
  <2>5. ASSUME NEW a \in WantedDeleted, a # next[Gc] PROVE a \in pass.seen
    <3>1. PICK j \in 1..Len(gc): gc[j] = a
      <4>1. DOMAIN gc = 1..Len(gc)
        BY <2>3
      <4> QED
        BY <2>3, <4>1 DEF ToSet, WantedDeleted
    <3>2. next[Gc] # Null
      <4>1. gc # << >>
        BY <2>3, <3>1
      <4> QED
        BY <4>1, <2>1, <2>2, ChainWalk
    <3>3. PICK tail \in Seq(Addr): gc = <<next[Gc]>> \o tail
      <4>1. next[Gc] \in Addr /\ next[Gc] \in Cell
        BY <3>2, <2>2, ChainWalk, CellFacts
      <4> QED
        BY <4>1, <3>2, <2>1, <2>2, ChainWalk
    <3>4. gc[1] = next[Gc]
      BY <3>3
    <3>5. 2 <= j
      BY <2>5, <3>1, <3>4
    <3>6. j \in Behind(2)
      BY <2>1, <2>5, <3>1, <3>5 DEF Behind
    <3> QED
      BY <2>4, <3>1, <3>6
  <2> QED
    BY <2>4, <2>5 DEF WantedDeleted
<1> QED
  BY <1>1, LoopAlways, PTL
=============================================================================

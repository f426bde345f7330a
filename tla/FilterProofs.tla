---------------------------- MODULE FilterProofs ----------------------------
(***************************************************************************)
(* What Picked and Only leave of a sequence: its type, where it comes from,*)
(* what one value more does, that it is taken apart like the sequence, and *)
(* that values which are not kept do not matter.  The values of a function *)
(* that is defined by the one before are reasoned about through the least  *)
(* number at which a claim fails.                                          *)
(***************************************************************************)
EXTENDS Filter, TLAPS, WellFoundedInduction, SequenceTheorems

\* The order of the numbers, as a relation.
Less == {p \in Nat \X Nat : p[1] < p[2]}

\* A set of numbers that is not empty has a least one.
LEMMA Least ==
  ASSUME NEW S, S \subseteq Nat, S # {}
  PROVE  \E n \in S : \A m \in S : n <= m
<1>1. IsWellFoundedOn(Less, Nat)
  BY NatLessThanWellFounded DEF OpToRel, Less
<1>2. PICK n \in S : \A m \in S : <<m, n>> \notin Less
  BY <1>1, WFMin
<1>3. ASSUME NEW m \in S PROVE n <= m
  <2>1. <<m, n>> \in Less <=> m < n
    BY DEF Less
  <2> QED BY <1>2, <2>1
<1> QED BY <1>3

\* A set of numbers up to n that is not empty has a greatest one.
LEMMA Greatest ==
  ASSUME NEW n \in Nat, NEW S, S \subseteq 1..n, S # {}
  PROVE  \E i \in S : \A j \in S : j <= i
<1> DEFINE T == {n - i : i \in S}
<1>1. T \subseteq Nat /\ T # {}
  <2>1. ASSUME NEW i \in S PROVE n - i \in Nat
    <3>1. i \in 1..n
      OBVIOUS
    <3> QED BY <3>1
  <2> QED BY <2>1
<1>2. PICK t \in T : \A u \in T : t <= u
  BY <1>1, Least
<1>3. PICK i \in S : t = n - i
  OBVIOUS
<1>4. ASSUME NEW j \in S PROVE j <= i
  <2>1. n - j \in T
    OBVIOUS
  <2>2. n - i <= n - j
    BY <1>2, <1>3, <2>1
  <2>3. i \in 1..n /\ j \in 1..n
    OBVIOUS
  <2> HIDE DEF T
  <2> QED BY <2>2, <2>3
<1> QED BY <1>4

\* One step of the function that Picked is the last value of.
FilterStep(s, kept, g, n) ==
  IF n = 0 THEN <<>>
  ELSE IF n \in kept THEN Append(g[n - 1], s[n]) ELSE g[n - 1]

IsUpTo(s, kept, g, k) == g = [n \in 0..k |-> FilterStep(s, kept, g, n)]

\* Each value of such a function comes from the one before.
LEMMA UpToStep ==
  ASSUME NEW s, NEW kept, NEW g, NEW k \in Nat, IsUpTo(s, kept, g, k), NEW n \in 0..k
  PROVE  g[n] = FilterStep(s, kept, g, n)
<1> DEFINE F(x) == FilterStep(s, kept, g, x)
<1>1. g = [x \in 0..k |-> F(x)]
  BY DEF IsUpTo
<1> HIDE DEF F
<1>2. g[n] = F(n)
  BY <1>1
<1> QED BY <1>2 DEF F

\* There is such a function for any number of values looked at.
LEMMA UpToExists ==
  ASSUME NEW s, NEW kept, NEW k \in Nat
  PROVE  \E g : IsUpTo(s, kept, g, k)
<1> DEFINE Bad == {n \in Nat : ~\E g : IsUpTo(s, kept, g, n)}
<1>1. SUFFICES ASSUME Bad # {} PROVE FALSE
  OBVIOUS
<1>2. PICK m \in Bad : \A n \in Bad : m <= n
  BY <1>1, Least
<1>3. m # 0
  <2>1. IsUpTo(s, kept, [n \in 0..0 |-> <<>>], 0)
    BY DEF IsUpTo, FilterStep
  <2> QED BY <2>1
<1>4. PICK g : IsUpTo(s, kept, g, m - 1)
  BY <1>2, <1>3
<1> DEFINE h == [n \in 0..m |-> IF n = m THEN FilterStep(s, kept, g, m) ELSE g[n]]
<1>5. IsUpTo(s, kept, h, m)
  <2>1. ASSUME NEW n \in 0..m PROVE h[n] = FilterStep(s, kept, h, n)
    <3>1. CASE n = m
      BY <3>1, <1>3 DEF FilterStep
    <3>2. CASE n # m
      <4>1. n \in 0..(m - 1) /\ h[n] = g[n] /\ g[n] = FilterStep(s, kept, g, n)
        BY <3>2, <1>3, <1>4 DEF IsUpTo
      <4>2. n # 0 => h[n - 1] = g[n - 1]
        BY <3>2, <1>3
      <4> QED BY <4>1, <4>2 DEF FilterStep
    <3> QED BY <3>1, <3>2
  <2> QED BY <2>1 DEF IsUpTo
<1> QED BY <1>5

\* Functions of sequences that agree so far on what is kept agree so far.
LEMMA UpToAgrees ==
  ASSUME NEW s, NEW r, NEW kept, NEW left, NEW g, NEW h, NEW j \in Nat, NEW k \in Nat, j <= k,
         IsUpTo(s, kept, g, j), IsUpTo(r, left, h, k),
         \A n \in 1..j : (n \in kept <=> n \in left) /\ (n \in kept => s[n] = r[n])
  PROVE  g[j] = h[j]
<1> DEFINE Bad == {n \in 0..j : g[n] # h[n]}
<1>1. SUFFICES ASSUME Bad # {} PROVE FALSE
  OBVIOUS
<1>2. PICK m \in Bad : \A n \in Bad : m <= n
  <2>1. Bad \subseteq Nat
    OBVIOUS
  <2> QED BY <1>1, <2>1, Least
<1>3. g[m] = FilterStep(s, kept, g, m) /\ h[m] = FilterStep(r, left, h, m)
  <2>1. m \in 0..j /\ m \in 0..k
    OBVIOUS
  <2> QED BY <2>1, UpToStep
<1>4. m # 0
  BY <1>3 DEF FilterStep
<1>5. m - 1 \in 0..j /\ g[m - 1] = h[m - 1]
  BY <1>2, <1>4
<1>6. (m \in kept <=> m \in left) /\ (m \in kept => s[m] = r[m])
  BY <1>4
<1> QED BY <1>3, <1>5, <1>6 DEF FilterStep

\* Picked is the last value of such a function.
LEMMA PickedIs ==
  ASSUME NEW s, Len(s) \in Nat, NEW kept
  PROVE  \E g : IsUpTo(s, kept, g, Len(s)) /\ Picked(s, kept) = g[Len(s)]
<1> DEFINE f == CHOOSE g : IsUpTo(s, kept, g, Len(s))
<1>1. IsUpTo(s, kept, f, Len(s))
  BY UpToExists
<1>2. Picked(s, kept) = f[Len(s)]
  BY DEF Picked, IsUpTo, FilterStep
<1> QED BY <1>1, <1>2

\* Sequences that agree on what is kept leave the same.
LEMMA PickedAgrees ==
  ASSUME NEW S, NEW s \in Seq(S), NEW R, NEW r \in Seq(R), Len(r) = Len(s), NEW kept, NEW left,
         \A n \in 1..Len(s) : (n \in kept <=> n \in left) /\ (n \in kept => s[n] = r[n])
  PROVE  Picked(s, kept) = Picked(r, left)
<1>1. Len(s) \in Nat /\ Len(r) = Len(s)
  OBVIOUS
<1>2. PICK g : IsUpTo(s, kept, g, Len(s)) /\ Picked(s, kept) = g[Len(s)]
  BY <1>1, PickedIs
<1>3. PICK h : IsUpTo(r, left, h, Len(r)) /\ Picked(r, left) = h[Len(r)]
  BY <1>1, PickedIs
<1>4. g[Len(s)] = h[Len(s)]
  BY <1>1, <1>2, <1>3, UpToAgrees
<1> QED BY <1>1, <1>2, <1>3, <1>4

\* The places that t comes from, of the first n values of s: kept ones, in
\* order, all of them.
ComesFrom(t, s, kept, n, m) ==
  /\ m \in [1..Len(t) -> kept \cap (1..n)]
  /\ \A j \in 1..Len(t) : t[j] = s[m[j]]
  /\ \A j, k \in 1..Len(t) : j < k => m[j] < m[k]
  /\ \A i \in kept \cap (1..n) : \E j \in 1..Len(t) : m[j] = i

\* One value more, which is kept.
LEMMA ComesFromMore ==
  ASSUME NEW S, NEW s \in Seq(S), NEW kept, NEW n \in 1..Len(s), n \in kept,
         NEW t \in Seq(S), NEW m, ComesFrom(t, s, kept, n - 1, m)
  PROVE  \E w : ComesFrom(Append(t, s[n]), s, kept, n, w)
<1> DEFINE L == Len(t)
           u == Append(t, s[n])
           w == [j \in 1..(L + 1) |-> IF j = L + 1 THEN n ELSE m[j]]
<1>1. L \in Nat /\ Len(u) = L + 1 /\ s[n] \in S /\ u[L + 1] = s[n] /\ \A j \in 1..L : u[j] = t[j]
  OBVIOUS
<1>2. /\ \A j \in 1..L : m[j] \in kept /\ m[j] \in 1..(n - 1) /\ t[j] = s[m[j]]
      /\ \A j, k \in 1..L : j < k => m[j] < m[k]
      /\ \A i \in kept \cap (1..(n - 1)) : \E j \in 1..L : m[j] = i
  BY DEF ComesFrom
<1> HIDE DEF u, L
<1>3. \A j \in 1..(L + 1) : j = L + 1 \/ j \in 1..L
  BY <1>1
<1>4. w \in [1..(L + 1) -> kept \cap (1..n)]
  BY <1>1, <1>2, <1>3
<1>5. \A j \in 1..(L + 1) : u[j] = s[w[j]]
  BY <1>1, <1>2, <1>3
<1>6. \A j, k \in 1..(L + 1) : j < k => w[j] < w[k]
  <2> SUFFICES ASSUME NEW j \in 1..(L + 1), NEW k \in 1..(L + 1), j < k PROVE w[j] < w[k]
    OBVIOUS
  <2>1. j \in 1..L /\ w[j] = m[j] /\ m[j] \in 1..(n - 1)
    BY <1>1, <1>2
  <2> QED BY <1>1, <1>2, <1>3, <2>1
<1>7. \A i \in kept \cap (1..n) : \E j \in 1..(L + 1) : w[j] = i
  <2> SUFFICES ASSUME NEW i \in kept, i \in 1..n PROVE \E j \in 1..(L + 1) : w[j] = i
    OBVIOUS
  <2>1. CASE i = n
    <3>1. L + 1 \in 1..(L + 1) /\ w[L + 1] = n
      BY <1>1
    <3> QED BY <2>1, <3>1
  <2>2. CASE i # n
    <3>1. i \in 1..(n - 1)
      BY <2>2
    <3>2. PICK j \in 1..L : m[j] = i
      BY <1>2, <3>1
    <3>3. j \in 1..(L + 1) /\ w[j] = i
      BY <1>1, <3>2
    <3> QED BY <3>3
  <2> QED BY <2>1, <2>2
<1>8. ComesFrom(u, s, kept, n, w)
  BY <1>1, <1>4, <1>5, <1>6, <1>7 DEF ComesFrom
<1> QED BY <1>8 DEF u

\* What is left comes from the kept places.
THEOREM PickedPlaces ==
  ASSUME NEW S, NEW s \in Seq(S), NEW kept
  PROVE  /\ Picked(s, kept) \in Seq(S)
         /\ \E m : ComesFrom(Picked(s, kept), s, kept, Len(s), m)
<1>1. PICK g : IsUpTo(s, kept, g, Len(s)) /\ Picked(s, kept) = g[Len(s)]
  BY PickedIs
<1> DEFINE Good(n) == g[n] \in Seq(S) /\ \E m : ComesFrom(g[n], s, kept, n, m)
           Bad == {n \in 0..Len(s) : ~Good(n)}
<1>2. SUFFICES ASSUME Bad # {} PROVE FALSE
  <2>1. Len(s) \in 0..Len(s)
    OBVIOUS
  <2> QED BY <1>1, <2>1
<1>3. PICK n \in Bad : \A k \in Bad : n <= k
  <2>1. Bad \subseteq Nat
    OBVIOUS
  <2> QED BY <1>2, <2>1, Least
<1>4. n \in 0..Len(s) /\ ~Good(n) /\ g[n] = FilterStep(s, kept, g, n)
  BY <1>1, UpToStep
<1>5. n # 0
  <2>1. ComesFrom(<<>>, s, kept, 0, <<>>)
    BY DEF ComesFrom
  <2>2. n = 0 => g[n] = <<>>
    BY <1>4 DEF FilterStep
  <2>3. <<>> \in Seq(S)
    OBVIOUS
  <2> QED BY <1>4, <2>1, <2>2, <2>3
<1>6. n \in 1..Len(s) /\ n - 1 \in 0..Len(s) /\ Good(n - 1)
  <2>1. n - 1 \in 0..Len(s) /\ ~(n <= n - 1)
    BY <1>4, <1>5
  <2> QED BY <1>3, <1>4, <1>5, <2>1
<1>7. PICK m : ComesFrom(g[n - 1], s, kept, n - 1, m)
  BY <1>6
<1>8. CASE n \in kept
  <2>1. g[n] = Append(g[n - 1], s[n])
    BY <1>4, <1>5, <1>8 DEF FilterStep
  <2>2. \E w : ComesFrom(g[n], s, kept, n, w)
    <3> DEFINE t == g[n - 1]
    <3>1. t \in Seq(S) /\ ComesFrom(t, s, kept, n - 1, m)
      BY <1>6, <1>7
    <3> HIDE DEF t
    <3>2. \E w : ComesFrom(Append(t, s[n]), s, kept, n, w)
      BY <1>6, <1>8, <3>1, ComesFromMore
    <3> QED BY <2>1, <3>2 DEF t
  <2>3. g[n] \in Seq(S)
    BY <1>6, <2>1
  <2> QED BY <1>4, <2>2, <2>3
<1>9. CASE n \notin kept
  <2>1. g[n] = g[n - 1]
    BY <1>4, <1>5, <1>9 DEF FilterStep
  <2>2. kept \cap (1..n) = kept \cap (1..(n - 1))
    BY <1>6, <1>9
  <2>3. ComesFrom(g[n], s, kept, n, m)
    BY <1>7, <2>1, <2>2 DEF ComesFrom
  <2> QED BY <1>4, <1>6, <2>1, <2>3
<1> QED BY <1>8, <1>9

\* What is appended to the second of two sequences is appended to both together.
LEMMA ConcatAppend ==
  ASSUME NEW S, NEW s \in Seq(S), NEW t \in Seq(S), NEW x \in S
  PROVE  s \o Append(t, x) = Append(s \o t, x)
<1>1. <<x>> \in Seq(S) /\ s \o t \in Seq(S)
  BY ConcatProperties
<1>2. s \o (t \o <<x>>) = (s \o t) \o <<x>>
  BY <1>1, ConcatAssociative
<1> QED BY <1>1, <1>2, AppendIsConcat

\* The kept places of a second part of length n, after a first one of length k.
Beyond(kept, k, n) == {i \in 1..n : k + i \in kept}

\* A sequence is filtered part by part.
THEOREM PickedOfConcat ==
  ASSUME NEW S, NEW a \in Seq(S), NEW b \in Seq(S), NEW kept
  PROVE  Picked(a \o b, kept) =
           Picked(a, kept) \o Picked(b, Beyond(kept, Len(a), Len(b)))
<1> DEFINE c == a \o b
           later == Beyond(kept, Len(a), Len(b))
<1>1. /\ Len(a) \in Nat /\ Len(b) \in Nat /\ Len(c) \in Nat /\ Len(c) = Len(a) + Len(b)
      /\ \A n \in 1..Len(a) : c[n] = a[n]
      /\ \A n \in 1..Len(b) : c[Len(a) + n] = b[n]
  OBVIOUS
<1> HIDE DEF c
<1>2. PICK g : IsUpTo(a, kept, g, Len(a)) /\ Picked(a, kept) = g[Len(a)]
  BY <1>1, PickedIs
<1>3. PICK h : IsUpTo(b, later, h, Len(b)) /\ Picked(b, later) = h[Len(b)]
  BY <1>1, PickedIs
<1>4. PICK f : IsUpTo(c, kept, f, Len(c)) /\ Picked(c, kept) = f[Len(c)]
  BY <1>1, PickedIs
<1>5. f[Len(a)] = g[Len(a)]
  <2>1. \A n \in 1..Len(a) : (n \in kept <=> n \in kept) /\ (n \in kept => a[n] = c[n])
    BY <1>1
  <2>2. Len(a) <= Len(c)
    BY <1>1
  <2> QED BY <1>1, <1>2, <1>4, <2>1, <2>2, UpToAgrees
<1>6. Picked(a, kept) \in Seq(S)
  BY PickedPlaces
<1> DEFINE p == Picked(a, kept)
<1> HIDE DEF p, later
<1> DEFINE Good(n) == h[n] \in Seq(S) /\ f[Len(a) + n] = p \o h[n]
           Bad == {n \in 0..Len(b) : ~Good(n)}
<1>7. Bad = {}
  <2> SUFFICES ASSUME Bad # {} PROVE FALSE
    OBVIOUS
  <2>1. PICK n \in Bad : \A k \in Bad : n <= k
    <3>1. Bad \subseteq Nat
      OBVIOUS
    <3> QED BY <3>1, Least
  <2>2. n \in 0..Len(b) /\ n \in Nat /\ Len(b) \in Nat
    BY <1>1
  <2>a. ~Good(n)
    OBVIOUS
  <2> HIDE DEF Good
  <2>b. \A k \in 0..Len(b) : k < n => Good(k)
    <3>1. ASSUME NEW k \in 0..Len(b), k < n PROVE k \notin Bad
      <4>1. k \in Nat /\ ~(n <= k)
        BY <2>2, <3>1
      <4> HIDE DEF Bad
      <4> QED BY <2>1, <4>1
    <3> QED BY <3>1
  <2> HIDE DEF Bad
  <2>c. h[n] = FilterStep(b, later, h, n)
    BY <1>1, <1>3, <2>2, UpToStep
  <2>3. f[Len(a) + n] = FilterStep(c, kept, f, Len(a) + n)
    <3>1. Len(a) + n \in 0..Len(c)
      BY <1>1, <2>2
    <3> QED BY <1>1, <1>4, <3>1, UpToStep
  <2>4. n # 0
    <3>1. n = 0 => h[n] = <<>> /\ f[Len(a) + n] = p
      BY <1>1, <1>2, <1>5, <2>c DEF FilterStep, p
    <3>2. p \o <<>> = p /\ <<>> \in Seq(S)
      BY <1>6 DEF p
    <3> QED BY <2>a, <3>1, <3>2 DEF Good
  <2>5. n \in 1..Len(b) /\ n - 1 \in 0..Len(b) /\ Good(n - 1)
    <3>1. n \in 1..Len(b) /\ n - 1 \in 0..Len(b) /\ n - 1 < n
      BY <2>2, <2>4
    <3> QED BY <2>b, <3>1
  <2>6. /\ (Len(a) + n) - 1 = Len(a) + (n - 1) /\ Len(a) + n # 0
        /\ c[Len(a) + n] = b[n] /\ b[n] \in S
        /\ Len(a) + n \in kept <=> n \in later
    <3>1. n \in 1..Len(b) /\ Len(a) \in Nat /\ n \in Nat
      BY <1>1, <2>5
    <3>2. (Len(a) + n) - 1 = Len(a) + (n - 1) /\ Len(a) + n # 0
      BY <2>4, <3>1
    <3>3. c[Len(a) + n] = b[n] /\ b[n] \in S
      BY <1>1, <3>1
    <3>4. Len(a) + n \in kept <=> n \in later
      BY <3>1 DEF later, Beyond
    <3> QED BY <3>2, <3>3, <3>4
  <2>7. CASE n \in later
    <3> DEFINE t == h[n - 1]
               x == b[n]
    <3>1. h[n] = Append(t, x) /\ f[Len(a) + n] = Append(p \o t, x)
      BY <2>c, <2>3, <2>4, <2>5, <2>6, <2>7 DEF FilterStep, Good
    <3>2. t \in Seq(S) /\ x \in S /\ p \in Seq(S)
      BY <1>6, <2>5, <2>6 DEF p, Good
    <3> HIDE DEF t, x
    <3>3. p \o Append(t, x) = Append(p \o t, x)
      BY <3>2, ConcatAppend
    <3>4. Append(t, x) \in Seq(S)
      BY <3>2
    <3> QED BY <2>a, <3>1, <3>3, <3>4 DEF Good
  <2>8. CASE n \notin later
    BY <2>a, <2>c, <2>3, <2>4, <2>5, <2>6, <2>8 DEF FilterStep, Good
  <2> QED BY <2>7, <2>8
<1>8. Good(Len(b))
  <2>1. Len(b) \in 0..Len(b)
    BY <1>1
  <2> HIDE DEF Good
  <2> QED BY <1>7, <2>1
<1> QED BY <1>1, <1>3, <1>4, <1>8 DEF p, c, later

\* What is left is a sequence of values kept.
THEOREM OnlyType ==
  ASSUME NEW S, NEW s \in Seq(S), NEW Kept
  PROVE  Only(s, Kept) \in Seq(S \cap Kept)
<1> DEFINE kept == {n \in 1..Len(s) : s[n] \in Kept}
           t == Only(s, Kept)
<1>1. t \in Seq(S) /\ \E m : ComesFrom(t, s, kept, Len(s), m)
  BY PickedPlaces DEF Only
<1>2. PICK m : ComesFrom(t, s, kept, Len(s), m)
  BY <1>1
<1>3. \A j \in 1..Len(t) : t[j] \in S \cap Kept
  BY <1>1, <1>2 DEF ComesFrom
<1> HIDE DEF t
<1>4. t = [j \in 1..Len(t) |-> t[j]] /\ Len(t) \in Nat
  BY <1>1
<1>5. t \in [1..Len(t) -> S \cap Kept]
  BY <1>3, <1>4
<1>6. t \in Seq(S \cap Kept)
  BY <1>4, <1>5, SeqDef
<1> QED BY <1>6 DEF t

\* Nothing is left of nothing.
THEOREM OnlyOfNone == ASSUME NEW Kept PROVE Only(<<>>, Kept) = <<>>
<1>1. PICK g : /\ IsUpTo(<<>>, {n \in 1..0 : <<>>[n] \in Kept}, g, 0)
               /\ Picked(<<>>, {n \in 1..0 : <<>>[n] \in Kept}) = g[0]
  BY PickedIs
<1> QED BY <1>1 DEF IsUpTo, FilterStep, Only

\* The values are filtered part by part.
THEOREM OnlyOfConcat ==
  ASSUME NEW S, NEW a \in Seq(S), NEW b \in Seq(S), NEW Kept
  PROVE  Only(a \o b, Kept) = Only(a, Kept) \o Only(b, Kept)
<1> DEFINE c == a \o b
           kept == {n \in 1..Len(c) : c[n] \in Kept}
<1>1. /\ Len(a) \in Nat /\ Len(b) \in Nat /\ Len(c) = Len(a) + Len(b) /\ c \in Seq(S)
      /\ \A n \in 1..Len(a) : c[n] = a[n]
      /\ \A n \in 1..Len(b) : c[Len(a) + n] = b[n]
  OBVIOUS
<1>2. Only(c, Kept) = Picked(a, kept) \o Picked(b, Beyond(kept, Len(a), Len(b)))
  <2>1. Only(c, Kept) = Picked(c, kept)
    BY DEF Only
  <2> HIDE DEF kept
  <2> QED BY <2>1, PickedOfConcat
<1> HIDE DEF c
<1>3. Beyond(kept, Len(a), Len(b)) = {n \in 1..Len(b) : b[n] \in Kept}
  BY <1>1 DEF Beyond
<1>4. Picked(a, kept) = Only(a, Kept)
  <2>1. \A n \in 1..Len(a) : /\ n \in kept <=> n \in {k \in 1..Len(a) : a[k] \in Kept}
                             /\ n \in kept => a[n] = a[n]
    BY <1>1
  <2> HIDE DEF kept
  <2>2. Picked(a, kept) = Picked(a, {k \in 1..Len(a) : a[k] \in Kept})
    BY <2>1, PickedAgrees
  <2> QED BY <2>2 DEF Only
<1> QED BY <1>2, <1>3, <1>4 DEF Only, c

\* Of a value by itself.
LEMMA OnlyOfOne ==
  ASSUME NEW x, NEW Kept
  PROVE  Only(<<x>>, Kept) = IF x \in Kept THEN <<x>> ELSE <<>>
<1> DEFINE s == <<x>>
           kept == {n \in 1..1 : s[n] \in Kept}
<1>1. Len(s) = 1 /\ s[1] = x
  OBVIOUS
<1>2. Only(s, Kept) = Picked(s, kept)
  BY <1>1 DEF Only
<1>3. PICK g : IsUpTo(s, kept, g, 1) /\ Picked(s, kept) = g[1]
  BY <1>1, PickedIs
<1>4. g[1] = FilterStep(s, kept, g, 1) /\ g[0] = FilterStep(s, kept, g, 0)
  <2> HIDE DEF s, kept
  <2> QED BY <1>3, UpToStep
<1>5. 1 \in kept <=> x \in Kept
  BY <1>1
<1> HIDE DEF kept
<1>6. g[1] = IF x \in Kept THEN Append(<<>>, x) ELSE <<>>
  <2>1. g[0] = <<>> /\ g[1] = IF 1 \in kept THEN Append(g[0], s[1]) ELSE g[0]
    <3> HIDE DEF s
    <3>1. g[1] = FilterStep(s, kept, g, 1) /\ g[0] = FilterStep(s, kept, g, 0)
      BY <1>4 DEF s
    <3>2. 1 - 1 = 0 /\ 1 # 0
      OBVIOUS
    <3> QED BY <3>1, <3>2 DEF FilterStep
  <2> QED BY <1>1, <1>5, <2>1
<1> QED BY <1>2, <1>3, <1>6

\* A value appended is left at the end, if it is kept.
THEOREM OnlyOfAppend ==
  ASSUME NEW S, NEW s \in Seq(S), NEW x \in S, NEW Kept
  PROVE  Only(Append(s, x), Kept) = IF x \in Kept THEN Append(Only(s, Kept), x) ELSE Only(s, Kept)
<1>1. Append(s, x) = s \o <<x>> /\ <<x>> \in Seq(S)
  OBVIOUS
<1>2. Only(Append(s, x), Kept) = Only(s, Kept) \o Only(<<x>>, Kept)
  <2> DEFINE b == <<x>>
  <2>1. b \in Seq(S) /\ Append(s, x) = s \o b
    BY <1>1
  <2> HIDE DEF b
  <2>2. Only(s \o b, Kept) = Only(s, Kept) \o Only(b, Kept)
    BY <2>1, OnlyOfConcat
  <2> QED BY <2>1, <2>2 DEF b
<1>3. Only(s, Kept) \in Seq(S \cap Kept)
  BY OnlyType
<1> DEFINE t == Only(s, Kept)
           T == S \cap Kept
<1>4. t \in Seq(T) /\ t \o <<>> = t /\ (x \in Kept => t \o <<x>> = Append(t, x))
  <2> HIDE DEF t
  <2>1. t \in Seq(T)
    BY <1>3 DEF t
  <2>2. x \in Kept => x \in T
    OBVIOUS
  <2> HIDE DEF T
  <2> QED BY <2>1, <2>2
<1> QED BY <1>2, <1>4, OnlyOfOne

\* Values that are not kept may change.
THEOREM OnlyOfOthers ==
  ASSUME NEW S, NEW s \in Seq(S), NEW r \in Seq(S), Len(r) = Len(s), NEW Kept,
         \A n \in 1..Len(s) : s[n] = r[n] \/ (s[n] \notin Kept /\ r[n] \notin Kept)
  PROVE  Only(r, Kept) = Only(s, Kept)
<1> DEFINE kept == {n \in 1..Len(s) : s[n] \in Kept}
           left == {n \in 1..Len(r) : r[n] \in Kept}
<1>1. \A n \in 1..Len(r) : (n \in left <=> n \in kept) /\ (n \in left => r[n] = s[n])
  OBVIOUS
<1>2. Len(s) = Len(r)
  OBVIOUS
<1> HIDE DEF kept, left
<1>3. Picked(r, left) = Picked(s, kept)
  BY <1>1, <1>2, PickedAgrees
<1> QED BY <1>3 DEF Only, kept, left

\* Where nothing is kept, nothing is left.
THEOREM OnlyOfGone ==
  ASSUME NEW S, NEW s \in Seq(S), NEW Kept, \A n \in 1..Len(s) : s[n] \notin Kept
  PROVE  Only(s, Kept) = <<>>
<1> DEFINE kept == {n \in 1..Len(s) : s[n] \in Kept}
           t == Only(s, Kept)
<1>1. t \in Seq(S) /\ \E m : ComesFrom(t, s, kept, Len(s), m)
  BY PickedPlaces DEF Only
<1>2. kept = {}
  OBVIOUS
<1> HIDE DEF t, kept
<1>3. ~(1 \in 1..Len(t))
  BY <1>1, <1>2 DEF ComesFrom
<1>4. t = <<>>
  BY <1>1, <1>3
<1> QED BY <1>4 DEF t

\* Where everything is kept, everything is left.
THEOREM PickedOfKept ==
  ASSUME NEW S, NEW s \in Seq(S), NEW kept, \A n \in 1..Len(s) : n \in kept
  PROVE  Picked(s, kept) = s
<1>1. Len(s) \in Nat
  OBVIOUS
<1>2. PICK g : IsUpTo(s, kept, g, Len(s)) /\ Picked(s, kept) = g[Len(s)]
  BY <1>1, PickedIs
<1> DEFINE Good(n) == g[n] = SubSeq(s, 1, n)
           Bad == {n \in 0..Len(s) : ~Good(n)}
<1>3. Bad = {}
  <2> SUFFICES ASSUME Bad # {} PROVE FALSE
    OBVIOUS
  <2>1. PICK n \in Bad : \A k \in Bad : n <= k
    <3>1. Bad \subseteq Nat
      OBVIOUS
    <3> QED BY <3>1, Least
  <2>2. n \in 0..Len(s) /\ ~Good(n) /\ g[n] = FilterStep(s, kept, g, n)
    BY <1>1, <1>2, UpToStep
  <2>3. n # 0
    BY <2>2 DEF FilterStep
  <2>4. n \in 1..Len(s) /\ n - 1 \in 0..Len(s) /\ Good(n - 1)
    <3>1. n - 1 \in 0..Len(s) /\ ~(n <= n - 1)
      BY <1>1, <2>2, <2>3
    <3> QED BY <1>1, <2>1, <2>2, <2>3, <3>1
  <2>5. g[n] = Append(SubSeq(s, 1, n - 1), s[n])
    BY <2>2, <2>3, <2>4 DEF FilterStep
  <2>6. Append(SubSeq(s, 1, n - 1), s[n]) = SubSeq(s, 1, n)
    BY <1>1, <2>4
  <2> QED BY <2>2, <2>5, <2>6
<1>4. g[Len(s)] = SubSeq(s, 1, Len(s))
  <2>1. Len(s) \in 0..Len(s) /\ Len(s) \notin Bad
    BY <1>1, <1>3
  <2> QED BY <2>1
<1>5. SubSeq(s, 1, Len(s)) = s
  OBVIOUS
<1> QED BY <1>2, <1>4, <1>5
=============================================================================

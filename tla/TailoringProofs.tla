---------------------------- MODULE TailoringProofs ----------------------------
(* What holds of tailoring for every layout, job description, text and bound.     *)
(*                                                                              *)
(* First what the operators compute.  A loop (SumOf, Deduped, PatchedCopy...) is a *)
(* recursive function over 0 .. Len(s); that it exists and what it holds after each *)
(* round is shown once, by induction on the rounds (Iteration, IterationIs), from    *)
(* the least round at which it would fail.  Then the versions, then the reports and  *)
(* patch sets, and the theorems.                                                  *)
EXTENDS Tailoring, SequenceTheorems, FiniteSetTheorems, WellFoundedInduction, TLAPS

(* Induction and loops.                                                         *)

\* A set of natural numbers that is not empty has a least element.
LEMMA LeastElement ==
  ASSUME NEW T \in SUBSET Nat, T # {}
  PROVE  \E x \in T : \A y \in T : x <= y
<1> DEFINE R == OpToRel(<, Nat)
<1>1. IsWellFoundedOn(R, Nat)
  BY NatLessThanWellFounded
<1> HIDE DEF R
<1>2. PICK x \in T : \A y \in T : ~(<<y, x>> \in R)
  BY <1>1, WFMin
<1>3. \A y \in T : ~(y < x)
  BY <1>2 DEF R, OpToRel
<1> QED
  BY <1>3

\* Induction up to N.
LEMMA UpTo ==
  ASSUME NEW N \in Nat, NEW S, 0 \in S, \A n \in 1 .. N : n - 1 \in S => n \in S
  PROVE  \A n \in 0 .. N : n \in S
<1> SUFFICES ASSUME (0 .. N) \ S # {} PROVE FALSE
  OBVIOUS
<1>1. PICK x \in (0 .. N) \ S : \A y \in (0 .. N) \ S : x <= y
  <2> DEFINE T == (0 .. N) \ S
  <2>1. T \in SUBSET Nat /\ T # {}
    OBVIOUS
  <2> HIDE DEF T
  <2>2. \E x \in T : \A y \in T : x <= y
    BY <2>1, LeastElement
  <2> QED
    BY <2>2 DEF T
<1>2. x \in 1 .. N /\ x - 1 \in 0 .. N /\ x - 1 < x
  BY <1>1
<1>3. x - 1 \in S
  BY <1>1, <1>2
<1> QED
  BY <1>1, <1>2, <1>3

\* What a finite set of indices has last.
LEMMA LastIndex ==
  ASSUME NEW N \in Nat, NEW T \in SUBSET (1 .. N), T # {}
  PROVE  Max(T) \in T
<1> DEFINE U == {N - x : x \in T}
<1>1. U \in SUBSET Nat /\ U # {}
  <2>1. \A x \in T : N - x \in Nat
    OBVIOUS
  <2>2. PICK x : x \in T
    OBVIOUS
  <2>3. N - x \in U
    BY <2>2
  <2> QED
    BY <2>1, <2>3
<1> HIDE DEF U
<1>2. PICK u \in U : \A y \in U : u <= y
  BY <1>1, LeastElement
<1>3. PICK x \in T : u = N - x
  BY <1>2 DEF U
<1>4. \A y \in T : x >= y
  <2> TAKE y \in T
  <2>1. N - y \in U
    BY DEF U
  <2>2. N - x <= N - y
    BY <2>1, <1>2, <1>3
  <2>3. x \in 1 .. N /\ y \in 1 .. N
    BY <1>3
  <2> QED
    BY <2>2, <2>3
<1> QED
  BY <1>4 DEF Max

\* And what it has first.
LEMMA FirstIndex ==
  ASSUME NEW N \in Nat, NEW T \in SUBSET (1 .. N), T # {}
  PROVE  Min(T) \in T
<1>1. T \in SUBSET Nat
  OBVIOUS
<1>2. \E x \in T : \A y \in T : x <= y
  BY <1>1, LeastElement
<1> QED
  BY <1>2 DEF Min

\* F is the step of a loop over D that starts at base and ends after N rounds.
IsStep(F, D, base, N) == base \in D /\ N \in Nat /\ F \in [D \X (1 .. N) -> D]

\* f holds what the loop has after each round.
IsLoop(f, F, D, base, N) ==
  f \in [0 .. N -> D] /\ f[0] = base /\ \A n \in 1 .. N : f[n] = F[<<f[n - 1], n>>]

\* A loop whose step is a function of the value so far and of the index.
LEMMA Iteration ==
  ASSUME NEW D, NEW base, NEW N, NEW F, IsStep(F, D, base, N)
  PROVE  \E f : IsLoop(f, F, D, base, N)
<1>0. base \in D /\ N \in Nat /\ F \in [D \X (1 .. N) -> D]
  BY DEF IsStep
<1> DEFINE Good(k) == \E f \in [0 .. k -> D] : f[0] = base /\ \A n \in 1 .. k : f[n] = F[<<f[n - 1], n>>]
           S == {k \in 0 .. N : Good(k)}
<1>1. Good(0)
  <2> DEFINE f == [n \in 0 .. 0 |-> base]
  <2>1. f \in [0 .. 0 -> D] /\ f[0] = base
    BY <1>0
  <2>2. \A n \in 1 .. 0 : f[n] = F[<<f[n - 1], n>>]
    OBVIOUS
  <2> HIDE DEF f
  <2> QED
    BY <2>1, <2>2
<1>2. ASSUME NEW n \in 1 .. N, Good(n - 1) PROVE Good(n)
  <2>1. PICK f \in [0 .. n - 1 -> D] : f[0] = base /\ \A i \in 1 .. n - 1 : f[i] = F[<<f[i - 1], i>>]
    BY <1>2
  <2> DEFINE x == F[<<f[n - 1], n>>]
             g == [i \in 0 .. n |-> IF i = n THEN x ELSE f[i]]
  <2>2. f[n - 1] \in D
    BY <2>1, <1>0
  <2>3. x \in D
    BY <2>2, <1>0
  <2>4. g \in [0 .. n -> D]
    BY <2>1, <2>3
  <2>5. g[0] = base /\ g[n] = x
    BY <2>1
  <2>6. \A i \in 0 .. n - 1 : g[i] = f[i]
    OBVIOUS
  <2>7. ASSUME NEW i \in 1 .. n PROVE g[i] = F[<<g[i - 1], i>>]
    <3>1. CASE i = n
      <4>1. g[n - 1] = f[n - 1]
        BY <2>6
      <4>2. g[n] = F[<<f[n - 1], n>>]
        BY <2>5
      <4> HIDE DEF g, x
      <4> QED
        BY <3>1, <4>1, <4>2
    <3>2. CASE i # n
      <4>1. i \in 1 .. n - 1 /\ i - 1 \in 0 .. n - 1
        BY <3>2
      <4> HIDE DEF g, x
      <4> QED
        BY <4>1, <2>6, <2>1
    <3> QED
      BY <3>1, <3>2
  <2> HIDE DEF g
  <2> QED
    BY <2>4, <2>5, <2>7
<1> HIDE DEF Good
<1>3. 0 \in S /\ \A n \in 1 .. N : n - 1 \in S => n \in S
  BY <1>0, <1>1, <1>2
<1> HIDE DEF S
<1>4. N \in S
  BY <1>0, <1>3, UpTo
<1> QED
  BY <1>4 DEF S, Good, IsLoop

\* A recursive function over 0 .. N that follows the step stays in D.
LEMMA IterationIs ==
  ASSUME NEW D, NEW base, NEW N, NEW F, IsStep(F, D, base, N),
         NEW g, g = [n \in 0 .. N |-> g[n]], g[0] = base,
         \A n \in 1 .. N : g[n - 1] \in D => g[n] = F[<<g[n - 1], n>>]
  PROVE  IsLoop(g, F, D, base, N)
<1>0. base \in D /\ N \in Nat /\ F \in [D \X (1 .. N) -> D]
  BY DEF IsStep
<1> DEFINE S == {k \in 0 .. N : g[k] \in D}
<1>1. 0 \in S
  BY <1>0
<1>2. ASSUME NEW n \in 1 .. N, n - 1 \in S PROVE n \in S
  <2>1. g[n - 1] \in D /\ <<g[n - 1], n>> \in D \X (1 .. N)
    BY <1>2
  <2>2. g[n] = F[<<g[n - 1], n>>]
    BY <2>1
  <2>3. g[n] \in D
    BY <2>1, <2>2, <1>0
  <2> QED
    BY <2>3
<1> HIDE DEF S
<1>3. \A n \in 0 .. N : n \in S
  BY <1>0, <1>1, <1>2, UpTo
<1>4. \A n \in 0 .. N : g[n] \in D
  BY <1>3 DEF S
<1>5. \A n \in 1 .. N : g[n] = F[<<g[n - 1], n>>]
  <2> TAKE n \in 1 .. N
  <2>1. n - 1 \in 0 .. N
    BY <1>0
  <2> QED
    BY <1>4, <2>1
<1> QED
  BY <1>4, <1>5 DEF IsLoop

-----------------------------------------------------------------------------
\* The items of a concatenation.
LEMMA ItemsOfConcat ==
  ASSUME NEW T, NEW a \in Seq(T), NEW b \in Seq(T)
  PROVE  \A x : x \in ToSet(a \o b) <=> x \in ToSet(a) \/ x \in ToSet(b)
<1>1. /\ Len(a) \in Nat /\ Len(b) \in Nat /\ Len(a \o b) = Len(a) + Len(b)
      /\ DOMAIN a = 1 .. Len(a) /\ DOMAIN b = 1 .. Len(b) /\ DOMAIN (a \o b) = 1 .. (Len(a) + Len(b))
  OBVIOUS
<1>2. \A i \in 1 .. Len(a) : (a \o b)[i] = a[i]
  OBVIOUS
<1>3. \A i \in 1 .. Len(b) : (a \o b)[Len(a) + i] = b[i]
  OBVIOUS
<1>4. \A i \in 1 .. (Len(a) + Len(b)) : i \notin 1 .. Len(a) => (i - Len(a)) \in 1 .. Len(b) /\ i = Len(a) + (i - Len(a))
  BY <1>1
<1> DEFINE c == a \o b
<1>5. \A i \in DOMAIN c : c[i] \in ToSet(a) \/ c[i] \in ToSet(b)
  <2> TAKE i \in DOMAIN c
  <2>1. CASE i \in 1 .. Len(a)
    BY <2>1, <1>1, <1>2 DEF ToSet
  <2>2. CASE i \notin 1 .. Len(a)
    <3> DEFINE j == i - Len(a)
    <3>1. j \in 1 .. Len(b) /\ i = Len(a) + j
      BY <2>2, <1>1, <1>4
    <3>2. c[i] = b[j]
      BY <3>1, <1>3
    <3> HIDE DEF j
    <3> QED
      BY <3>1, <3>2, <1>1 DEF ToSet
  <2> QED
    BY <2>1, <2>2
<1>6. \A i \in DOMAIN a : a[i] \in ToSet(c)
  <2> TAKE i \in DOMAIN a
  <2>1. i \in DOMAIN c /\ c[i] = a[i]
    BY <1>1, <1>2
  <2> HIDE DEF c
  <2> QED
    BY <2>1 DEF ToSet
<1>7. \A i \in DOMAIN b : b[i] \in ToSet(c)
  <2> TAKE i \in DOMAIN b
  <2>1. Len(a) + i \in DOMAIN c /\ c[Len(a) + i] = b[i]
    BY <1>1, <1>3
  <2> HIDE DEF c
  <2> QED
    BY <2>1 DEF ToSet
<1> HIDE DEF c
<1>8. \A x : x \in ToSet(c) <=> x \in ToSet(a) \/ x \in ToSet(b)
  BY <1>5, <1>6, <1>7 DEF ToSet
<1> QED
  BY <1>8 DEF c

\* And of a sequence with one more item.
LEMMA ItemsOfAppend ==
  ASSUME NEW T, NEW a \in Seq(T), NEW y \in T
  PROVE  \A x : x \in ToSet(Append(a, y)) <=> x \in ToSet(a) \/ x = y
<1>1. /\ Len(a) \in Nat /\ DOMAIN a = 1 .. Len(a) /\ DOMAIN Append(a, y) = 1 .. (Len(a) + 1)
      /\ \A i \in 1 .. Len(a) : Append(a, y)[i] = a[i]
      /\ Append(a, y)[Len(a) + 1] = y
  OBVIOUS
<1> DEFINE c == Append(a, y)
<1> HIDE DEF c
<1>2. DOMAIN c = (DOMAIN a) \cup {Len(a) + 1}
  BY <1>1 DEF c
<1>3. \A i \in DOMAIN a : c[i] = a[i]
  BY <1>1 DEF c
<1>4. c[Len(a) + 1] = y
  BY <1>1 DEF c
<1>5. \A x : x \in ToSet(c) <=> x \in ToSet(a) \/ x = y
  BY <1>2, <1>3, <1>4 DEF ToSet
<1> QED
  BY <1>5 DEF c

\* FlattenSeq has the items of the sequences it joins, and nothing else.
LEMMA Flattened ==
  ASSUME NEW T, NEW ss \in Seq(Seq(T))
  PROVE  /\ FlattenSeq(ss) \in Seq(T)
         /\ \A x : x \in ToSet(FlattenSeq(ss)) <=> \E i \in DOMAIN ss : x \in ToSet(ss[i])
<1> DEFINE N == Len(ss)
<1>1. N \in Nat /\ DOMAIN ss = 1 .. N /\ \A n \in 1 .. N : ss[n] \in Seq(T)
  OBVIOUS
<1>2. CASE N = 0
  <2>1. ss = <<>> /\ FlattenSeq(ss) = <<>>
    BY <1>2 DEF FlattenSeq
  <2>2. DOMAIN ss = {} /\ ToSet(<<>>) = {}
    BY <1>1, <1>2 DEF ToSet
  <2>3. <<>> \in Seq(T)
    OBVIOUS
  <2> QED
    BY <2>1, <2>2, <2>3
<1>3. CASE N # 0
  <2> DEFINE D == Seq(T)
             base == <<>>
             Is(f) == f = [i \in 1 .. N |-> IF i = 1 THEN ss[i] ELSE f[i - 1] \o ss[i]]
             F == [x \in D \X (1 .. N) |-> x[1] \o ss[x[2]]]
             g == CHOOSE f : Is(f)
             h == [i \in 0 .. N |-> IF i = 0 THEN base ELSE g[i]]
  <2>1. FlattenSeq(ss) = g[N]
    BY <1>3 DEF FlattenSeq
  <2>2. IsStep(F, D, base, N)
    BY <1>1 DEF IsStep
  <2>3. \A a \in D, n \in 1 .. N : F[<<a, n>>] = a \o ss[n]
    OBVIOUS
  <2>4. D = Seq(T) /\ base = <<>> /\ base \in D
    OBVIOUS
  <2>5. \A n \in 1 .. N : base \o ss[n] = ss[n]
    BY <1>1
  <2>6. N \in Nat /\ N >= 1
    BY <1>1, <1>3
  <2> HIDE DEF D, F, N, g, base, Is, h
  <2>7. \E f : Is(f)
    <3>1. PICK f : IsLoop(f, F, D, base, N)
      BY <2>2, Iteration
    <3>2. \A n \in 1 .. N : f[n] = f[n - 1] \o ss[n]
      <4> TAKE n \in 1 .. N
      <4>1. n - 1 \in 0 .. N /\ f[n - 1] \in D
        BY <3>1, <2>6 DEF IsLoop
      <4> QED
        BY <4>1, <3>1, <2>3 DEF IsLoop
    <3>3. f[1] = ss[1]
      <4>1. 1 \in 1 .. N /\ 1 - 1 = 0
        BY <2>6
      <4>2. f[1] = f[0] \o ss[1]
        BY <4>1, <3>2
      <4>3. f[0] = base
        BY <3>1 DEF IsLoop
      <4> QED
        BY <4>1, <4>2, <4>3, <2>5
    <3> DEFINE e == [i \in 1 .. N |-> f[i]]
    <3>4. \A i \in 1 .. N : e[i] = IF i = 1 THEN ss[i] ELSE e[i - 1] \o ss[i]
      <4> TAKE i \in 1 .. N
      <4>1. CASE i = 1
        BY <4>1, <3>3
      <4>2. CASE i # 1
        <5>1. i - 1 \in 1 .. N
          BY <4>2, <2>6
        <5> QED
          BY <4>2, <5>1, <3>2
      <4> QED
        BY <4>1, <4>2
    <3>5. e = [i \in 1 .. N |-> e[i]]
      OBVIOUS
    <3> HIDE DEF e
    <3>6. e = [i \in 1 .. N |-> IF i = 1 THEN ss[i] ELSE e[i - 1] \o ss[i]]
      BY <3>4, <3>5
    <3> QED
      BY <3>6 DEF Is
  <2>8. Is(g)
    BY <2>7 DEF g
  <2>9. h[0] = base /\ \A n \in 1 .. N : h[n] = h[n - 1] \o ss[n]
    <3>1. h[0] = base /\ \A n \in 1 .. N : h[n] = g[n]
      BY <2>6 DEF h
    <3>2. \A n \in 1 .. N : g[n] = IF n = 1 THEN ss[n] ELSE g[n - 1] \o ss[n]
      BY <2>8 DEF Is
    <3> SUFFICES ASSUME NEW n \in 1 .. N PROVE h[n] = h[n - 1] \o ss[n]
      BY <3>1
    <3>3. CASE n = 1
      <4>1. h[n - 1] = base
        BY <3>1, <3>3
      <4>2. h[n] = ss[n]
        BY <3>1, <3>2, <3>3
      <4> QED
        BY <4>1, <4>2, <2>5
    <3>4. CASE n # 1
      <4>1. n - 1 \in 1 .. N
        BY <3>4, <2>6
      <4> QED
        BY <3>1, <3>2, <3>4, <4>1
    <3> QED
      BY <3>3, <3>4
  <2>10. IsLoop(h, F, D, base, N)
    <3>1. h = [n \in 0 .. N |-> h[n]]
      BY DEF h
    <3>2. \A n \in 1 .. N : h[n - 1] \in D => h[n] = F[<<h[n - 1], n>>]
      BY <2>9, <2>3
    <3> QED
      BY <2>2, <2>9, <3>1, <3>2, IterationIs
  <2>11. \A n \in 0 .. N : h[n] \in Seq(T)
    BY <2>10, <2>4 DEF IsLoop
  <2> DEFINE S == {k \in 0 .. N : \A x : x \in ToSet(h[k]) <=> \E i \in 1 .. k : x \in ToSet(ss[i])}
  <2>12. 0 \in S
    BY <2>9, <2>4, <2>6 DEF ToSet
  <2>13. ASSUME NEW n \in 1 .. N, n - 1 \in S PROVE n \in S
    <3>1. n - 1 \in 0 .. N /\ h[n] = h[n - 1] \o ss[n]
      <4>1. h[n] = h[n - 1] \o ss[n]
        BY <2>9
      <4>2. n - 1 \in 0 .. N
        BY <2>6
      <4> QED
        BY <4>1, <4>2
    <3>2. h[n - 1] \in Seq(T) /\ ss[n] \in Seq(T)
      BY <3>1, <2>11, <1>1 DEF N
    <3>3. \A x : x \in ToSet(h[n]) <=> x \in ToSet(h[n - 1]) \/ x \in ToSet(ss[n])
      BY <3>1, <3>2, ItemsOfConcat
    <3>4. \A x : x \in ToSet(h[n - 1]) <=> \E i \in 1 .. (n - 1) : x \in ToSet(ss[i])
      BY <2>13
    <3>5. 1 .. n = (1 .. (n - 1)) \cup {n}
      BY <2>6
    <3>6. \A x : x \in ToSet(h[n]) <=> \E i \in 1 .. n : x \in ToSet(ss[i])
      BY <3>3, <3>4, <3>5
    <3> QED
      BY <3>6, <2>6
  <2> HIDE DEF S
  <2>14. N \in S
    BY <2>6, <2>12, <2>13, UpTo
  <2>15. \A x : x \in ToSet(h[N]) <=> \E i \in 1 .. N : x \in ToSet(ss[i])
    BY <2>14 DEF S
  <2>16. h[N] = FlattenSeq(ss)
    BY <2>1, <2>6 DEF h
  <2> QED
    <3>1. FlattenSeq(ss) \in Seq(T)
      BY <2>6, <2>11, <2>16
    <3>2. DOMAIN ss = 1 .. N
      BY <1>1 DEF N
    <3> QED
      BY <3>1, <3>2, <2>15, <2>16
<1> QED
  BY <1>2, <1>3

\* What Where(s, ...) flattens, for every use of it: K has the items that pass the test.
IsFilter(ss, s, K) == ss = [i \in DOMAIN s |-> IF s[i] \in K THEN <<s[i]>> ELSE <<>>]

\* A filter keeps the items that pass, and nothing else.
LEMMA Filtered ==
  ASSUME NEW T, NEW s \in Seq(T), NEW K, NEW ss, IsFilter(ss, s, K)
  PROVE  /\ FlattenSeq(ss) \in Seq(T)
         /\ \A x : x \in ToSet(FlattenSeq(ss)) <=> x \in ToSet(s) /\ x \in K
<1> USE DEF IsFilter
<1>1. Len(s) \in Nat /\ DOMAIN s = 1 .. Len(s) /\ \A i \in 1 .. Len(s) : s[i] \in T
  OBVIOUS
<1>2. ss \in Seq(Seq(T)) /\ DOMAIN ss = DOMAIN s
  <2>1. \A i \in 1 .. Len(s) : <<s[i]>> \in Seq(T) /\ <<>> \in Seq(T)
    BY <1>1
  <2>2. ss \in [1 .. Len(s) -> Seq(T)]
    BY <1>1, <2>1
  <2> QED
    BY <1>1, <2>2
<1>3. \A x : \A i \in DOMAIN s : x \in ToSet(ss[i]) <=> x = s[i] /\ s[i] \in K
  <2> TAKE x
  <2> TAKE i \in DOMAIN s
  <2>1. CASE s[i] \in K
    <3>1. ss[i] = <<s[i]>>
      BY <2>1
    <3>2. ToSet(<<s[i]>>) = {s[i]}
      BY DEF ToSet
    <3> QED
      BY <2>1, <3>1, <3>2
  <2>2. CASE s[i] \notin K
    <3>1. ss[i] = <<>>
      BY <2>2
    <3>2. ToSet(<<>>) = {}
      BY DEF ToSet
    <3> QED
      BY <2>2, <3>1, <3>2
  <2> QED
    BY <2>1, <2>2
<1>4. \A x : x \in ToSet(s) <=> \E i \in DOMAIN s : x = s[i]
  BY DEF ToSet
<1>5. /\ FlattenSeq(ss) \in Seq(T)
      /\ \A x : x \in ToSet(FlattenSeq(ss)) <=> \E i \in DOMAIN ss : x \in ToSet(ss[i])
  BY <1>2, Flattened
<1>6. \A x : x \in ToSet(FlattenSeq(ss)) <=> \E i \in DOMAIN s : x = s[i] /\ s[i] \in K
  BY <1>2, <1>3, <1>5
<1>7. \A x : (\E i \in DOMAIN s : x = s[i] /\ s[i] \in K) <=> x \in ToSet(s) /\ x \in K
  BY <1>4
<1> QED
  BY <1>5, <1>6, <1>7
-----------------------------------------------------------------------------
\* What is said of a sequence by its items.
LEMMA FirstOfSeq ==
  ASSUME NEW T, NEW s \in Seq(T)
  PROVE  /\ \A x : x \in ToSet(s) => x \in T
         /\ s = <<>> <=> \A x : x \notin ToSet(s)
         /\ s # <<>> => Head(s) \in ToSet(s)
         /\ DOMAIN s = 1 .. Len(s) /\ Len(s) \in Nat
<1>1. Len(s) \in Nat /\ DOMAIN s = 1 .. Len(s) /\ \A i \in 1 .. Len(s) : s[i] \in T
  OBVIOUS
<1>2. \A x : x \in ToSet(s) <=> \E i \in 1 .. Len(s) : x = s[i]
  BY <1>1 DEF ToSet
<1>3. CASE s = <<>>
  <2>1. Len(s) = 0
    BY <1>3
  <2> QED
    BY <1>1, <1>2, <1>3, <2>1
<1>4. CASE s # <<>>
  <2>1. Len(s) >= 1 /\ Head(s) = s[1]
    BY <1>4
  <2>2. 1 \in 1 .. Len(s)
    BY <1>1, <2>1
  <2>3. Head(s) \in ToSet(s)
    BY <1>2, <2>1, <2>2
  <2> QED
    BY <1>1, <1>2, <1>4, <2>3
<1> QED
  BY <1>3, <1>4

\* The resumes there may be.
Resumes == [text : [Rows -> SUBSET STRING], state : [Rows -> States]]

\* The items matching looks at.
Seen(r) == {x \in Places : r.state[x.bullet] = "visible" /\ r.state[x.section] = "visible"}

\* Bullets, entities and sections are those of the layout.
LEMMA PlacesAre ==
  /\ Layout \in Seq(Places)
  /\ Bullets = {x.bullet : x \in Places} /\ Entities = {x.entity : x \in Places} /\ Sections = {x.section : x \in Places}
BY ResumeAssumption DEF Places, Bullets, Entities, Sections

\* The place of a bullet is the one item of the layout that has it.
LEMMA PlaceIs ==
  ASSUME NEW b \in Bullets
  PROVE  /\ PlaceOf(b) \in Places /\ PlaceOf(b).bullet = b
         /\ \A p \in Places : p.bullet = b => p = PlaceOf(b)
<1>1. \E x \in Places : x.bullet = b
  BY PlacesAre
<1>2. PlaceOf(b) \in Places /\ PlaceOf(b).bullet = b
  BY <1>1 DEF PlaceOf
<1>3. \A p, q \in Places : p.bullet = q.bullet => p = q
  <2> TAKE p, q \in Places
  <2>1. PICK i \in DOMAIN Layout, j \in DOMAIN Layout : p = Layout[i] /\ q = Layout[j]
    BY DEF Places, ToSet
  <2> QED
    BY <2>1, ResumeAssumption
<1> QED
  BY <1>2, <1>3

\* An entity is in one section.
LEMMA SectionIs ==
  ASSUME NEW e \in Entities
  PROVE  SectionOf(e) \in Sections /\ \A p \in Places : p.entity = e => p.section = SectionOf(e)
<1> DEFINE q == CHOOSE p \in Places : p.entity = e
<1>1. \E x \in Places : x.entity = e
  BY PlacesAre
<1>2. q \in Places /\ q.entity = e
  BY <1>1
<1>3. SectionOf(e) = q.section
  BY DEF SectionOf
<1> HIDE DEF q
<1>4. \A p \in Places : p.entity = q.entity => p.section = q.section
  BY <1>2, ResumeAssumption
<1> QED
  BY <1>2, <1>3, <1>4, PlacesAre

\* The rows of a place are rows, of three kinds.
LEMMA KindsAre ==
  /\ \A p \in Places : /\ p.bullet \in Bullets /\ p.entity \in Entities /\ p.section \in Sections
                       /\ p.bullet \in Rows /\ p.entity \in Rows /\ p.section \in Rows
  /\ \A x \in Bullets, y \in Entities, z \in Sections : x # y /\ x # z /\ y # z
  /\ Bullets \subseteq Rows /\ Entities \subseteq Rows /\ Sections \subseteq Rows
<1>1. Bullets \subseteq Rows /\ Entities \subseteq Rows /\ Sections \subseteq Rows
  BY DEF Rows
<1>2. \A p \in Places : p.bullet \in Bullets /\ p.entity \in Entities /\ p.section \in Sections
  BY PlacesAre
<1>3. Bullets \cap Entities = {} /\ Bullets \cap Sections = {} /\ Entities \cap Sections = {}
  BY ResumeAssumption
<1>4. \A x \in Bullets, y \in Entities, z \in Sections : x # y /\ x # z /\ y # z
  BY <1>3
<1> QED
  BY <1>1, <1>2, <1>4

\* What buildResumeMatchProfile reads is what is seen.
LEMMA VisibleAre ==
  ASSUME NEW r
  PROVE  VisibleBullets(r) \in Seq(Places) /\ ToSet(VisibleBullets(r)) = Seen(r)
<1> DEFINE s == Layout
           K == Seen(r)
           ss == [i \in DOMAIN s |-> IF r.state[s[i].bullet] = "visible" /\ r.state[s[i].section] = "visible" THEN <<s[i]>> ELSE <<>>]
<1>1. VisibleBullets(r) = FlattenSeq(ss)
  BY DEF VisibleBullets, Where
<1>2. s \in Seq(Places)
  BY PlacesAre
<1>3. ToSet(s) = Places /\ K = Seen(r) /\ K \subseteq Places
  BY DEF Places, Seen
<1> HIDE DEF s
<1>4. IsFilter(ss, s, K)
  BY <1>2 DEF Seen, IsFilter
<1> HIDE DEF ss, K
<1>5. /\ FlattenSeq(ss) \in Seq(Places)
      /\ \A x : x \in ToSet(FlattenSeq(ss)) <=> x \in ToSet(s) /\ x \in K
  BY <1>2, <1>4, Filtered
<1>6. \A x : x \in ToSet(FlattenSeq(ss)) <=> x \in Seen(r)
  BY <1>3, <1>5
<1>7. ToSet(FlattenSeq(ss)) = Seen(r)
  BY <1>6
<1> QED
  BY <1>1, <1>5, <1>7

\* The bullets that name a requirement are among them.
LEMMA DirectAre ==
  ASSUME NEW r, NEW q
  PROVE  /\ Direct(r, q) \in Seq(Places)
         /\ \A x : x \in ToSet(Direct(r, q)) <=> x \in Seen(r) /\ q.term \in r.text[x.bullet]
<1> DEFINE s == VisibleBullets(r)
           K == {x \in Places : q.term \in r.text[x.bullet]}
           ss == [i \in DOMAIN s |-> IF q.term \in r.text[s[i].bullet] THEN <<s[i]>> ELSE <<>>]
<1>1. Direct(r, q) = FlattenSeq(ss)
  BY DEF Direct, Where
<1>2. s \in Seq(Places) /\ ToSet(s) = Seen(r)
  BY VisibleAre
<1> HIDE DEF s
<1>3. IsFilter(ss, s, K)
  BY <1>2 DEF IsFilter
<1>4. \A x \in Places : x \in K <=> q.term \in r.text[x.bullet]
  OBVIOUS
<1> HIDE DEF ss, K
<1>5. /\ FlattenSeq(ss) \in Seq(Places)
      /\ \A x : x \in ToSet(FlattenSeq(ss)) <=> x \in ToSet(s) /\ x \in K
  BY <1>2, <1>3, Filtered
<1>6. \A x : x \in Seen(r) => x \in Places
  BY DEF Seen
<1> QED
  BY <1>1, <1>2, <1>4, <1>5, <1>6

\* And those that name a related term.
LEMMA NearbyAre ==
  ASSUME NEW r, NEW q
  PROVE  /\ Nearby(r, q) \in Seq(Places)
         /\ \A x : x \in ToSet(Nearby(r, q)) <=> x \in Seen(r) /\ Related[q.term] \cap r.text[x.bullet] # {}
<1> DEFINE s == VisibleBullets(r)
           K == {x \in Places : Related[q.term] \cap r.text[x.bullet] # {}}
           ss == [i \in DOMAIN s |-> IF Related[q.term] \cap r.text[s[i].bullet] # {} THEN <<s[i]>> ELSE <<>>]
<1>1. Nearby(r, q) = FlattenSeq(ss)
  BY DEF Nearby, Where
<1>2. s \in Seq(Places) /\ ToSet(s) = Seen(r)
  BY VisibleAre
<1> HIDE DEF s
<1>3. IsFilter(ss, s, K)
  BY <1>2 DEF IsFilter
<1>4. \A x \in Places : x \in K <=> Related[q.term] \cap r.text[x.bullet] # {}
  OBVIOUS
<1> HIDE DEF ss, K
<1>5. /\ FlattenSeq(ss) \in Seq(Places)
      /\ \A x : x \in ToSet(FlattenSeq(ss)) <=> x \in ToSet(s) /\ x \in K
  BY <1>2, <1>3, Filtered
<1>6. \A x : x \in Seen(r) => x \in Places
  BY DEF Seen
<1> QED
  BY <1>1, <1>2, <1>4, <1>5, <1>6

-----------------------------------------------------------------------------
(* What matching finds.                                                         *)

\* Some visible bullet names the requirement, or a related term.
Names(r, n) == \E x \in Seen(r) : Requirements[n].term \in r.text[x.bullet]
Hints(r, n) == \E x \in Seen(r) : Related[Requirements[n].term] \cap r.text[x.bullet] # {}

\* What a requirement scores on a resume.
Score(r, n) == IF Names(r, n) THEN 100 ELSE IF Hints(r, n) THEN 65 ELSE 0

\* The evidence there can be for a requirement, and for all.
Evidence(r, n) == {EvidenceRecord(r, n, x, Score(r, n)) : x \in Seen(r)}
AllEvidence(r) == UNION {Evidence(r, n) : n \in DOMAIN Requirements}

\* A requirement has evidence unless it scores nothing.
LEMMA EvidenceForIs ==
  ASSUME NEW r, NEW n \in DOMAIN Requirements
  PROVE  /\ EvidenceFor(r, n) \in Seq(AllEvidence(r))
         /\ \A e \in ToSet(EvidenceFor(r, n)) : e \in Evidence(r, n)
         /\ ToSet(EvidenceFor(r, n)) = {} <=> Score(r, n) = 0
<1> DEFINE q == Requirements[n]
           direct == Direct(r, q)
           nearby == Nearby(r, q)
<1>1. /\ direct \in Seq(Places)
      /\ \A x : x \in ToSet(direct) <=> x \in Seen(r) /\ q.term \in r.text[x.bullet]
  <2> HIDE DEF q
  <2> QED
    BY DirectAre
<1>2. /\ nearby \in Seq(Places)
      /\ \A x : x \in ToSet(nearby) <=> x \in Seen(r) /\ Related[q.term] \cap r.text[x.bullet] # {}
  <2> HIDE DEF q
  <2> QED
    BY NearbyAre
<1> HIDE DEF direct, nearby
<1>3. (direct = <<>> <=> \A x : x \notin ToSet(direct)) /\ (direct # <<>> => Head(direct) \in ToSet(direct))
  BY <1>1, FirstOfSeq
<1>4. (nearby = <<>> <=> \A x : x \notin ToSet(nearby)) /\ (nearby # <<>> => Head(nearby) \in ToSet(nearby))
  BY <1>2, FirstOfSeq
<1>5. direct # <<>> <=> Names(r, n)
  BY <1>1, <1>3 DEF Names
<1>6. nearby # <<>> <=> Hints(r, n)
  BY <1>2, <1>4 DEF Hints
<1>7. ASSUME NEW x \in Seen(r) PROVE
        /\ <<EvidenceRecord(r, n, x, Score(r, n))>> \in Seq(AllEvidence(r))
        /\ ToSet(<<EvidenceRecord(r, n, x, Score(r, n))>>) = {EvidenceRecord(r, n, x, Score(r, n))}
        /\ EvidenceRecord(r, n, x, Score(r, n)) \in Evidence(r, n)
  <2> DEFINE e == EvidenceRecord(r, n, x, Score(r, n))
  <2>1. e \in Evidence(r, n)
    BY DEF Evidence
  <2>2. e \in AllEvidence(r)
    BY <2>1 DEF AllEvidence
  <2> HIDE DEF e
  <2>3. <<e>> \in Seq(AllEvidence(r)) /\ ToSet(<<e>>) = {e}
    BY <2>2 DEF ToSet
  <2> QED
    BY <2>1, <2>3 DEF e
<1>8. CASE direct # <<>>
  <2>1. EvidenceFor(r, n) = <<EvidenceRecord(r, n, Head(direct), Score(r, n))>> /\ Score(r, n) = 100
    BY <1>5, <1>8 DEF EvidenceFor, Score, direct
  <2>2. Head(direct) \in Seen(r)
    BY <1>1, <1>3, <1>8
  <2> QED
    BY <2>1, <2>2, <1>7
<1>9. CASE direct = <<>> /\ nearby # <<>>
  <2>1. EvidenceFor(r, n) = <<EvidenceRecord(r, n, Head(nearby), Score(r, n))>> /\ Score(r, n) = 65
    BY <1>5, <1>6, <1>9 DEF EvidenceFor, Score, direct, nearby
  <2>2. Head(nearby) \in Seen(r)
    BY <1>2, <1>4, <1>9
  <2> QED
    BY <2>1, <2>2, <1>7
<1>10. CASE direct = <<>> /\ nearby = <<>>
  <2>1. EvidenceFor(r, n) = <<>> /\ Score(r, n) = 0
    BY <1>5, <1>6, <1>10 DEF EvidenceFor, Score, direct, nearby
  <2>2. ToSet(<<>>) = {} /\ <<>> \in Seq(AllEvidence(r))
    BY DEF ToSet
  <2> QED
    BY <2>1, <2>2
<1> QED
  BY <1>8, <1>9, <1>10

\* The evidence of a report is that of its requirements.
LEMMA EvidenceInIs ==
  ASSUME NEW r
  PROVE  /\ EvidenceIn(r) \in Seq(AllEvidence(r))
         /\ \A n \in DOMAIN Requirements : Score(r, n) # 0 => \E e \in ToSet(EvidenceIn(r)) : e \in Evidence(r, n)
         /\ \A e \in ToSet(EvidenceIn(r)) : \E n \in DOMAIN Requirements : e \in Evidence(r, n) /\ Score(r, n) # 0
<1> DEFINE ss == [n \in DOMAIN Requirements |-> EvidenceFor(r, n)]
<1>1. Len(Requirements) \in Nat /\ DOMAIN Requirements = 1 .. Len(Requirements)
  BY JobAssumption
<1>2. ss \in Seq(Seq(AllEvidence(r)))
  <2>1. ss \in [1 .. Len(Requirements) -> Seq(AllEvidence(r))]
    BY <1>1, EvidenceForIs
  <2> QED
    BY <1>1, <2>1
<1>3. DOMAIN ss = DOMAIN Requirements /\ \A n \in DOMAIN Requirements : ss[n] = EvidenceFor(r, n)
  OBVIOUS
<1>4. EvidenceIn(r) = FlattenSeq(ss)
  BY DEF EvidenceIn
<1> HIDE DEF ss
<1>5. /\ FlattenSeq(ss) \in Seq(AllEvidence(r))
      /\ \A x : x \in ToSet(FlattenSeq(ss)) <=> \E i \in DOMAIN ss : x \in ToSet(ss[i])
  BY <1>2, Flattened
<1>6. \A x : x \in ToSet(EvidenceIn(r)) <=> \E n \in DOMAIN Requirements : x \in ToSet(EvidenceFor(r, n))
  BY <1>3, <1>4, <1>5
<1>7. \A n \in DOMAIN Requirements :
        /\ \A e \in ToSet(EvidenceFor(r, n)) : e \in Evidence(r, n)
        /\ ToSet(EvidenceFor(r, n)) = {} <=> Score(r, n) = 0
  BY EvidenceForIs
<1> QED
  BY <1>4, <1>5, <1>6, <1>7
-----------------------------------------------------------------------------
(* Sums and scores.                                                             *)

\* A sum is the last of its partial sums.
LEMMA SumIs ==
  ASSUME NEW s \in Seq(Int)
  PROVE  \E g \in [0 .. Len(s) -> Int] :
           g[0] = 0 /\ (\A n \in 1 .. Len(s) : g[n] = g[n - 1] + s[n]) /\ SumOf(s) = g[Len(s)]
<1> DEFINE D == Int
           N == Len(s)
           base == 0
           Is(f) == f = [n \in 0 .. N |-> IF n = 0 THEN base ELSE f[n - 1] + s[n]]
           F == [x \in D \X (1 .. N) |-> x[1] + s[x[2]]]
           g == CHOOSE f : Is(f)
<1>1. SumOf(s) = g[N]
  BY DEF SumOf, Folded
<1>2. IsStep(F, D, base, N) /\ N \in Nat
  BY DEF IsStep
<1>3. \A a \in D, n \in 1 .. N : F[<<a, n>>] = a + s[n]
  OBVIOUS
<1>4. D = Int /\ base = 0 /\ N = Len(s)
  OBVIOUS
<1> HIDE DEF D, F, N, g, base, Is
<1>5. \E f : Is(f)
  <2>1. PICK f : IsLoop(f, F, D, base, N)
    BY <1>2, Iteration
  <2>2. \A n \in 1 .. N : f[n] = f[n - 1] + s[n]
    <3> TAKE n \in 1 .. N
    <3>1. n - 1 \in 0 .. N /\ f[n - 1] \in D
      BY <2>1, <1>2 DEF IsLoop
    <3> QED
      BY <3>1, <2>1, <1>3 DEF IsLoop
  <2>3. f = [n \in 0 .. N |-> IF n = 0 THEN base ELSE f[n - 1] + s[n]]
    BY <2>1, <2>2, <1>2 DEF IsLoop
  <2> QED
    BY <2>3 DEF Is
<1>6. Is(g)
  BY <1>5 DEF g
<1>7. g[0] = base /\ \A n \in 1 .. N : g[n] = g[n - 1] + s[n]
  BY <1>6, <1>2 DEF Is
<1>8. IsLoop(g, F, D, base, N)
  <2>1. g = [n \in 0 .. N |-> g[n]]
    BY <1>6 DEF Is
  <2>2. \A n \in 1 .. N : g[n - 1] \in D => g[n] = F[<<g[n - 1], n>>]
    BY <1>7, <1>3
  <2> QED
    BY <1>2, <2>1, <1>7, <2>2, IterationIs
<1>9. g \in [0 .. Len(s) -> Int]
  BY <1>4, <1>8 DEF IsLoop
<1> QED
  BY <1>1, <1>4, <1>7, <1>9

\* A sum is bounded item by item.
LEMMA SumsCompare ==
  ASSUME NEW a \in Seq(Int), NEW b \in Seq(Int), Len(a) = Len(b), NEW k \in {1, 100},
         \A i \in 1 .. Len(a) : a[i] <= k * b[i]
  PROVE  SumOf(a) <= k * SumOf(b)
<1> DEFINE N == Len(a)
<1>1. N \in Nat /\ Len(b) = N /\ \A i \in 1 .. N : a[i] \in Int /\ b[i] \in Int /\ a[i] <= k * b[i]
  OBVIOUS
<1>2. PICK f \in [0 .. N -> Int] : f[0] = 0 /\ (\A n \in 1 .. N : f[n] = f[n - 1] + a[n]) /\ SumOf(a) = f[N]
  BY SumIs
<1>3. PICK g \in [0 .. N -> Int] : g[0] = 0 /\ (\A n \in 1 .. N : g[n] = g[n - 1] + b[n]) /\ SumOf(b) = g[N]
  BY SumIs
<1> HIDE DEF N
<1> DEFINE S == {n \in 0 .. N : f[n] <= k * g[n]}
<1>4. 0 \in S
  BY <1>1, <1>2, <1>3
<1>5. ASSUME NEW n \in 1 .. N, n - 1 \in S PROVE n \in S
  <2> DEFINE u == f[n - 1]
             v == g[n - 1]
             x == a[n]
             y == b[n]
  <2>1. f[n] = u + x
    BY <1>2
  <2>2. g[n] = v + y
    BY <1>3
  <2>3. x \in Int /\ y \in Int /\ x <= k * y
    BY <1>1
  <2>4. n - 1 \in 0 .. N /\ n \in 0 .. N
    BY <1>1
  <2>5. u \in Int /\ v \in Int
    BY <1>2, <1>3, <2>4
  <2>6. u <= k * v
    BY <1>5
  <2> HIDE DEF u, v, x, y
  <2>7. u + x <= k * (v + y)
    <3>1. CASE k = 1
      BY <2>3, <2>5, <2>6, <3>1
    <3>2. CASE k = 100
      <4>1. x <= 100 * y /\ u <= 100 * v
        BY <2>3, <2>6, <3>2
      <4>2. u + x <= 100 * (v + y)
        BY <2>3, <2>5, <4>1
      <4> QED
        BY <3>2, <4>2
    <3> QED
      BY <3>1, <3>2
  <2> QED
    BY <2>1, <2>2, <2>4, <2>7
<1> HIDE DEF S
<1>6. \A n \in 0 .. N : n \in S
  BY <1>1, <1>4, <1>5, UpTo
<1>7. N \in S
  BY <1>1, <1>6
<1> QED
  BY <1>2, <1>3, <1>7 DEF S

\* A sum of natural numbers is one.
LEMMA SumOfNat ==
  ASSUME NEW s \in Seq(Nat)
  PROVE  SumOf(s) \in Nat
<1>1. s \in Seq(Int) /\ Len(s) \in Nat /\ \A n \in 1 .. Len(s) : s[n] \in Nat
  OBVIOUS
<1>2. PICK f \in [0 .. Len(s) -> Int] : f[0] = 0 /\ (\A n \in 1 .. Len(s) : f[n] = f[n - 1] + s[n]) /\ SumOf(s) = f[Len(s)]
  BY <1>1, SumIs
<1> DEFINE S == {n \in 0 .. Len(s) : f[n] \in Nat}
<1>3. 0 \in S
  BY <1>1, <1>2
<1>4. ASSUME NEW n \in 1 .. Len(s), n - 1 \in S PROVE n \in S
  <2>1. f[n] = f[n - 1] + s[n] /\ f[n - 1] \in Nat /\ s[n] \in Nat
    BY <1>1, <1>2, <1>4
  <2> QED
    BY <2>1, <1>1
<1> HIDE DEF S
<1>5. \A n \in 0 .. Len(s) : n \in S
  BY <1>1, <1>3, <1>4, UpTo
<1>6. Len(s) \in S
  BY <1>1, <1>5
<1> QED
  BY <1>2, <1>6 DEF S

\* Math.round of a part that is no more than the whole is a percentage.
LEMMA PercentIs ==
  ASSUME NEW p \in Nat, NEW w \in Nat, p <= 100 * w
  PROVE  Percent(p, w) \in 0 .. 100
<1>1. CASE w = 0
  BY <1>1 DEF Percent
<1>2. CASE w # 0
  <2> DEFINE d == 2 * w
             a == 2 * p + w
  <2>1. d \in Nat \ {0} /\ a \in Nat /\ a < 101 * d
    BY <1>2
  <2>2. Percent(p, w) = a \div d
    BY <1>2 DEF Percent
  <2> HIDE DEF a, d
  <2>3. a \div d \in Nat /\ a \div d < 101
    BY <2>1
  <2> QED
    BY <2>2, <2>3
<1> QED
  BY <1>1, <1>2

\* And it grows with the part.
LEMMA PercentGrows ==
  ASSUME NEW p \in Nat, NEW q \in Nat, NEW w \in Nat, p <= q
  PROVE  Percent(p, w) <= Percent(q, w)
<1>1. CASE w = 0
  BY <1>1 DEF Percent
<1>2. CASE w # 0
  <2> DEFINE d == 2 * w
             a == 2 * p + w
             b == 2 * q + w
  <2>1. d \in Nat \ {0} /\ a \in Nat /\ b \in Nat /\ a <= b
    BY <1>2
  <2>2. Percent(p, w) = a \div d /\ Percent(q, w) = b \div d
    BY <1>2 DEF Percent
  <2> HIDE DEF a, b, d
  <2>3. a \div d <= b \div d
    BY <2>1
  <2> QED
    BY <2>2, <2>3
<1> QED
  BY <1>1, <1>2

\* The weights of the requirements are natural numbers.
LEMMA WeightsAre ==
  /\ Len(Requirements) \in Nat /\ DOMAIN Requirements = 1 .. Len(Requirements)
  /\ \A n \in DOMAIN Requirements : Requirements[n].weight \in Nat
<1>1. Requirements \in Seq(ToSet(Requirements)) /\ \A n \in DOMAIN Requirements : Requirements[n].weight \in 1 .. 100
  BY JobAssumption
<1>2. \A n \in DOMAIN Requirements : Requirements[n].weight \in Nat
  <2> TAKE n \in DOMAIN Requirements
  <2>1. Requirements[n].weight \in 1 .. 100
    BY <1>1
  <2> QED
    BY <2>1
<1> QED
  BY <1>1, <1>2

\* What the requirements counted weigh, and what they earn on a resume.
Weights(counted) == [n \in DOMAIN Requirements |-> IF n \in counted THEN Requirements[n].weight ELSE 0]
Earned(r, counted) == [n \in DOMAIN Requirements |-> IF n \in counted THEN Requirements[n].weight * Score(r, n) ELSE 0]

\* Both are sequences as long as the requirements.
LEMMA SequencesOfScores ==
  ASSUME NEW r, NEW counted
  PROVE  /\ Weights(counted) \in Seq(Nat) /\ Len(Weights(counted)) = Len(Requirements)
         /\ Earned(r, counted) \in Seq(Nat) /\ Len(Earned(r, counted)) = Len(Requirements)
<1>1. \A n \in DOMAIN Requirements : Score(r, n) \in Nat /\ Requirements[n].weight \in Nat
  BY WeightsAre DEF Score
<1>2. \A n \in DOMAIN Requirements : Requirements[n].weight * Score(r, n) \in Nat
  <2> TAKE n \in DOMAIN Requirements
  <2> DEFINE w == Requirements[n].weight
             x == Score(r, n)
  <2>1. w \in Nat /\ x \in Nat
    BY <1>1
  <2> HIDE DEF w, x
  <2>2. w * x \in Nat
    BY <2>1
  <2> QED
    BY <2>2 DEF w, x
<1> DEFINE product(n) == Requirements[n].weight * Score(r, n)
<1>3. Weights(counted) \in [1 .. Len(Requirements) -> Nat]
  BY <1>1, WeightsAre DEF Weights
<1>4. Earned(r, counted) \in [1 .. Len(Requirements) -> Nat]
  <2>1. \A n \in DOMAIN Requirements : product(n) \in Nat
    BY <1>2
  <2>2. Earned(r, counted) = [n \in DOMAIN Requirements |-> IF n \in counted THEN product(n) ELSE 0]
    BY DEF Earned
  <2> HIDE DEF product
  <2> QED
    BY <2>1, <2>2, WeightsAre
<1>5. \A f : f \in [1 .. Len(Requirements) -> Nat] => f \in Seq(Nat) /\ Len(f) = Len(Requirements)
  BY WeightsAre
<1> HIDE DEF product
<1> QED
  BY <1>3, <1>4, <1>5

\* The scorer looks up the evidence of each requirement by its id, and finds its score.
LEMMA ScoreOfIs ==
  ASSUME NEW r, NEW counted
  PROVE  ScoreOf(EvidenceIn(r), counted) = Percent(SumOf(Earned(r, counted)), SumOf(Weights(counted)))
<1> DEFINE evidence == EvidenceIn(r)
           For(n) == {i \in DOMAIN evidence : evidence[i].requirement = n}
           ScoreFor(n) == IF For(n) = {} THEN 0 ELSE evidence[Max(For(n))].score
<1>1. /\ evidence \in Seq(AllEvidence(r))
      /\ \A n \in DOMAIN Requirements : Score(r, n) # 0 => \E e \in ToSet(evidence) : e \in Evidence(r, n)
      /\ \A e \in ToSet(evidence) : \E n \in DOMAIN Requirements : e \in Evidence(r, n) /\ Score(r, n) # 0
  BY EvidenceInIs
<1>2. \A n : \A e \in Evidence(r, n) : e.requirement = n /\ e.score = Score(r, n)
  BY DEF Evidence, EvidenceRecord
<1>3. ASSUME NEW n \in DOMAIN Requirements PROVE ScoreFor(n) = Score(r, n)
  <2> HIDE DEF evidence
  <2>1. Len(evidence) \in Nat /\ DOMAIN evidence = 1 .. Len(evidence)
    BY <1>1
  <2>2. CASE For(n) = {}
    <3>1. \A e \in ToSet(evidence) : e.requirement # n
      BY <2>2 DEF ToSet
    <3>2. Score(r, n) = 0
      BY <3>1, <1>1, <1>2
    <3> QED
      BY <2>2, <3>2
  <2>3. CASE For(n) # {}
    <3> DEFINE i == Max(For(n))
    <3>1. For(n) \in SUBSET (1 .. Len(evidence))
      BY <2>1
    <3> HIDE DEF For
    <3>2. i \in For(n)
      BY <2>1, <2>3, <3>1, LastIndex
    <3> HIDE DEF i
    <3>3. i \in DOMAIN evidence /\ evidence[i].requirement = n
      BY <3>2 DEF For
    <3>4. evidence[i] \in ToSet(evidence)
      BY <3>3 DEF ToSet
    <3>5. PICK m \in DOMAIN Requirements : evidence[i] \in Evidence(r, m)
      BY <3>4, <1>1
    <3>6. evidence[i].score = Score(r, n)
      BY <3>3, <3>5, <1>2
    <3> QED
      BY <2>3, <3>6 DEF i
  <2> QED
    BY <2>2, <2>3
<1>4. ScoreOf(evidence, counted) =
        Percent(SumOf([n \in DOMAIN Requirements |-> IF n \in counted THEN Requirements[n].weight * ScoreFor(n) ELSE 0]),
                SumOf([n \in DOMAIN Requirements |-> IF n \in counted THEN Requirements[n].weight ELSE 0]))
  BY DEF ScoreOf
<1> HIDE DEF ScoreFor
<1>5. [n \in DOMAIN Requirements |-> IF n \in counted THEN Requirements[n].weight * ScoreFor(n) ELSE 0] = Earned(r, counted)
  BY <1>3 DEF Earned
<1> QED
  BY <1>4, <1>5 DEF Weights

\* Every score is a percentage, also one over no requirement at all.
LEMMA ScoresAreInRange ==
  ASSUME NEW r, NEW counted
  PROVE  ScoreOf(EvidenceIn(r), counted) \in 0 .. 100
<1> DEFINE a == Earned(r, counted)
           b == Weights(counted)
<1>1. /\ a \in Seq(Nat) /\ Len(a) = Len(Requirements) /\ b \in Seq(Nat) /\ Len(b) = Len(Requirements)
  BY SequencesOfScores
<1>2. \A n \in 1 .. Len(a) : a[n] <= 100 * b[n]
  <2> TAKE n \in 1 .. Len(a)
  <2>1. n \in DOMAIN Requirements /\ Requirements[n].weight \in Nat /\ Score(r, n) \in {0, 65, 100}
    BY <1>1, WeightsAre DEF Score
  <2> QED
    BY <2>1 DEF Earned, Weights
<1> HIDE DEF a, b
<1>3. a \in Seq(Int) /\ b \in Seq(Int)
  BY <1>1
<1>4. SumOf(a) <= 100 * SumOf(b)
  BY <1>1, <1>2, <1>3, SumsCompare
<1>5. SumOf(a) \in Nat /\ SumOf(b) \in Nat
  BY <1>1, SumOfNat
<1>6. Percent(SumOf(a), SumOf(b)) \in 0 .. 100
  BY <1>4, <1>5, PercentIs
<1> QED
  BY <1>6, ScoreOfIs DEF a, b

\* A resume on which every requirement scores at least as much gets at least the same score.
LEMMA ScoresGrow ==
  ASSUME NEW r, NEW t, NEW counted, \A n \in DOMAIN Requirements : Score(r, n) <= Score(t, n)
  PROVE  ScoreOf(EvidenceIn(r), counted) <= ScoreOf(EvidenceIn(t), counted)
<1> DEFINE a == Earned(r, counted)
           b == Earned(t, counted)
           w == Weights(counted)
<1>1. /\ a \in Seq(Nat) /\ Len(a) = Len(Requirements) /\ b \in Seq(Nat) /\ Len(b) = Len(Requirements)
      /\ w \in Seq(Nat)
  BY SequencesOfScores
<1>2. \A n \in 1 .. Len(a) : a[n] <= 1 * b[n]
  <2> TAKE n \in 1 .. Len(a)
  <2>1. n \in DOMAIN Requirements /\ Requirements[n].weight \in Nat /\ Score(r, n) \in {0, 65, 100} /\ Score(t, n) \in {0, 65, 100}
    BY <1>1, WeightsAre DEF Score
  <2>2. Score(r, n) <= Score(t, n)
    BY <2>1
  <2>3. Requirements[n].weight * Score(r, n) <= Requirements[n].weight * Score(t, n)
    BY <2>1, <2>2
  <2> QED
    BY <2>1, <2>3 DEF Earned
<1> HIDE DEF a, b, w
<1>3. a \in Seq(Int) /\ b \in Seq(Int)
  BY <1>1
<1>4. SumOf(a) <= 1 * SumOf(b)
  BY <1>1, <1>2, <1>3, SumsCompare
<1>5. SumOf(a) \in Nat /\ SumOf(b) \in Nat /\ SumOf(w) \in Nat
  BY <1>1, SumOfNat
<1>6. Percent(SumOf(a), SumOf(w)) <= Percent(SumOf(b), SumOf(w))
  BY <1>4, <1>5, PercentGrows
<1> QED
  BY <1>6, ScoreOfIs DEF a, b, w
-----------------------------------------------------------------------------
(* Gaps, categories, findings and recommendations.                              *)

\* The gaps a report on r may list: a requirement that scores nothing there, a
\* credential that no evidence names.
OpenRequirements(r) == {RequirementGap(n) : n \in {m \in DOMAIN Requirements : Score(r, m) = 0}}
OpenCredentials(r) ==
  {CredentialGap(c) : c \in {x \in ToSet(Credentials) : \A e \in ToSet(EvidenceIn(r)) : ~Verbatim(e.text, x.term)}}
OpenGaps(r) == OpenRequirements(r) \cup OpenCredentials(r)

\* The gaps of requirements are of requirements that score nothing.
LEMMA RequirementGapsAre ==
  ASSUME NEW r,
         NEW ss, ss = [n \in DOMAIN Requirements |->
                         IF \E i \in DOMAIN EvidenceIn(r) : EvidenceIn(r)[i].requirement = n THEN <<>> ELSE <<RequirementGap(n)>>]
  PROVE  FlattenSeq(ss) \in Seq(OpenGaps(r))
<1> DEFINE evidence == EvidenceIn(r)
           T == OpenGaps(r)
<1>1. \A n \in DOMAIN Requirements : Score(r, n) # 0 => \E e \in ToSet(evidence) : e \in Evidence(r, n)
  BY EvidenceInIs
<1>2. \A n : \A e \in Evidence(r, n) : e.requirement = n
  BY DEF Evidence, EvidenceRecord
<1>3. ss = [n \in DOMAIN Requirements |->
              IF \E i \in DOMAIN evidence : evidence[i].requirement = n THEN <<>> ELSE <<RequirementGap(n)>>]
  OBVIOUS
<1> HIDE DEF evidence
<1>4. ASSUME NEW n \in DOMAIN Requirements PROVE ss[n] \in Seq(T)
  <2>1. CASE \E i \in DOMAIN evidence : evidence[i].requirement = n
    BY <1>3, <2>1
  <2>2. CASE ~\E i \in DOMAIN evidence : evidence[i].requirement = n
    <3>1. \A e \in ToSet(evidence) : e.requirement # n
      BY <2>2 DEF ToSet
    <3>2. Score(r, n) = 0
      BY <3>1, <1>1, <1>2
    <3>3. RequirementGap(n) \in T
      BY <3>2 DEF OpenGaps, OpenRequirements
    <3> HIDE DEF T
    <3>4. <<RequirementGap(n)>> \in Seq(T)
      BY <3>3
    <3> QED
      BY <1>3, <2>2, <3>4
  <2> QED
    BY <2>1, <2>2
<1> HIDE DEF T
<1>5. ss \in [1 .. Len(Requirements) -> Seq(T)]
  BY <1>3, <1>4, WeightsAre
<1>6. ss \in Seq(Seq(T))
  BY <1>5, WeightsAre
<1>7. FlattenSeq(ss) \in Seq(T)
  BY <1>6, Flattened
<1> QED
  BY <1>7 DEF T

\* And those of credentials of credentials no evidence names.
LEMMA GapsAre ==
  ASSUME NEW r
  PROVE  GapsLeftBy(EvidenceIn(r)) \in Seq(OpenGaps(r))
<1> DEFINE evidence == EvidenceIn(r)
           Known(found, c) == \/ \E i \in DOMAIN evidence : Verbatim(evidence[i].text, c.term)
                              \/ \E g \in DOMAIN found : found[g].term = c.term
           Step(found, c) == IF Known(found, c) THEN found ELSE Append(found, CredentialGap(c))
           T == OpenGaps(r)
           D == Seq(T)
           s == Credentials
           N == Len(s)
           ss == [n \in DOMAIN Requirements |->
                    IF \E i \in DOMAIN evidence : evidence[i].requirement = n THEN <<>> ELSE <<RequirementGap(n)>>]
           base == FlattenSeq(ss)
           Is(f) == f = [n \in 0 .. N |-> IF n = 0 THEN base ELSE Step(f[n - 1], s[n])]
           F == [x \in D \X (1 .. N) |-> Step(x[1], s[x[2]])]
           g == CHOOSE f : Is(f)
<1>1. GapsLeftBy(evidence) = g[N]
  BY DEF GapsLeftBy, Folded
<1>2. N \in Nat /\ \A n \in 1 .. N : s[n] \in ToSet(Credentials)
  BY JobAssumption
<1>3. base \in D
  BY RequirementGapsAre
<1>4. ASSUME NEW a \in D, NEW n \in 1 .. N PROVE Step(a, s[n]) \in D
  <2>1. CASE Known(a, s[n])
    BY <2>1
  <2>2. CASE ~Known(a, s[n])
    <3>1. \A e \in ToSet(evidence) : ~Verbatim(e.text, s[n].term)
      <4> HIDE DEF evidence
      <4> QED
        BY <2>2 DEF ToSet
    <3>2. CredentialGap(s[n]) \in T
      BY <3>1, <1>2 DEF OpenGaps, OpenCredentials
    <3> HIDE DEF T, Known
    <3>3. Append(a, CredentialGap(s[n])) \in D
      BY <3>2
    <3> QED
      BY <2>2, <3>3
  <2> HIDE DEF Step
  <2> QED
    BY <2>1, <2>2
<1> HIDE DEF Step, base, T, s
<1>5. IsStep(F, D, base, N)
  BY <1>2, <1>3, <1>4 DEF IsStep
<1>6. \A a \in D, n \in 1 .. N : F[<<a, n>>] = Step(a, s[n])
  OBVIOUS
<1> HIDE DEF D, F, N, g, Is
<1>7. \E f : Is(f)
  <2>1. PICK f : IsLoop(f, F, D, base, N)
    BY <1>5, Iteration
  <2>2. \A n \in 1 .. N : f[n] = Step(f[n - 1], s[n])
    <3> TAKE n \in 1 .. N
    <3>1. n - 1 \in 0 .. N /\ f[n - 1] \in D
      BY <2>1, <1>2 DEF IsLoop
    <3> QED
      BY <3>1, <2>1, <1>6 DEF IsLoop
  <2>3. f = [n \in 0 .. N |-> IF n = 0 THEN base ELSE Step(f[n - 1], s[n])]
    BY <2>1, <2>2, <1>2 DEF IsLoop
  <2> QED
    BY <2>3 DEF Is
<1>8. Is(g)
  BY <1>7 DEF g
<1>9. g[0] = base /\ \A n \in 1 .. N : g[n] = Step(g[n - 1], s[n])
  BY <1>8, <1>2 DEF Is
<1>10. g = [n \in 0 .. N |-> g[n]]
  BY <1>8 DEF Is
<1>11. IsLoop(g, F, D, base, N)
  <2>1. \A n \in 1 .. N : g[n - 1] \in D => g[n] = F[<<g[n - 1], n>>]
    BY <1>9, <1>6
  <2> QED
    BY <1>5, <1>9, <1>10, <2>1, IterationIs
<1>12. g[N] \in D
  BY <1>2, <1>11 DEF IsLoop
<1> QED
  BY <1>1, <1>12 DEF D, T

\* The categories of the requirements.
CategoryKeys == {CategoryKey(n) : n \in DOMAIN Requirements}

\* The categories listed are those of the requirements.
LEMMA CategoryOrderIs == CategoryOrder \in Seq(CategoryKeys)
<1> DEFINE Step(seen, key) == IF key \in ToSet(seen) THEN seen ELSE Append(seen, key)
           D == Seq(CategoryKeys)
           s == [n \in DOMAIN Requirements |-> CategoryKey(n)]
           N == Len(s)
           base == <<>>
           Is(f) == f = [n \in 0 .. N |-> IF n = 0 THEN base ELSE Step(f[n - 1], s[n])]
           F == [x \in D \X (1 .. N) |-> Step(x[1], s[x[2]])]
           g == CHOOSE f : Is(f)
<1>1. CategoryOrder = g[N]
  BY DEF CategoryOrder, Folded
<1>2. N \in Nat /\ \A n \in 1 .. N : s[n] \in CategoryKeys
  <2>1. \A n \in DOMAIN Requirements : CategoryKey(n) \in CategoryKeys
    BY DEF CategoryKeys
  <2>2. s \in [1 .. Len(Requirements) -> CategoryKeys]
    BY <2>1, WeightsAre
  <2>3. s \in Seq(CategoryKeys)
    BY <2>2, WeightsAre
  <2> HIDE DEF s
  <2> QED
    BY <2>3
<1>3. base \in D
  OBVIOUS
<1> HIDE DEF s
<1>4. ASSUME NEW a \in D, NEW n \in 1 .. N PROVE Step(a, s[n]) \in D
  BY <1>2
<1> HIDE DEF Step, base
<1>5. IsStep(F, D, base, N)
  BY <1>2, <1>3, <1>4 DEF IsStep
<1>6. \A a \in D, n \in 1 .. N : F[<<a, n>>] = Step(a, s[n])
  OBVIOUS
<1> HIDE DEF D, F, N, g, Is
<1>7. \E f : Is(f)
  <2>1. PICK f : IsLoop(f, F, D, base, N)
    BY <1>5, Iteration
  <2>2. \A n \in 1 .. N : f[n] = Step(f[n - 1], s[n])
    <3> TAKE n \in 1 .. N
    <3>1. n - 1 \in 0 .. N /\ f[n - 1] \in D
      BY <2>1, <1>2 DEF IsLoop
    <3> QED
      BY <3>1, <2>1, <1>6 DEF IsLoop
  <2>3. f = [n \in 0 .. N |-> IF n = 0 THEN base ELSE Step(f[n - 1], s[n])]
    BY <2>1, <2>2, <1>2 DEF IsLoop
  <2> QED
    BY <2>3 DEF Is
<1>8. Is(g)
  BY <1>7 DEF g
<1>9. g[0] = base /\ \A n \in 1 .. N : g[n] = Step(g[n - 1], s[n])
  BY <1>8, <1>2 DEF Is
<1>10. g = [n \in 0 .. N |-> g[n]]
  BY <1>8 DEF Is
<1>11. IsLoop(g, F, D, base, N)
  <2>1. \A n \in 1 .. N : g[n - 1] \in D => g[n] = F[<<g[n - 1], n>>]
    BY <1>9, <1>6
  <2> QED
    BY <1>5, <1>9, <1>10, <2>1, IterationIs
<1>12. g[N] \in D
  BY <1>2, <1>11 DEF IsLoop
<1> QED
  BY <1>1, <1>12 DEF D

\* dedupeFindings leaves findings it was given.
LEMMA DedupedIs ==
  ASSUME NEW T, NEW s \in Seq(T)
  PROVE  Deduped(s) \in Seq(T)
<1> DEFINE Step(kept, f) == IF \E i \in DOMAIN kept : SameFinding(kept[i], f) THEN kept ELSE Append(kept, f)
           D == Seq(T)
           N == Len(s)
           base == <<>>
           Is(f) == f = [n \in 0 .. N |-> IF n = 0 THEN base ELSE Step(f[n - 1], s[n])]
           F == [x \in D \X (1 .. N) |-> Step(x[1], s[x[2]])]
           g == CHOOSE f : Is(f)
<1>1. Deduped(s) = g[N]
  BY DEF Deduped, Folded
<1>2. N \in Nat /\ \A n \in 1 .. N : s[n] \in T
  OBVIOUS
<1>3. base \in D
  OBVIOUS
<1>4. ASSUME NEW a \in D, NEW n \in 1 .. N PROVE Step(a, s[n]) \in D
  BY <1>2
<1> HIDE DEF Step, base
<1>5. IsStep(F, D, base, N)
  BY <1>2, <1>3, <1>4 DEF IsStep
<1>6. \A a \in D, n \in 1 .. N : F[<<a, n>>] = Step(a, s[n])
  OBVIOUS
<1> HIDE DEF D, F, N, g, Is
<1>7. \E f : Is(f)
  <2>1. PICK f : IsLoop(f, F, D, base, N)
    BY <1>5, Iteration
  <2>2. \A n \in 1 .. N : f[n] = Step(f[n - 1], s[n])
    <3> TAKE n \in 1 .. N
    <3>1. n - 1 \in 0 .. N /\ f[n - 1] \in D
      BY <2>1, <1>2 DEF IsLoop
    <3> QED
      BY <3>1, <2>1, <1>6 DEF IsLoop
  <2>3. f = [n \in 0 .. N |-> IF n = 0 THEN base ELSE Step(f[n - 1], s[n])]
    BY <2>1, <2>2, <1>2 DEF IsLoop
  <2> QED
    BY <2>3 DEF Is
<1>8. Is(g)
  BY <1>7 DEF g
<1>9. g[0] = base /\ \A n \in 1 .. N : g[n] = Step(g[n - 1], s[n])
  BY <1>8, <1>2 DEF Is
<1>10. g = [n \in 0 .. N |-> g[n]]
  BY <1>8 DEF Is
<1>11. IsLoop(g, F, D, base, N)
  <2>1. \A n \in 1 .. N : g[n - 1] \in D => g[n] = F[<<g[n - 1], n>>]
    BY <1>9, <1>6
  <2> QED
    BY <1>5, <1>9, <1>10, <2>1, IterationIs
<1>12. g[N] \in D
  BY <1>2, <1>11 DEF IsLoop
<1> QED
  BY <1>1, <1>12 DEF D
-----------------------------------------------------------------------------
\* The findings there may be on a report.
FindingSet(report) ==
  {OverallFinding(report), TechnicalFinding(report), AlignmentFinding(report), ProjectsFinding(report)}
    \cup {WordFinding(report, "impact", ImpactWord), WordFinding(report, "quantified_achievements", MetricWord),
          WordFinding(report, "leadership", LeadershipWord)}
    \cup {CategoryFinding(report, key) : key \in CategoryKeys}
    \cup {GapFinding(gap) : gap \in ToSet(report.gaps)}

\* slice(0, k) leaves items of the list.
LEMMA FirstSeven ==
  ASSUME NEW T, NEW s \in Seq(T), NEW k \in Nat
  PROVE  SubSeq(s, 1, IF Len(s) < k THEN Len(s) ELSE k) \in Seq(T)
         /\ \A x : x \in ToSet(SubSeq(s, 1, IF Len(s) < k THEN Len(s) ELSE k)) => x \in ToSet(s)
<1> DEFINE m == IF Len(s) < k THEN Len(s) ELSE k
           q == SubSeq(s, 1, m)
<1>1. m \in 0 .. Len(s) /\ DOMAIN s = 1 .. Len(s) /\ \A i \in 1 .. Len(s) : s[i] \in T
  OBVIOUS
<1> HIDE DEF m
<1>2. /\ q \in Seq(T) /\ Len(q) = m /\ DOMAIN q = 1 .. m
      /\ \A i \in 1 .. m : q[i] = s[i]
  BY <1>1
<1> HIDE DEF q
<1>3. \A i \in 1 .. m : i \in DOMAIN s
  BY <1>1
<1>4. \A x : x \in ToSet(q) => x \in ToSet(s)
  BY <1>2, <1>3 DEF ToSet
<1> QED
  BY <1>2, <1>4 DEF q, m

\* The findings on a report are of the kinds below.
LEMMA FindingsAre ==
  ASSUME NEW report, NEW G, report.gaps \in Seq(G)
  PROVE  Findings(report) \in Seq(FindingSet(report))
<1> DEFINE T == FindingSet(report)
           k == 8
           firstGaps == SubSeq(report.gaps, 1, IF Len(report.gaps) < k THEN Len(report.gaps) ELSE k)
           a == <<OverallFinding(report), TechnicalFinding(report), AlignmentFinding(report),
                  WordFinding(report, "impact", ImpactWord)>>
           b == [i \in DOMAIN CategoryOrder |-> CategoryFinding(report, CategoryOrder[i])]
           c == [i \in DOMAIN firstGaps |-> GapFinding(firstGaps[i])]
           d == <<WordFinding(report, "quantified_achievements", MetricWord),
                  WordFinding(report, "leadership", LeadershipWord), ProjectsFinding(report)>>
<1>1. Findings(report) = Deduped(a \o b \o c \o d)
  BY DEF Findings
<1>2. a \in Seq(T)
  <2>1. /\ OverallFinding(report) \in T /\ TechnicalFinding(report) \in T /\ AlignmentFinding(report) \in T
        /\ WordFinding(report, "impact", ImpactWord) \in T
    BY DEF FindingSet
  <2> HIDE DEF T
  <2> QED
    BY <2>1
<1>3. d \in Seq(T)
  <2>1. /\ WordFinding(report, "quantified_achievements", MetricWord) \in T
        /\ WordFinding(report, "leadership", LeadershipWord) \in T /\ ProjectsFinding(report) \in T
    BY DEF FindingSet
  <2> HIDE DEF T
  <2> QED
    BY <2>1
<1>4. b \in Seq(T)
  <2>1. Len(CategoryOrder) \in Nat /\ DOMAIN CategoryOrder = 1 .. Len(CategoryOrder)
        /\ \A i \in DOMAIN CategoryOrder : CategoryOrder[i] \in CategoryKeys
    BY CategoryOrderIs
  <2>2. \A i \in DOMAIN CategoryOrder : CategoryFinding(report, CategoryOrder[i]) \in T
    BY <2>1 DEF FindingSet
  <2> HIDE DEF T
  <2>3. b \in [1 .. Len(CategoryOrder) -> T]
    BY <2>1, <2>2
  <2> QED
    BY <2>1, <2>3
<1>5. c \in Seq(T)
  <2>1. firstGaps \in Seq(G) /\ \A x : x \in ToSet(firstGaps) => x \in ToSet(report.gaps)
    <3> HIDE DEF k
    <3>1. k \in Nat
      BY DEF k
    <3> QED
      BY <3>1, FirstSeven
  <2> HIDE DEF firstGaps
  <2>2. Len(firstGaps) \in Nat /\ DOMAIN firstGaps = 1 .. Len(firstGaps)
    BY <2>1
  <2>3. \A i \in DOMAIN firstGaps : firstGaps[i] \in ToSet(report.gaps)
    BY <2>1 DEF ToSet
  <2>4. \A i \in DOMAIN firstGaps : GapFinding(firstGaps[i]) \in T
    BY <2>3 DEF FindingSet
  <2> HIDE DEF T
  <2>5. c \in [1 .. Len(firstGaps) -> T]
    BY <2>2, <2>4
  <2> QED
    BY <2>2, <2>5
<1> HIDE DEF T, a, b, c, d
<1>6. a \o b \o c \o d \in Seq(T)
  BY <1>2, <1>3, <1>4, <1>5
<1>7. Deduped(a \o b \o c \o d) \in Seq(T)
  BY <1>6, DedupedIs
<1> QED
  BY <1>1, <1>7 DEF T

\* A finding rests on an item of the evidence of its report, or else on none; one that
\* names a skill rests on none and has the skill from a gap.
LEMMA FindingsRest ==
  ASSUME NEW report, NEW E, report.evidence \in Seq(E), NEW f \in FindingSet(report)
  PROVE  /\ f.basis = 0 \/ f.basis \in DOMAIN report.evidence
         /\ f.skill # None => f.basis = 0 /\ \E gap \in ToSet(report.gaps) : f.skill = gap.term
<1> DEFINE evidence == report.evidence
<1>1. DOMAIN evidence = 1 .. Len(evidence) /\ Len(evidence) \in Nat
  OBVIOUS
<1>2. \A I \in SUBSET DOMAIN evidence : FirstOf(I) = 0 \/ FirstOf(I) \in DOMAIN evidence
  <2> HIDE DEF evidence
  <2> TAKE I \in SUBSET DOMAIN evidence
  <2>1. CASE I = {}
    BY <2>1 DEF FirstOf
  <2>2. CASE I # {}
    <3>1. I \in SUBSET (1 .. Len(evidence))
      BY <1>1
    <3>2. Min(I) \in I
      BY <1>1, <2>2, <3>1, FirstIndex
    <3> QED
      BY <2>2, <3>2 DEF FirstOf
  <2> QED
    BY <2>1, <2>2
<1>3. CASE f \in {OverallFinding(report), TechnicalFinding(report)}
  BY <1>3 DEF OverallFinding, TechnicalFinding, Finding
<1>4. CASE f = AlignmentFinding(report)
  <2> DEFINE I == {i \in DOMAIN report.evidence :
                     \/ report.evidence[i].category = "responsibility"
                     \/ "experience" \in report.evidence[i].title}
  <2>1. f.basis = FirstOf(I) /\ f.skill = None
    BY <1>4 DEF AlignmentFinding, Finding
  <2> QED
    BY <1>2, <2>1
<1>5. CASE f = ProjectsFinding(report)
  <2> DEFINE I == {i \in DOMAIN report.evidence : "project" \in report.evidence[i].title}
  <2>1. f.basis = FirstOf(I) /\ f.skill = None
    BY <1>5 DEF ProjectsFinding, Finding
  <2> QED
    BY <1>2, <2>1
<1>6. ASSUME NEW category, NEW word, f = WordFinding(report, category, word)
      PROVE  (f.basis = 0 \/ f.basis \in DOMAIN evidence) /\ f.skill = None
  <2> DEFINE I == {i \in DOMAIN report.evidence : word \in report.evidence[i].text}
  <2>1. f.basis = FirstOf(I) /\ f.skill = None
    BY <1>6 DEF WordFinding, Finding
  <2> QED
    BY <1>2, <2>1
<1>7. ASSUME NEW key, f = CategoryFinding(report, key)
      PROVE  (f.basis = 0 \/ f.basis \in DOMAIN evidence) /\ f.skill = None
  <2> DEFINE I == {i \in DOMAIN report.evidence : report.evidence[i].category = key}
  <2>1. f.basis = FirstOf(I) /\ f.skill = None
    BY <1>7 DEF CategoryFinding, Finding
  <2> QED
    BY <1>2, <2>1
<1>8. ASSUME NEW gap \in ToSet(report.gaps), f = GapFinding(gap)
      PROVE  f.basis = 0 /\ f.skill = gap.term
  BY <1>8 DEF GapFinding, Finding
<1> QED
  BY <1>3, <1>4, <1>5, <1>6, <1>7, <1>8 DEF FindingSet

\* The recommendations there may be.
Advice(report) == {[category |-> f.category, basis |-> f.basis, skill |-> f.skill] : f \in FindingSet(report)}

\* A count is a natural number.
LEMMA CountOfIs ==
  ASSUME NEW T, NEW s \in Seq(T), NEW v
  PROVE  CountOf(s, v) \in Nat
<1> DEFINE ss == [i \in DOMAIN s |-> IF s[i].severity = v THEN <<s[i]>> ELSE <<>>]
           K == {x \in T : x.severity = v}
<1>1. CountOf(s, v) = Len(FlattenSeq(ss))
  BY DEF CountOf, Where
<1>2. IsFilter(ss, s, K)
  BY DEF IsFilter
<1> HIDE DEF ss, K
<1>3. FlattenSeq(ss) \in Seq(T)
  BY <1>2, Filtered
<1>4. Len(FlattenSeq(ss)) \in Nat
  BY <1>3
<1> QED
  BY <1>1, <1>4

\* The recommendations are drawn from the findings.
LEMMA RecommendationsAre ==
  ASSUME NEW report, NEW findings \in Seq(FindingSet(report))
  PROVE  Recommendations(findings) \in Seq(Advice(report))
<1> DEFINE T == FindingSet(report)
           k == 10
           advised == Where(findings, LAMBDA f : f.severity # "strength")
           kept == SubSeq(advised, 1, IF Len(advised) < k THEN Len(advised) ELSE k)
           q == [i \in DOMAIN kept |-> [category |-> kept[i].category, basis |-> kept[i].basis, skill |-> kept[i].skill]]
<1>1. Recommendations(findings) = q
  BY DEF Recommendations
<1>2. advised \in Seq(T)
  <2> DEFINE ss == [i \in DOMAIN findings |-> IF findings[i].severity # "strength" THEN <<findings[i]>> ELSE <<>>]
             K == {x \in T : x.severity # "strength"}
  <2>1. advised = FlattenSeq(ss)
    BY DEF Where
  <2>2. findings \in Seq(T)
    OBVIOUS
  <2> HIDE DEF T
  <2>3. IsFilter(ss, findings, K)
    BY <2>2 DEF IsFilter
  <2> HIDE DEF ss, K
  <2>4. FlattenSeq(ss) \in Seq(T)
    BY <2>2, <2>3, Filtered
  <2> QED
    BY <2>1, <2>4
<1> HIDE DEF T, advised
<1>3. kept \in Seq(T)
  <2> HIDE DEF k
  <2>1. k \in Nat
    BY DEF k
  <2> QED
    BY <1>2, <2>1, FirstSeven
<1> HIDE DEF kept
<1>4. Len(kept) \in Nat /\ DOMAIN kept = 1 .. Len(kept) /\ \A i \in DOMAIN kept : kept[i] \in T
  BY <1>3
<1>5. \A i \in DOMAIN kept : [category |-> kept[i].category, basis |-> kept[i].basis, skill |-> kept[i].skill] \in Advice(report)
  BY <1>4 DEF Advice, T
<1>6. q \in [1 .. Len(kept) -> Advice(report)]
  BY <1>4, <1>5
<1>7. q \in Seq(Advice(report))
  BY <1>4, <1>6
<1> QED
  BY <1>1, <1>7

\* The readiness score is a percentage, whatever the findings take or add.
LEMMA ReadinessScoreIs ==
  ASSUME NEW report, NEW T, NEW findings \in Seq(T), report.overallScore \in Int
  PROVE  ReadinessScore(report, findings) \in 0 .. 100
<1>1. /\ CountOf(findings, "weakness") \in Nat /\ CountOf(findings, "warning") \in Nat
      /\ CountOf(findings, "strength") \in Nat
  BY CountOfIs
<1> DEFINE o == report.overallScore
           a == CountOf(findings, "weakness")
           b == CountOf(findings, "warning")
           c == CountOf(findings, "strength")
<1>2. RawScore(report, findings) = o - 7 * a - 3 * b + 2 * c
  BY DEF RawScore
<1>3. o \in Int /\ a \in Nat /\ b \in Nat /\ c \in Nat
  BY <1>1
<1> HIDE DEF o, a, b, c
<1>4. RawScore(report, findings) \in Int
  <2>1. o - 7 * a - 3 * b + 2 * c \in Int
    BY <1>3
  <2> QED
    BY <1>2, <2>1
<1> DEFINE raw == RawScore(report, findings)
<1>5. ReadinessScore(report, findings) = IF raw < 0 THEN 0 ELSE IF raw > 100 THEN 100 ELSE raw
  BY DEF ReadinessScore
<1>6. raw \in Int
  BY <1>4
<1> HIDE DEF raw
<1> QED
  BY <1>5, <1>6
-----------------------------------------------------------------------------
(* Reports and patches.                                                         *)

\* What a match report on a resume holds.
LEMMA MatchReportIs ==
  ASSUME NEW r, NEW report, report = MatchReportOn(r)
  PROVE  /\ report.evidence = EvidenceIn(r) /\ report.evidence \in Seq(AllEvidence(r))
         /\ report.gaps \in Seq(OpenGaps(r))
         /\ report.overallScore \in 0 .. 100
         /\ \A key \in DOMAIN report.categoryScores : report.categoryScores[key] \in 0 .. 100
         /\ report.of = r
<1>1. /\ report.evidence = EvidenceIn(r) /\ report.gaps = GapsLeftBy(EvidenceIn(r))
      /\ report.overallScore = OverallScore(EvidenceIn(r)) /\ report.of = r
      /\ report.categoryScores = [key \in ToSet(CategoryOrder) |-> CategoryScore(EvidenceIn(r), key)]
  BY DEF MatchReportOn
<1>2. EvidenceIn(r) \in Seq(AllEvidence(r))
  BY EvidenceInIs
<1>3. GapsLeftBy(EvidenceIn(r)) \in Seq(OpenGaps(r))
  BY GapsAre
<1>4. OverallScore(EvidenceIn(r)) \in 0 .. 100
  BY ScoresAreInRange DEF OverallScore
<1>5. \A key : CategoryScore(EvidenceIn(r), key) \in 0 .. 100
  BY ScoresAreInRange DEF CategoryScore
<1> QED
  BY <1>1, <1>2, <1>3, <1>4, <1>5

\* Evidence cites a bullet matching sees, with what it says.
LEMMA EvidenceCites ==
  ASSUME NEW r, NEW e \in ToSet(EvidenceIn(r))
  PROVE  /\ e.bullet \in Bullets /\ r.state[e.bullet] = "visible" /\ e.text = r.text[e.bullet]
<1>1. PICK n \in DOMAIN Requirements : e \in Evidence(r, n)
  BY EvidenceInIs
<1>2. PICK x \in Seen(r) : e = EvidenceRecord(r, n, x, Score(r, n))
  BY <1>1 DEF Evidence
<1>3. x \in Places /\ r.state[x.bullet] = "visible"
  BY DEF Seen
<1>4. e.bullet = x.bullet /\ e.text = r.text[x.bullet]
  BY <1>2 DEF EvidenceRecord
<1> QED
  BY <1>3, <1>4, PlacesAre

\* The patches the recommendations of a report can lead to on a resume.
Replacements(report, r) ==
  {Patch("replace_bullet", e.bullet, r.text[e.bullet], Reworded(r.text[e.bullet], a)) :
     e \in {x \in ToSet(report.evidence) : FindBullet(r, x.bullet)}, a \in Advice(report)}
NewTexts == {{LeadershipHint}, {ClarificationHint}}
Writable(r) == {e \in Entities : FindEntity(r, e)}
Insertions(r) == {Patch("insert_bullet", x, {}, text) : x \in Writable(r), text \in NewTexts}
SkillInsertions(report) == {Patch("insert_skill", "skills", {}, {gap.term}) : gap \in ToSet(report.gaps)}
CandidateSet(report, r) == Replacements(report, r) \cup Insertions(r) \cup SkillInsertions(report)

\* The entity a new bullet goes to is one that is not deleted.
LEMMA WritableEntity ==
  ASSUME NEW r
  PROVE  FirstWritableEntity(r) = None \/ FirstWritableEntity(r) \in Writable(r)
<1> DEFINE s == Layout
           K == {x \in Places : FindEntity(r, x.entity) /\ r.state[x.section] = "visible"}
           ss == [i \in DOMAIN s |-> IF FindEntity(r, s[i].entity) /\ r.state[s[i].section] = "visible" THEN <<s[i]>> ELSE <<>>]
           writable == FlattenSeq(ss)
<1>1. FirstWritableEntity(r) = IF writable = <<>> THEN None ELSE Head(writable).entity
  BY DEF FirstWritableEntity, Where
<1>2. s \in Seq(Places)
  BY PlacesAre
<1> HIDE DEF s
<1>3. IsFilter(ss, s, K)
  BY <1>2 DEF IsFilter
<1>4. \A x \in K : x.entity \in Writable(r)
  BY PlacesAre DEF Writable
<1> HIDE DEF ss, K
<1>5. writable \in Seq(Places) /\ \A x : x \in ToSet(writable) <=> x \in ToSet(s) /\ x \in K
  BY <1>2, <1>3, Filtered
<1> HIDE DEF writable
<1>6. writable # <<>> => Head(writable) \in ToSet(writable)
  BY <1>5, FirstOfSeq
<1> QED
  BY <1>1, <1>4, <1>5, <1>6

\* A recommendation leads to patches of these kinds.
LEMMA PatchesForAre ==
  ASSUME NEW r, NEW report, NEW E, report.evidence \in Seq(E), NEW advice \in Advice(report)
  PROVE  PatchesFor(advice, report, r) \in Seq(CandidateSet(report, r))
<1> DEFINE bullet == report.evidence[advice.basis].bullet
           entity == FirstWritableEntity(r)
           C == CandidateSet(report, r)
<1>1. PICK f \in FindingSet(report) : advice = [category |-> f.category, basis |-> f.basis, skill |-> f.skill]
  BY DEF Advice
<1>2. /\ advice.basis = 0 \/ advice.basis \in DOMAIN report.evidence
      /\ advice.skill # None => advice.basis = 0 /\ \E gap \in ToSet(report.gaps) : advice.skill = gap.term
  BY <1>1, FindingsRest
<1>3. <<>> \in Seq(C)
  OBVIOUS
<1>4. CASE advice.basis # 0
  <2>1. CASE FindBullet(r, bullet)
    <3> DEFINE p == Patch("replace_bullet", bullet, r.text[bullet], Reworded(r.text[bullet], advice))
    <3>1. report.evidence[advice.basis] \in ToSet(report.evidence)
      BY <1>2, <1>4 DEF ToSet
    <3>2. p \in C
      <4>1. p \in Replacements(report, r)
        BY <3>1, <2>1 DEF Replacements
      <4> QED
        BY <4>1 DEF CandidateSet
    <3>3. PatchesFor(advice, report, r) = <<p>>
      BY <1>4, <2>1 DEF PatchesFor
    <3> HIDE DEF p, C
    <3> QED
      BY <3>2, <3>3 DEF C
  <2>2. CASE ~FindBullet(r, bullet)
    BY <1>3, <1>4, <2>2 DEF PatchesFor
  <2> QED
    BY <2>1, <2>2
<1>5. CASE advice.basis = 0 /\ advice.category = "leadership" /\ entity # None
  <2> DEFINE p == Patch("insert_bullet", entity, {}, {LeadershipHint})
  <2>1. entity \in Writable(r)
    BY <1>5, WritableEntity
  <2>2. p \in C
    BY <2>1 DEF CandidateSet, Insertions, NewTexts
  <2>3. PatchesFor(advice, report, r) = <<p>>
    BY <1>5 DEF PatchesFor
  <2> HIDE DEF p, C
  <2> QED
    BY <2>2, <2>3 DEF C
<1>6. CASE advice.basis = 0 /\ ~(advice.category = "leadership" /\ entity # None) /\ advice.skill # None
  <2> DEFINE p == Patch("insert_skill", "skills", {}, {advice.skill})
  <2>1. p \in C
    BY <1>2, <1>6 DEF CandidateSet, SkillInsertions
  <2>2. PatchesFor(advice, report, r) = <<p>>
    BY <1>6 DEF PatchesFor
  <2> HIDE DEF p, C
  <2> QED
    BY <2>1, <2>2 DEF C
<1>7. CASE advice.basis = 0 /\ ~(advice.category = "leadership" /\ entity # None) /\ advice.skill = None
  BY <1>3, <1>7 DEF PatchesFor
<1> QED
  BY <1>4, <1>5, <1>6, <1>7

\* Candidates of a readiness report whose match report is one of t.
LEMMA CandidatesAre ==
  ASSUME NEW n, NEW r, NEW t, matches[readiness[n].match] = MatchReportOn(t),
         readiness[n].recommendations \in Seq(Advice(MatchReportOn(t)))
  PROVE  Candidates(n, r) \in Seq(CandidateSet(MatchReportOn(t), r))
<1> DEFINE report == matches[readiness[n].match]
           advice == readiness[n].recommendations
           ss == [i \in DOMAIN advice |-> PatchesFor(advice[i], report, r)]
           found == FlattenSeq(ss)
           C == CandidateSet(report, r)
           p == Patch("insert_bullet", FirstWritableEntity(r), {}, {ClarificationHint})
<1>1. Candidates(n, r) = IF found = <<>> /\ FirstWritableEntity(r) # None THEN <<p>> ELSE found
  BY DEF Candidates
<1>2. report = MatchReportOn(t) /\ advice \in Seq(Advice(report))
  OBVIOUS
<1> HIDE DEF report, advice
<1>3. report.evidence \in Seq(AllEvidence(t))
  BY <1>2, MatchReportIs
<1>4. Len(advice) \in Nat /\ DOMAIN advice = 1 .. Len(advice) /\ \A i \in DOMAIN advice : advice[i] \in Advice(report)
  BY <1>2
<1>5. \A i \in DOMAIN advice : PatchesFor(advice[i], report, r) \in Seq(C)
  BY <1>3, <1>4, PatchesForAre
<1>6. ss \in Seq(Seq(C))
  <2> HIDE DEF C
  <2>1. ss \in [1 .. Len(advice) -> Seq(C)]
    BY <1>4, <1>5
  <2> QED
    BY <1>4, <2>1
<1>7. found \in Seq(C)
  <2> HIDE DEF ss, C
  <2> QED
    BY <1>6, Flattened
<1>8. FirstWritableEntity(r) # None => p \in C
  BY WritableEntity DEF CandidateSet, Insertions, NewTexts
<1> HIDE DEF p, found, C
<1>9. Candidates(n, r) \in Seq(C)
  BY <1>1, <1>7, <1>8
<1> QED
  BY <1>2, <1>9 DEF C

-----------------------------------------------------------------------------
(* The copy a version is made of.                                               *)

\* A patch that takes the place of a text.
IsReplacement(p) == p.operation = "replace_bullet"

\* What PatchApplier makes of a copy when no two replacements share a target: each replaced
\* bullet has its new text, the others their own, and the insertions are added.
LEMMA CopyIs ==
  ASSUME NEW P, \A p \in P : IsReplacement(p) => p.target \in Rows,
         NEW r \in Resumes, NEW s \in Seq(P),
         \A i, j \in DOMAIN s : i < j /\ IsReplacement(s[i]) /\ IsReplacement(s[j]) => s[i].target # s[j].target,
         NEW copy, copy = PatchedCopy(r, s)
  PROVE  /\ copy.state = r.state
         /\ \A k \in DOMAIN s : IsReplacement(s[k]) => copy.text[s[k].target] = s[k].after
         /\ \A b \in Rows : (\A k \in DOMAIN s : IsReplacement(s[k]) => s[k].target # b) => copy.text[b] = r.text[b]
         /\ ToSet(copy.added) = {[where |-> s[k].target, text |-> s[k].after] : k \in {i \in DOMAIN s : ~IsReplacement(s[i])}}
<1> DEFINE X == {r.text[b] : b \in Rows} \cup {p.after : p \in P}
           Insertion(p) == [where |-> p.target, text |-> p.after]
           Y == {Insertion(p) : p \in P}
           D == [text : [Rows -> X], state : {r.state}, added : Seq(Y)]
           N == Len(s)
           base == [text |-> r.text, state |-> r.state, added |-> <<>>]
           Step(d, p) == ApplyPatch(d, p)
           Is(f) == f = [n \in 0 .. N |-> IF n = 0 THEN base ELSE Step(f[n - 1], s[n])]
           F == [x \in D \X (1 .. N) |-> Step(x[1], s[x[2]])]
           g == CHOOSE f : Is(f)
<1>1. PatchedCopy(r, s) = g[N]
  BY DEF PatchedCopy, Folded
<1>2. N \in Nat /\ DOMAIN s = 1 .. N /\ \A n \in 1 .. N : s[n] \in P
  OBVIOUS
<1>3. base \in D
  <2>1. r.text \in [Rows -> X]
    <3>1. r.text \in [Rows -> SUBSET STRING]
      BY DEF Resumes
    <3>2. \A b \in Rows : r.text[b] \in X
      OBVIOUS
    <3> HIDE DEF X
    <3> QED
      BY <3>1, <3>2
  <2> HIDE DEF X, Y
  <2>2. <<>> \in Seq(Y)
    OBVIOUS
  <2> QED
    BY <2>1, <2>2
\* What a patch does to a document.
<1>4. ASSUME NEW d \in D, NEW p \in P PROVE
        /\ Step(d, p) \in D
        /\ IsReplacement(p) => /\ Step(d, p).text = [d.text EXCEPT ![p.target] = p.after]
                               /\ Step(d, p).added = d.added
        /\ ~IsReplacement(p) => /\ Step(d, p).text = d.text
                                /\ Step(d, p).added = Append(d.added, Insertion(p))
  <2>1. p.after \in X /\ Insertion(p) \in Y
    OBVIOUS
  <2> HIDE DEF X, Insertion, Y
  <2>2. d.text \in [Rows -> X] /\ d.state = r.state /\ d.added \in Seq(Y)
        /\ d = [text |-> d.text, state |-> d.state, added |-> d.added]
    OBVIOUS
  <2>3. CASE IsReplacement(p)
    <3> DEFINE u == [d.text EXCEPT ![p.target] = p.after]
    <3>1. u \in [Rows -> X]
      BY <2>1, <2>2, <2>3
    <3>2. Step(d, p) = [text |-> u, state |-> d.state, added |-> d.added]
      BY <2>2, <2>3 DEF ApplyPatch, IsReplacement
    <3> HIDE DEF u, Step
    <3>3. Step(d, p) \in D
      BY <2>2, <3>1, <3>2
    <3>4. Step(d, p).text = u /\ Step(d, p).added = d.added
      BY <3>2
    <3> QED
      BY <2>3, <3>3, <3>4 DEF u
  <2>4. CASE ~IsReplacement(p)
    <3> DEFINE v == Append(d.added, Insertion(p))
    <3>1. v \in Seq(Y)
      BY <2>1, <2>2
    <3>2. Step(d, p) = [text |-> d.text, state |-> d.state, added |-> v]
      BY <2>2, <2>4 DEF ApplyPatch, IsReplacement, Insertion
    <3> HIDE DEF v, Step
    <3>3. Step(d, p) \in D
      BY <2>2, <3>1, <3>2
    <3>4. Step(d, p).text = d.text /\ Step(d, p).added = v
      BY <3>2
    <3> QED
      BY <2>4, <3>3, <3>4 DEF v
  <2> QED
    BY <2>3, <2>4
<1>20. \A d \in D : d.text \in [Rows -> X] /\ d.state = r.state /\ d.added \in Seq(Y)
  OBVIOUS
<1>21. base.text = r.text /\ base.added = <<>>
  OBVIOUS
<1>22. \A p \in P : Insertion(p) \in Y
  OBVIOUS
<1>23. \A p \in P : p.after \in X
  OBVIOUS
<1>24. \A d \in D, p \in P :
         /\ IsReplacement(p) => /\ Step(d, p).text = [d.text EXCEPT ![p.target] = p.after]
                                /\ Step(d, p).added = d.added
         /\ ~IsReplacement(p) => /\ Step(d, p).text = d.text
                                 /\ Step(d, p).added = Append(d.added, Insertion(p))
  <2> HIDE DEF D, Step, Insertion
  <2> QED
    BY <1>4
<1> HIDE DEF Step, base, X, Y, Insertion
<1>5. IsStep(F, D, base, N)
  BY <1>2, <1>3, <1>4 DEF IsStep
<1>6. \A a \in D, n \in 1 .. N : F[<<a, n>>] = Step(a, s[n])
  OBVIOUS
<1> HIDE DEF D, F, N, g, Is
<1>7. \E f : Is(f)
  <2>1. PICK f : IsLoop(f, F, D, base, N)
    BY <1>5, Iteration
  <2>2. \A n \in 1 .. N : f[n] = Step(f[n - 1], s[n])
    <3> TAKE n \in 1 .. N
    <3>1. n - 1 \in 0 .. N /\ f[n - 1] \in D
      BY <2>1, <1>2 DEF IsLoop
    <3> QED
      BY <3>1, <2>1, <1>6 DEF IsLoop
  <2>3. f = [n \in 0 .. N |-> IF n = 0 THEN base ELSE Step(f[n - 1], s[n])]
    BY <2>1, <2>2, <1>2 DEF IsLoop
  <2> QED
    BY <2>3 DEF Is
<1>8. Is(g)
  BY <1>7 DEF g
<1>9. g[0] = base /\ \A n \in 1 .. N : g[n] = Step(g[n - 1], s[n])
  BY <1>8, <1>2 DEF Is
<1>10. g = [n \in 0 .. N |-> g[n]]
  BY <1>8 DEF Is
<1>11. IsLoop(g, F, D, base, N)
  <2>1. \A n \in 1 .. N : g[n - 1] \in D => g[n] = F[<<g[n - 1], n>>]
    BY <1>9, <1>6
  <2> QED
    BY <1>5, <1>9, <1>10, <2>1, IterationIs
<1>12. \A n \in 0 .. N : g[n] \in D
  BY <1>11 DEF IsLoop
\* The replacements and insertions of the first n patches.
<1> DEFINE R(n) == {k \in 1 .. n : IsReplacement(s[k])}
           J(n) == /\ \A k \in R(n) : g[n].text[s[k].target] = s[k].after
                   /\ \A b \in Rows : (\A k \in R(n) : s[k].target # b) => g[n].text[b] = r.text[b]
                   /\ ToSet(g[n].added) = {Insertion(s[k]) : k \in {i \in 1 .. n : ~IsReplacement(s[i])}}
           S == {n \in 0 .. N : J(n)}
<1>13. 0 \in S
  <2>1. ToSet(<<>>) = {} /\ 1 .. 0 = {} /\ 0 \in 0 .. N
    BY <1>2 DEF ToSet
  <2> QED
    BY <2>1, <1>9, <1>21
<1>14. ASSUME NEW n \in 1 .. N, n - 1 \in S PROVE n \in S
  <2>1. n - 1 \in 0 .. N /\ n \in 0 .. N /\ 1 .. n = (1 .. (n - 1)) \cup {n} /\ n \in DOMAIN s
    BY <1>2
  <2>2. J(n - 1) /\ g[n - 1] \in D /\ s[n] \in P /\ g[n] = Step(g[n - 1], s[n])
    BY <1>2, <1>9, <1>12, <1>14, <2>1
  <2>3. g[n - 1].text \in [Rows -> X] /\ g[n - 1].added \in Seq(Y)
    BY <2>2, <1>20
  <2> DEFINE d == g[n - 1]
  <2>10. d \in D /\ s[n] \in P /\ g[n] = Step(d, s[n])
    BY <2>2
  <2> HIDE DEF d
  <2>4. CASE IsReplacement(s[n])
    <3>9. Step(d, s[n]).text = [d.text EXCEPT ![s[n].target] = s[n].after] /\ Step(d, s[n]).added = d.added
      BY <2>10, <2>4, <1>24
    <3>1. g[n].text = [g[n - 1].text EXCEPT ![s[n].target] = s[n].after] /\ g[n].added = g[n - 1].added
      BY <2>10, <3>9 DEF d
    <3>2. R(n) = R(n - 1) \cup {n} /\ {i \in 1 .. n : ~IsReplacement(s[i])} = {i \in 1 .. (n - 1) : ~IsReplacement(s[i])}
      BY <2>1, <2>4
    <3>3. s[n].target \in Rows /\ g[n].text[s[n].target] = s[n].after
      BY <2>2, <2>3, <2>4, <3>1
    <3>4. \A b \in Rows : b # s[n].target => g[n].text[b] = g[n - 1].text[b]
      BY <2>3, <3>1
    <3>5. \A k \in R(n - 1) : s[k].target \in Rows /\ s[k].target # s[n].target
      <4> TAKE k \in R(n - 1)
      <4>1. k \in DOMAIN s /\ k < n /\ IsReplacement(s[k]) /\ s[k] \in P
        BY <1>2
      <4> QED
        BY <4>1, <2>1, <2>4
    <3> HIDE DEF R
    <3>6. \A k \in R(n) : g[n].text[s[k].target] = s[k].after
      BY <2>2, <3>2, <3>3, <3>4, <3>5
    <3>7. \A b \in Rows : (\A k \in R(n) : s[k].target # b) => g[n].text[b] = r.text[b]
      BY <2>2, <3>2, <3>4
    <3>8. ToSet(g[n].added) = {Insertion(s[k]) : k \in {i \in 1 .. n : ~IsReplacement(s[i])}}
      BY <2>2, <3>1, <3>2
    <3> QED
      BY <2>1, <3>6, <3>7, <3>8
  <2>5. CASE ~IsReplacement(s[n])
    <3>9. Step(d, s[n]).text = d.text /\ Step(d, s[n]).added = Append(d.added, Insertion(s[n]))
      BY <2>10, <2>5, <1>24
    <3>1. g[n].text = g[n - 1].text /\ g[n].added = Append(g[n - 1].added, Insertion(s[n]))
      BY <2>10, <3>9 DEF d
    <3>2. R(n) = R(n - 1) /\ {i \in 1 .. n : ~IsReplacement(s[i])} = {i \in 1 .. (n - 1) : ~IsReplacement(s[i])} \cup {n}
      BY <2>1, <2>5
    <3> HIDE DEF R
    <3>3. \A x : x \in ToSet(g[n].added) <=> x \in ToSet(g[n - 1].added) \/ x = Insertion(s[n])
      <4>1. Insertion(s[n]) \in Y
        BY <2>10, <1>22
      <4> QED
        BY <2>3, <3>1, <4>1, ItemsOfAppend
    <3>4. ToSet(g[n].added) = {Insertion(s[k]) : k \in {i \in 1 .. n : ~IsReplacement(s[i])}}
      BY <2>2, <3>2, <3>3
    <3> QED
      BY <2>1, <2>2, <3>1, <3>2, <3>4
  <2> QED
    BY <2>4, <2>5
<1> HIDE DEF S
<1>15. \A n \in 0 .. N : n \in S
  BY <1>2, <1>13, <1>14, UpTo
<1>16. J(N) /\ N \in 0 .. N
  <2>1. N \in 0 .. N
    BY <1>2
  <2>2. N \in S
    BY <2>1, <1>15
  <2> HIDE DEF J
  <2>3. J(N)
    BY <2>2 DEF S
  <2> QED
    BY <2>1, <2>3
<1>17. g[N].state = r.state
  BY <1>12, <1>16, <1>20
<1>18. {Insertion(s[k]) : k \in {i \in 1 .. N : ~IsReplacement(s[i])}} = {[where |-> s[k].target, text |-> s[k].after] : k \in {i \in DOMAIN s : ~IsReplacement(s[i])}}
  BY <1>2 DEF Insertion
<1> QED
  BY <1>1, <1>2, <1>16, <1>17, <1>18

-----------------------------------------------------------------------------
(* The versions.                                                                *)

\* The versions are a sequence that starts with the promoted draft.
VersionsInv == versions \in Seq(ToSet(versions)) /\ Len(versions) >= 1

IInv == VersionsInv /\ VersionsFormAChain

\* The version a build inserts becomes the last one, the others stay.
LEMMA BuildAppends ==
  ASSUME VersionsInv, NEW s, CreateVersionFromPatchSet(s)
  PROVE  /\ versions' \in Seq(ToSet(versions'))
         /\ Len(versions') = Len(versions) + 1
         /\ \A i \in DOMAIN versions : versions'[i] = versions[i]
         /\ \E x : versions'[Len(versions) + 1] = VersionFrom(s, x)
<1> DEFINE x == Apply(resume, Accepted(sets[s])).snapshot
           v == VersionFrom(s, x)
           S == ToSet(versions) \cup {v}
<1> HIDE DEF v, x
<1>1. versions' = Append(versions, v)
  BY DEF CreateVersionFromPatchSet, v, x
<1>2. versions \in Seq(S)
  BY DEF VersionsInv
<1>3. /\ versions' \in Seq(S)
      /\ Len(versions') = Len(versions) + 1
      /\ \A i \in 1 .. Len(versions) : versions'[i] = versions[i]
      /\ versions'[Len(versions) + 1] = v
  BY <1>1, <1>2
<1>4. ToSet(versions') = {versions'[i] : i \in 1 .. Len(versions')}
  BY <1>3 DEF ToSet
<1>5. versions' \in Seq(ToSet(versions'))
  BY <1>3, <1>4
<1>6. DOMAIN versions = 1 .. Len(versions)
  BY <1>2
<1> QED
  BY <1>3, <1>5, <1>6 DEF v

\* The number and the parent that a build reads are those of the last version.
LEMMA LastIsLatest ==
  ASSUME IInv
  PROVE  LatestVersion = Len(versions) /\ NextVersionNumber = Len(versions) + 1
<1> DEFINE n == Len(versions)
<1>1. n \in Nat /\ n >= 1 /\ DOMAIN versions = 1 .. n
  BY DEF IInv, VersionsInv
<1> HIDE DEF n
<1>2. \A i \in 1 .. n : versions[i].number = i
  BY <1>1 DEF IInv, VersionsFormAChain
<1>3. Numbers = 1 .. n
  BY <1>1, <1>2 DEF Numbers
<1>4. LatestVersion = n
  <2>1. \A i \in 1 .. n : (\A m \in 1 .. n : versions[i].number >= m) <=> i = n
    BY <1>1, <1>2
  <2>2. (CHOOSE i \in 1 .. n : \A m \in 1 .. n : versions[i].number >= m) = n
    BY <1>1, <2>1
  <2> QED
    BY <1>1, <1>3, <2>2 DEF LatestVersion
<1>5. NextVersionNumber = n + 1
  <2>1. \A i \in 1 .. n : (\A m \in 1 .. n : i >= m) <=> i = n
    BY <1>1
  <2>2. (CHOOSE i \in 1 .. n : \A m \in 1 .. n : i >= m) = n
    BY <1>1, <2>1
  <2> QED
    BY <1>3, <2>2 DEF NextVersionNumber
<1> QED
  BY <1>4, <1>5 DEF n

LEMMA InitLemma == ASSUME Init PROVE IInv
<1>1. versions = <<[number |-> 1, parent |-> 0, set |-> 0, rendered |-> {}]>>
  BY DEF Init, VersionsInit
<1>2. Len(versions) = 1 /\ DOMAIN versions = 1 .. 1 /\ versions[1].number = 1 /\ versions[1].parent = 0
  BY <1>1
<1>3. ToSet(versions) = {versions[1]}
  BY <1>2 DEF ToSet
<1>4. versions \in Seq(ToSet(versions))
  BY <1>1, <1>3
<1> QED
  BY <1>2, <1>4 DEF IInv, VersionsInv, VersionsFormAChain

\* Every step but a build leaves the versions alone.
LEMMA OnlyBuildsAddVersions ==
  ASSUME [Next]_vars, ~\E s \in DOMAIN sets : CreateVersionFromPatchSet(s)
  PROVE  versions' = versions
BY DEF Next, vars, ReviewStep, SetPatchReviewState, SetPatchSetReviewState

LEMMA NextLemma == ASSUME IInv, [Next]_vars PROVE IInv'
<1>1. CASE \E s \in DOMAIN sets : CreateVersionFromPatchSet(s)
  <2>1. PICK s \in DOMAIN sets : CreateVersionFromPatchSet(s)
    BY <1>1
  <2>2. PICK x :
          /\ versions' \in Seq(ToSet(versions'))
          /\ Len(versions') = Len(versions) + 1
          /\ \A i \in DOMAIN versions : versions'[i] = versions[i]
          /\ versions'[Len(versions) + 1] = VersionFrom(s, x)
    BY <2>1, BuildAppends DEF IInv
  <2>3. /\ versions'[Len(versions) + 1].number = Len(versions) + 1
        /\ versions'[Len(versions) + 1].parent = Len(versions)
    BY <2>2, LastIsLatest DEF VersionFrom
  <2>4. Len(versions) \in Nat /\ DOMAIN versions = 1 .. Len(versions) /\ Len(versions) >= 1
    BY DEF IInv, VersionsInv
  <2>5. DOMAIN versions' = 1 .. (Len(versions) + 1)
    BY <2>2
  <2>6. VersionsInv'
    BY <2>2, <2>4 DEF VersionsInv
  <2>7. VersionsFormAChain'
    <3> SUFFICES ASSUME NEW i \in DOMAIN versions'
                 PROVE  versions'[i].number = i /\ versions'[i].parent = i - 1
      BY DEF VersionsFormAChain
    <3>1. CASE i \in DOMAIN versions
      BY <3>1, <2>2 DEF IInv, VersionsFormAChain
    <3>2. CASE i = Len(versions) + 1
      BY <3>2, <2>3, <2>4
    <3> QED
      BY <3>1, <3>2, <2>4, <2>5
  <2> QED
    BY <2>6, <2>7 DEF IInv
<1>2. CASE ~\E s \in DOMAIN sets : CreateVersionFromPatchSet(s)
  BY <1>2, OnlyBuildsAddVersions DEF IInv, VersionsInv, VersionsFormAChain
<1> QED
  BY <1>1, <1>2

-----------------------------------------------------------------------------
LEMMA Invariance == Spec => []IInv
<1>1. Init => IInv
  BY InitLemma
<1>2. IInv /\ [Next]_vars => IInv'
  BY NextLemma
<1> QED
  BY <1>1, <1>2, PTL DEF Spec

\* The versions of a resume are numbered without gap or duplicate, and each has the one
\* before it for parent (nextVersionNumber, listVersionsForResume, createVersionFromPatchSet).
THEOREM VersionsAreAChain == Spec => []VersionsFormAChain
<1>1. IInv => VersionsFormAChain
  BY DEF IInv
<1> QED
  BY <1>1, Invariance, PTL

\* No build puts a patch over a text that was edited, hidden or deleted after the patch
\* was made (ConflictDetector, between the accepted patches and the resume of the moment).
THEOREM EditsAreKept == Spec => NoEditIsLost
<1> DEFINE Kept == \A i \in DOMAIN versions' \ DOMAIN versions :
                     \A p \in Built(versions'[i].set) :
                       p.operation = "replace_bullet" => resume.text[p.target] = p.before /\ resume.state[p.target] = "visible"
<1>1. ASSUME IInv, [Next]_vars PROVE Kept
  <2> SUFFICES ASSUME NEW i \in DOMAIN versions' \ DOMAIN versions,
                      NEW p \in Built(versions'[i].set), p.operation = "replace_bullet"
               PROVE  resume.text[p.target] = p.before /\ resume.state[p.target] = "visible"
    OBVIOUS
  <2>1. PICK s \in DOMAIN sets : CreateVersionFromPatchSet(s)
    BY <1>1, OnlyBuildsAddVersions
  <2>2. PICK x :
          /\ versions' \in Seq(ToSet(versions'))
          /\ Len(versions') = Len(versions) + 1
          /\ \A k \in DOMAIN versions : versions'[k] = versions[k]
          /\ versions'[Len(versions) + 1] = VersionFrom(s, x)
    BY <2>1, <1>1, BuildAppends DEF IInv
  <2>3. i = Len(versions) + 1
    BY <2>2, <1>1 DEF IInv, VersionsInv
  <2>4. versions'[i].set = s
    BY <2>2, <2>3 DEF VersionFrom
  <2> DEFINE patches == Accepted(sets[s])
  <2> HIDE DEF patches
  <2>5. ~Conflicts(patches, resume)
    BY <2>1 DEF CreateVersionFromPatchSet, patches
  <2>6. PICK k \in DOMAIN patches : p = patches[k]
    BY <2>4 DEF Built, ToSet, patches
  <2>7. ~MissingTarget(p, resume) /\ ~AlreadyModifiedTarget(p, resume)
    BY <2>5, <2>6 DEF Conflicts
  <2> QED
    BY <2>7 DEF MissingTarget, AlreadyModifiedTarget, FindBullet
<1>2. IInv /\ [Next]_vars => [Kept]_vars
  BY <1>1
<1>3. Spec => [][Kept]_vars
  BY <1>2, Invariance, PTL DEF Spec
<1> QED
  BY <1>3 DEF NoEditIsLost

\* Matching, readiness, review and builds leave the canonical resume as it is, and an
\* edit of it leaves all they have made (PatchApplier works on a structuredClone).
THEOREM OnlyEditsEdit == Spec => NoAutomaticEdit
<1> DEFINE Edited == resume' # resume => edits' = edits + 1 /\ UNCHANGED <<matches, readiness, sets, versions>>
<1>1. ASSUME [Next]_vars PROVE Edited
  <2> SUFFICES ASSUME resume' # resume
               PROVE  edits' = edits + 1 /\ UNCHANGED <<matches, readiness, sets, versions>>
    OBVIOUS
  <2>1. EditStep /\ UNCHANGED <<matches, readiness, sets, versions>>
    <3>1. ASSUME NEW s, CreateVersionFromPatchSet(s) PROVE resume' = resume
      BY <3>1 DEF CreateVersionFromPatchSet, Apply
    <3> QED
      BY <1>1, <3>1 DEF Next, vars, resumeVars
  <2>2. edits' = edits + 1
    BY <2>1 DEF EditStep, UpdateBullet, CreateBullet, DeleteBullet, SetBulletVisibility, UpdateEntity, CreateEntity,
                DeleteEntity, UpdateSection, CreateSection, DeleteSection, SetSectionVisibility, ArchiveResume,
                Write, Add, Show, SoftDelete, Edit
  <2> QED
    BY <2>1, <2>2
<1>2. Spec => [][Edited]_vars
  BY <1>1, PTL DEF Spec
<1> QED
  BY <1>2 DEF NoAutomaticEdit

-----------------------------------------------------------------------------
(* The reports and the patch sets.                                              *)

\* The accepted patches are patches of the set.
LEMMA AcceptedAre ==
  ASSUME NEW P, NEW set, set.patches \in Seq(P)
  PROVE  Accepted(set) \in Seq(P)
<1> DEFINE ss == [i \in DOMAIN set.patches |-> IF set.review[i] = "accepted" THEN <<set.patches[i]>> ELSE <<>>]
<1>1. Accepted(set) = FlattenSeq(ss)
  BY DEF Accepted
<1>2. ss \in Seq(Seq(P))
  <2>1. DOMAIN set.patches = 1 .. Len(set.patches) /\ Len(set.patches) \in Nat
    OBVIOUS
  <2>2. \A i \in DOMAIN set.patches : ss[i] \in Seq(P)
    <3> TAKE i \in DOMAIN set.patches
    <3>1. set.patches[i] \in P
      OBVIOUS
    <3>2. <<set.patches[i]>> \in Seq(P) /\ <<>> \in Seq(P)
      BY <3>1
    <3> QED
      BY <3>2
  <2> QED
    BY <2>1, <2>2
<1> HIDE DEF ss
<1> QED
  BY <1>1, <1>2, Flattened

-----------------------------------------------------------------------------
\* The match reports and the patches there may be.
Reports == {MatchReportOn(r) : r \in Resumes}
PatchSpace == UNION {CandidateSet(MatchReportOn(t), r) : t \in Resumes, r \in Resumes}
ReviewStates == {"pending", "accepted", "rejected"}
SetSpace == [readiness : Nat, patches : Seq(PatchSpace), review : UNION {[1 .. k -> ReviewStates] : k \in Nat}]

\* A patch that replaces a bullet targets a bullet of the layout.
LEMMA ReplacementsHaveTargets ==
  ASSUME NEW p \in PatchSpace, IsReplacement(p)
  PROVE  p.target \in Bullets
<1>1. PICK t \in Resumes, r \in Resumes : p \in CandidateSet(MatchReportOn(t), r)
  BY DEF PatchSpace
<1>2. p \notin Insertions(r) /\ p \notin SkillInsertions(MatchReportOn(t))
  BY DEF Insertions, SkillInsertions, Patch, IsReplacement
<1>3. p \in Replacements(MatchReportOn(t), r)
  BY <1>1, <1>2 DEF CandidateSet
<1>4. PICK e \in ToSet(MatchReportOn(t).evidence) : p.target = e.bullet
  BY <1>3 DEF Replacements, Patch
<1>5. MatchReportOn(t).evidence = EvidenceIn(t)
  BY MatchReportIs
<1> QED
  BY <1>4, <1>5, EvidenceCites

\* What is live stands under what is live.
Attached(r) ==
  \A p \in Places : (Live(r, p.bullet) => Live(r, p.entity)) /\ (Live(r, p.entity) => Live(r, p.section))

ResumeInv == resume \in Resumes /\ Attached(resume) /\ active \in BOOLEAN /\ edits \in 0 .. MaxEdits

MatchesInv == matches \in Seq(Reports)

ReadinessInv ==
  /\ readiness \in Seq(ToSet(readiness))
  /\ \A n \in DOMAIN readiness :
       /\ readiness[n].match \in DOMAIN matches
       /\ readiness[n].readinessScore \in 0 .. 100
       /\ readiness[n].recommendations \in Seq(Advice(matches[readiness[n].match]))

SetsInv ==
  /\ sets \in Seq(SetSpace)
  /\ \A s \in DOMAIN sets :
       /\ sets[s].readiness \in DOMAIN readiness
       /\ sets[s].review \in [DOMAIN sets[s].patches -> ReviewStates]

BuildsInv == Len(versions) <= MaxVersions /\ \A i \in DOMAIN versions : versions[i].set \in 0 .. Len(sets)

DataInv == ResumeInv /\ MatchesInv /\ ReadinessInv /\ SetsInv /\ BuildsInv

\* What a readiness report on a match report holds.
LEMMA ReadinessReportIs ==
  ASSUME MatchesInv, NEW m \in DOMAIN matches
  PROVE  /\ ReadinessReportOn(m).match = m
         /\ ReadinessReportOn(m).readinessScore \in 0 .. 100
         /\ ReadinessReportOn(m).recommendations \in Seq(Advice(matches[m]))
<1>1. PICK r \in Resumes : matches[m] = MatchReportOn(r)
  BY DEF MatchesInv, Reports
<1> DEFINE report == matches[m]
           findings == Findings(report)
<1>2. /\ ReadinessReportOn(m).match = m
      /\ ReadinessReportOn(m).readinessScore = ReadinessScore(report, findings)
      /\ ReadinessReportOn(m).recommendations = Recommendations(findings)
  BY DEF ReadinessReportOn
<1> HIDE DEF report
<1>3. report.gaps \in Seq(OpenGaps(r)) /\ report.overallScore \in Int
  <2>1. report = MatchReportOn(r)
    BY <1>1 DEF report
  <2>2. report.gaps \in Seq(OpenGaps(r)) /\ report.overallScore \in 0 .. 100
    BY <2>1, MatchReportIs
  <2>3. \A x \in 0 .. 100 : x \in Int
    OBVIOUS
  <2> HIDE DEF report
  <2> QED
    BY <2>2, <2>3
<1>4. findings \in Seq(FindingSet(report))
  BY <1>3, FindingsAre
<1> HIDE DEF findings
<1>5. Recommendations(findings) \in Seq(Advice(report))
  BY <1>4, RecommendationsAre
<1>6. ReadinessScore(report, findings) \in 0 .. 100
  BY <1>3, <1>4, ReadinessScoreIs
<1> QED
  BY <1>2, <1>5, <1>6 DEF report

\* What a readiness report would propose for the resume of the moment.
LEMMA ProposedAre ==
  ASSUME MatchesInv, ReadinessInv, NEW n \in DOMAIN readiness
  PROVE  \E t \in Resumes : /\ matches[readiness[n].match] = MatchReportOn(t)
                            /\ \A r : Candidates(n, r) \in Seq(CandidateSet(MatchReportOn(t), r))
<1>1. readiness[n].match \in DOMAIN matches
  BY DEF ReadinessInv
<1>2. PICK t \in Resumes : matches[readiness[n].match] = MatchReportOn(t)
  BY <1>1 DEF MatchesInv, Reports
<1>3. readiness[n].recommendations \in Seq(Advice(MatchReportOn(t)))
  BY <1>2 DEF ReadinessInv
<1>4. \A r : Candidates(n, r) \in Seq(CandidateSet(MatchReportOn(t), r))
  BY <1>2, <1>3, CandidatesAre
<1> QED
  BY <1>2, <1>4

\* What a new patch set holds.
LEMMA PatchSetIs ==
  ASSUME ResumeInv, MatchesInv, ReadinessInv, NEW n \in DOMAIN readiness
  PROVE  /\ PatchSetOf(n) \in SetSpace
         /\ PatchSetOf(n).readiness = n
         /\ PatchSetOf(n).review \in [DOMAIN PatchSetOf(n).patches -> ReviewStates]
<1> DEFINE patches == Candidates(n, resume)
           review == [i \in DOMAIN patches |-> "pending"]
<1>1. PICK t \in Resumes : patches \in Seq(CandidateSet(MatchReportOn(t), resume))
  BY ProposedAre
<1>2. patches \in Seq(PatchSpace)
  <2>1. CandidateSet(MatchReportOn(t), resume) \subseteq PatchSpace
    BY DEF PatchSpace, ResumeInv
  <2> HIDE DEF patches
  <2> QED
    BY <1>1, <2>1
<1>3. PatchSetOf(n) = [readiness |-> n, patches |-> patches, review |-> review]
  BY DEF PatchSetOf
<1> HIDE DEF patches
<1>4. n \in Nat
  BY DEF ReadinessInv
<1>5. review \in [DOMAIN patches -> ReviewStates] /\ DOMAIN patches = 1 .. Len(patches) /\ Len(patches) \in Nat
  BY <1>2 DEF ReviewStates
<1> HIDE DEF review
<1>6. review \in UNION {[1 .. k -> ReviewStates] : k \in Nat}
  BY <1>5
<1>7. PatchSetOf(n) \in SetSpace
  BY <1>2, <1>3, <1>4, <1>6 DEF SetSpace, ResumeInv
<1> QED
  BY <1>3, <1>5, <1>7

\* The first state.
LEMMA DataInit == ASSUME Init PROVE DataInv
<1>1. ResumeInv
  <2> DEFINE text == [x \in Rows |-> IF x \in DOMAIN FirstText THEN FirstText[x] ELSE {}]
             state == [x \in Rows |-> IF x \in DOMAIN FirstText THEN "visible" ELSE "absent"]
  <2>1. text \in [Rows -> SUBSET STRING]
    BY ResumeAssumption
  <2>2. state \in [Rows -> States]
    BY DEF States
  <2>3. resume = [text |-> text, state |-> state] /\ active = TRUE /\ edits = 0
    BY DEF Init, ResumeInit
  <2>4. \A x \in Rows : Live(resume, x) <=> x \in DOMAIN FirstText
    BY <2>3 DEF Live
  <2>5. Attached(resume)
    BY <2>4, KindsAre, ResumeAssumption DEF Attached
  <2> HIDE DEF text, state
  <2>6. resume \in Resumes
    BY <2>1, <2>2, <2>3 DEF Resumes
  <2> QED
    BY <2>3, <2>5, <2>6, ResumeAssumption DEF ResumeInv
<1>2. MatchesInv /\ ReadinessInv /\ SetsInv
  <2>1. matches = <<>> /\ readiness = <<>> /\ sets = <<>>
    BY DEF Init
  <2> QED
    BY <2>1 DEF MatchesInv, ReadinessInv, SetsInv, ToSet
<1>3. BuildsInv
  <2>1. Len(versions) = 1 /\ DOMAIN versions = 1 .. 1 /\ versions[1].set = 0
    BY DEF Init, VersionsInit
  <2>2. Len(sets) = 0
    BY DEF Init
  <2> QED
    BY <2>1, <2>2, VersionsAssumption DEF BuildsInv
<1> QED
  BY <1>1, <1>2, <1>3 DEF DataInv

\* A row that is added or shown stands under live ones.
LEMMA AddedIsAttached ==
  ASSUME NEW r, NEW q, Attached(r), NEW x,
         \A y \in Rows : Live(q, y) => Live(r, y) \/ y = x,
         \A y \in Rows : Live(r, y) => Live(q, y),
         \A p \in Places : (p.bullet = x => Live(r, p.entity)) /\ (p.entity = x => Live(r, p.section))
  PROVE  Attached(q)
BY KindsAre DEF Attached

\* A row that is deleted takes those under it along.
LEMMA RestIsAttached ==
  ASSUME NEW r, NEW q, Attached(r), NEW x,
         \A y \in Rows : Live(q, y) <=> Live(r, y) /\ y \notin Under(x)
  PROVE  Attached(q)
<1> SUFFICES ASSUME NEW p \in Places
             PROVE  (Live(q, p.bullet) => Live(q, p.entity)) /\ (Live(q, p.entity) => Live(q, p.section))
  BY DEF Attached
<1>1. p.bullet \in Rows /\ p.entity \in Rows /\ p.section \in Rows
  BY KindsAre
<1>2. p.entity \in Under(x) => p.bullet \in Under(x)
  <2> SUFFICES ASSUME p.entity \in Under(x) PROVE p.bullet \in Under(x)
    OBVIOUS
  <2>1. CASE x = p.entity \/ x = p.section
    BY <2>1 DEF Under
  <2>2. CASE \E o \in Places : p.entity = o.entity /\ o.section = x
    BY <2>1, <2>2, ResumeAssumption
  <2>3. p.entity = x \/ (\E o \in Places : p.entity = o.entity /\ o.section = x) \/ \E o \in Places : p.entity = o.bullet
    BY DEF Under
  <2> QED
    BY <2>1, <2>2, <2>3, KindsAre
<1>3. p.section \in Under(x) => p.entity \in Under(x)
  <2> SUFFICES ASSUME p.section \in Under(x) PROVE p.entity \in Under(x)
    OBVIOUS
  <2>1. p.section = x \/ (\E o \in Places : p.section = o.entity) \/ \E o \in Places : p.section = o.bullet
    BY DEF Under
  <2>2. p.section = x
    BY <2>1, KindsAre
  <2> QED
    BY <2>2 DEF Under
<1> QED
  BY <1>1, <1>2, <1>3 DEF Attached

\* What each kind of edit leaves of the resume.
LEMMA EditIs ==
  ASSUME ResumeInv, NEW text \in [Rows -> SUBSET STRING], NEW state \in [Rows -> States],
         NEW r, r = [text |-> text, state |-> state], Attached(r), Edit(r)
  PROVE  ResumeInv'
<1>1. r \in Resumes
  BY DEF Resumes
<1>2. resume' = r /\ edits' = edits + 1 /\ edits < MaxEdits /\ active' = active
  BY DEF Edit
<1>3. edits' \in 0 .. MaxEdits
  BY <1>2, ResumeAssumption DEF ResumeInv
<1> QED
  BY <1>1, <1>2, <1>3 DEF ResumeInv, Attached, Live

LEMMA ResumeIs ==
  ASSUME ResumeInv
  PROVE  /\ resume.text \in [Rows -> SUBSET STRING] /\ resume.state \in [Rows -> States]
         /\ resume = [text |-> resume.text, state |-> resume.state]
BY DEF ResumeInv, Resumes

LEMMA WriteNext ==
  ASSUME ResumeInv, NEW x \in Rows, NEW t \in SUBSET STRING, Write(x, t)
  PROVE  ResumeInv'
<1> DEFINE text == [resume.text EXCEPT ![x] = t]
           r == [resume EXCEPT !.text[x] = t]
<1>1. text \in [Rows -> SUBSET STRING]
  BY ResumeIs
<1>2. r = [text |-> text, state |-> resume.state] /\ Edit(r)
  BY ResumeIs DEF Write
<1> HIDE DEF r, text
<1>3. Attached(r)
  BY <1>2 DEF ResumeInv, Attached, Live
<1> QED
  BY <1>1, <1>2, <1>3, ResumeIs, EditIs

LEMMA AddNext ==
  ASSUME ResumeInv, NEW x \in Rows, NEW t \in SUBSET STRING, NEW beside, Add(x, t, beside),
         \A p \in Places : (p.bullet = x => Live(resume, p.entity)) /\ (p.entity = x => Live(resume, p.section))
  PROVE  ResumeInv'
<1> DEFINE text == [resume.text EXCEPT ![x] = t]
           state == [resume.state EXCEPT ![x] = "visible"]
           q == [resume EXCEPT !.text[x] = t]
           r == [resume EXCEPT !.text[x] = t, !.state[x] = "visible"]
<1>1. text \in [Rows -> SUBSET STRING] /\ state \in [Rows -> States]
  BY ResumeIs DEF States
<1>2. Edit(r)
  BY DEF Add
<1>3. r = [text |-> text, state |-> state]
  <2>1. q = [text |-> text, state |-> resume.state]
    BY ResumeIs
  <2>2. r = [q EXCEPT !.state[x] = "visible"]
    OBVIOUS
  <2> HIDE DEF q
  <2>3. [q EXCEPT !.state[x] = "visible"] = [text |-> text, state |-> state]
    BY <2>1
  <2> QED
    BY <2>2, <2>3
<1>4. /\ \A y \in Rows : y # x => state[y] = resume.state[y]
      /\ state[x] = "visible"
  BY ResumeIs
<1> HIDE DEF r, text, state
<1>5. r.state = state
  BY <1>3
<1>6. (\A y \in Rows : Live(r, y) => Live(resume, y) \/ y = x) /\ (\A y \in Rows : Live(resume, y) => Live(r, y))
  BY <1>4, <1>5 DEF Live
<1>7. Attached(r)
  BY <1>6, AddedIsAttached DEF ResumeInv
<1> QED
  BY <1>1, <1>2, <1>3, <1>7, EditIs

LEMMA ShowNext ==
  ASSUME ResumeInv, NEW x \in Rows, NEW v \in {"visible", "hidden"}, Show(x, v)
  PROVE  ResumeInv'
<1> DEFINE state == [resume.state EXCEPT ![x] = v]
           r == [resume EXCEPT !.state[x] = v]
<1>1. state \in [Rows -> States]
  BY ResumeIs DEF States
<1>2. r = [text |-> resume.text, state |-> state] /\ Edit(r) /\ Live(resume, x)
  BY ResumeIs DEF Show
<1>3. (\A y \in Rows : y # x => state[y] = resume.state[y]) /\ state[x] \in {"visible", "hidden"}
  BY ResumeIs
<1> HIDE DEF r, state
<1>4. \A y \in Rows : Live(r, y) <=> Live(resume, y)
  BY <1>2, <1>3 DEF Live
<1>5. Attached(r)
  BY <1>4, KindsAre DEF ResumeInv, Attached
<1> QED
  BY <1>1, <1>2, <1>5, ResumeIs, EditIs

LEMMA SoftDeleteNext ==
  ASSUME ResumeInv, NEW x \in Rows, SoftDelete(x)
  PROVE  ResumeInv'
<1> DEFINE state == [y \in Rows |-> IF y \in Under(x) /\ Live(resume, y) THEN "deleted" ELSE resume.state[y]]
           r == [resume EXCEPT !.state = state]
<1>1. state \in [Rows -> States]
  BY ResumeIs DEF States
<1>2. Edit(r)
  BY DEF SoftDelete
<1>3. \A y \in Rows : state[y] = IF y \in Under(x) /\ Live(resume, y) THEN "deleted" ELSE resume.state[y]
  OBVIOUS
<1> HIDE DEF state
<1>4. r = [text |-> resume.text, state |-> state]
  BY ResumeIs
<1> HIDE DEF r
<1>5. \A y \in Rows : Live(r, y) <=> Live(resume, y) /\ y \notin Under(x)
  BY <1>3, <1>4 DEF Live
<1>6. Attached(r)
  BY <1>5, RestIsAttached DEF ResumeInv
<1> QED
  BY <1>1, <1>2, <1>4, <1>6, ResumeIs, EditIs

\* No step but an edit touches the resume, and an edit leaves it one of those there may be.
LEMMA ResumeNext ==
  ASSUME ResumeInv, [Next]_vars
  PROVE  ResumeInv'
<1>1. ASSUME EditStep PROVE ResumeInv'
  <2>1. (\A t \in Phrases : t \in SUBSET STRING) /\ (\A t \in Titles : t \in SUBSET STRING)
    BY ResumeAssumption
  <2>2. ASSUME NEW b \in Bullets, NEW t \in Phrases, UpdateBullet(b, t) PROVE ResumeInv'
    BY <2>1, <2>2, WriteNext, KindsAre DEF UpdateBullet
  <2>3. ASSUME NEW b \in Bullets, NEW t \in Phrases, CreateBullet(b, t) PROVE ResumeInv'
    <3> DEFINE e == PlaceOf(b).entity
               beside == Bullets \cap Under(e)
    <3>1. Live(resume, e) /\ Add(b, t, beside)
      BY <2>3 DEF CreateBullet
    <3>2. \A p \in Places : (p.bullet = b => Live(resume, p.entity)) /\ p.entity # b
      BY <3>1, PlaceIs, KindsAre
    <3> HIDE DEF beside, e
    <3> QED
      BY <2>1, <3>1, <3>2, AddNext, KindsAre
  <2>4. ASSUME NEW b \in Bullets, DeleteBullet(b) PROVE ResumeInv'
    BY <2>4, SoftDeleteNext, KindsAre DEF DeleteBullet
  <2>5. ASSUME NEW b \in Bullets, NEW v \in {"visible", "hidden"}, SetBulletVisibility(b, v) PROVE ResumeInv'
    BY <2>5, ShowNext, KindsAre DEF SetBulletVisibility
  <2>6. ASSUME NEW e \in Entities, NEW t \in Titles, UpdateEntity(e, t) PROVE ResumeInv'
    BY <2>1, <2>6, WriteNext, KindsAre DEF UpdateEntity
  <2>7. ASSUME NEW e \in Entities, NEW t \in Titles, CreateEntity(e, t) PROVE ResumeInv'
    <3> DEFINE s == SectionOf(e)
               beside == Entities \cap Under(s)
    <3>1. Live(resume, s) /\ Add(e, t, beside)
      BY <2>7 DEF CreateEntity
    <3>2. \A p \in Places : p.bullet # e /\ (p.entity = e => Live(resume, p.section))
      BY <3>1, SectionIs, KindsAre
    <3> HIDE DEF beside, s
    <3> QED
      BY <2>1, <3>1, <3>2, AddNext, KindsAre
  <2>8. ASSUME NEW e \in Entities, DeleteEntity(e) PROVE ResumeInv'
    BY <2>8, SoftDeleteNext, KindsAre DEF DeleteEntity
  <2>9. ASSUME NEW s \in Sections, NEW t \in Titles, UpdateSection(s, t) PROVE ResumeInv'
    BY <2>1, <2>9, WriteNext, KindsAre DEF UpdateSection
  <2>10. ASSUME NEW s \in Sections, NEW t \in Titles, CreateSection(s, t) PROVE ResumeInv'
    <3>1. Add(s, t, Sections)
      BY <2>10 DEF CreateSection
    <3>2. \A p \in Places : p.bullet # s /\ p.entity # s
      BY KindsAre
    <3> QED
      BY <2>1, <3>1, <3>2, AddNext, KindsAre
  <2>11. ASSUME NEW s \in Sections, DeleteSection(s) PROVE ResumeInv'
    BY <2>11, SoftDeleteNext, KindsAre DEF DeleteSection
  <2>12. ASSUME NEW s \in Sections, NEW v \in {"visible", "hidden"}, SetSectionVisibility(s, v) PROVE ResumeInv'
    BY <2>12, ShowNext, KindsAre DEF SetSectionVisibility
  <2>13. ASSUME ArchiveResume PROVE ResumeInv'
    BY <2>13 DEF ArchiveResume, ResumeInv, Attached, Live
  <2> QED
    BY <1>1, <2>2, <2>3, <2>4, <2>5, <2>6, <2>7, <2>8, <2>9, <2>10, <2>11, <2>12, <2>13 DEF EditStep
<1>2. ASSUME NEW s, CreateVersionFromPatchSet(s), UNCHANGED <<active, edits>> PROVE ResumeInv'
  BY <1>2 DEF CreateVersionFromPatchSet, Apply, ResumeInv, Attached, Live
<1>3. ASSUME UNCHANGED resumeVars PROVE ResumeInv'
  BY <1>3 DEF resumeVars, ResumeInv, Attached, Live
<1> QED
  BY <1>1, <1>2, <1>3 DEF Next, vars

\* A step that leaves a variable alone leaves alone what is said of it and of those before it.
LEMMA UnchangedKeeps ==
  ASSUME DataInv
  PROVE  /\ matches' = matches => MatchesInv'
         /\ matches' = matches /\ readiness' = readiness => ReadinessInv'
         /\ readiness' = readiness /\ sets' = sets => SetsInv'
         /\ sets' = sets /\ versions' = versions => BuildsInv'
BY DEF DataInv, MatchesInv, ReadinessInv, SetsInv, BuildsInv

\* One more match report leaves those there are, and what the readiness reports say of them.
LEMMA MatchNext ==
  ASSUME DataInv, CreateMatchReport, readiness' = readiness
  PROVE  MatchesInv' /\ ReadinessInv'
<1> DEFINE x == MatchReportOn(resume)
<1>1. matches' = Append(matches, x)
  BY DEF CreateMatchReport
<1>2. x \in Reports
  BY DEF Reports, DataInv, ResumeInv
<1>3. matches \in Seq(Reports)
  BY DEF DataInv, MatchesInv
<1> HIDE DEF x
<1>4. matches' \in Seq(Reports) /\ \A m \in DOMAIN matches : m \in DOMAIN matches' /\ matches'[m] = matches[m]
  BY <1>1, <1>2, <1>3
<1>5. ReadinessInv'
  BY <1>4 DEF DataInv, ReadinessInv
<1> QED
  BY <1>4, <1>5 DEF MatchesInv

\* One more readiness report leaves those there are.
LEMMA ReadinessNext ==
  ASSUME DataInv, NEW m \in DOMAIN matches, CreateReadinessReport(m), matches' = matches, sets' = sets
  PROVE  ReadinessInv' /\ SetsInv'
<1> DEFINE x == ReadinessReportOn(m)
           T == ToSet(readiness) \cup {x}
<1>1. readiness' = Append(readiness, x)
  BY DEF CreateReadinessReport
<1>2. x.match = m /\ x.readinessScore \in 0 .. 100 /\ x.recommendations \in Seq(Advice(matches[m]))
  BY ReadinessReportIs DEF DataInv
<1> HIDE DEF x
<1>3. readiness \in Seq(T) /\ x \in T
  BY DEF DataInv, ReadinessInv
<1> HIDE DEF T
<1>4. /\ readiness' \in Seq(T)
      /\ \A n \in DOMAIN readiness : n \in DOMAIN readiness' /\ readiness'[n] = readiness[n]
      /\ \A n \in DOMAIN readiness' : n \in DOMAIN readiness \/ readiness'[n] = x
  BY <1>1, <1>3
<1>5. readiness' \in Seq(ToSet(readiness'))
  <2>1. DOMAIN readiness' = 1 .. Len(readiness') /\ Len(readiness') \in Nat
    BY <1>4
  <2>2. \A n \in DOMAIN readiness' : readiness'[n] \in ToSet(readiness')
    BY DEF ToSet
  <2>3. readiness' = [n \in 1 .. Len(readiness') |-> readiness'[n]]
    BY <1>4
  <2> QED
    BY <2>1, <2>2, <2>3
<1>6. ReadinessInv'
  BY <1>2, <1>4, <1>5 DEF DataInv, ReadinessInv
<1>7. SetsInv'
  BY <1>4 DEF DataInv, SetsInv
<1> QED
  BY <1>6, <1>7

\* One more patch set leaves those there are.
LEMMA PatchSetNext ==
  ASSUME DataInv, NEW n \in DOMAIN readiness, CreatePatchSet(n), readiness' = readiness, versions' = versions
  PROVE  SetsInv' /\ BuildsInv'
<1> DEFINE x == PatchSetOf(n)
<1>1. sets' = Append(sets, x)
  BY DEF CreatePatchSet
<1>2. x \in SetSpace /\ x.readiness = n /\ x.review \in [DOMAIN x.patches -> ReviewStates]
  BY PatchSetIs DEF DataInv
<1> HIDE DEF x
<1>3. sets \in Seq(SetSpace)
  BY DEF DataInv, SetsInv
<1>4. /\ sets' \in Seq(SetSpace) /\ Len(sets') = Len(sets) + 1 /\ Len(sets) \in Nat
      /\ \A s \in DOMAIN sets : sets'[s] = sets[s]
      /\ \A s \in DOMAIN sets' : s \in DOMAIN sets \/ sets'[s] = x
  BY <1>1, <1>2, <1>3
<1>5. SetsInv'
  BY <1>2, <1>4 DEF DataInv, SetsInv
<1>6. BuildsInv'
  BY <1>4 DEF DataInv, BuildsInv
<1> QED
  BY <1>5, <1>6

\* A review changes nothing of a set but its review states.
LEMMA ReviewIs ==
  ASSUME SetsInv, BuildsInv, NEW s \in DOMAIN sets, NEW w \in [DOMAIN sets[s].patches -> ReviewStates],
         sets' = [sets EXCEPT ![s] = [sets[s] EXCEPT !.review = w]], readiness' = readiness, versions' = versions
  PROVE  SetsInv' /\ BuildsInv'
<1> DEFINE x == [sets[s] EXCEPT !.review = w]
           old == sets[s]
<1>1. old \in SetSpace /\ sets \in Seq(SetSpace) /\ old.readiness \in DOMAIN readiness
  BY DEF SetsInv
<1>2. x = [readiness |-> old.readiness, patches |-> old.patches, review |-> w]
      /\ old.readiness \in Nat /\ old.patches \in Seq(PatchSpace)
  <2> HIDE DEF old
  <2>1. [old EXCEPT !.review = w] = [readiness |-> old.readiness, patches |-> old.patches, review |-> w]
        /\ old.readiness \in Nat /\ old.patches \in Seq(PatchSpace)
    <3> DEFINE R == UNION {[1 .. k -> ReviewStates] : k \in Nat}
    <3>1. old \in [readiness : Nat, patches : Seq(PatchSpace), review : R]
      BY <1>1 DEF SetSpace
    <3> HIDE DEF R
    <3> QED
      BY <3>1
  <2> QED
    BY <2>1 DEF old
<1>3. w \in UNION {[1 .. k -> ReviewStates] : k \in Nat}
  <2>1. DOMAIN old.patches = 1 .. Len(old.patches) /\ Len(old.patches) \in Nat
    BY <1>2
  <2> QED
    BY <2>1
<1>4. x \in SetSpace
  <2> HIDE DEF x, old
  <2> QED
    BY <1>2, <1>3 DEF SetSpace
<1>5. sets' = [sets EXCEPT ![s] = x]
  OBVIOUS
<1>6. x.readiness = old.readiness /\ x.patches = old.patches /\ x.review = w
  BY <1>2
<1> HIDE DEF x
<1>7. sets' \in Seq(SetSpace) /\ Len(sets') = Len(sets) /\ DOMAIN sets' = DOMAIN sets
      /\ sets'[s] = x /\ \A i \in DOMAIN sets : i # s => sets'[i] = sets[i]
  BY <1>1, <1>4, <1>5
<1>8. SetsInv'
  BY <1>1, <1>6, <1>7 DEF SetsInv
<1>9. BuildsInv'
  BY <1>7 DEF BuildsInv
<1> QED
  BY <1>8, <1>9

\* Of one patch or of all of them.
LEMMA ReviewNext ==
  ASSUME DataInv, ReviewStep, readiness' = readiness, versions' = versions
  PROVE  SetsInv' /\ BuildsInv'
<1>1. PICK s \in DOMAIN sets, v \in {"accepted", "rejected"} :
        SetPatchSetReviewState(s, v) \/ \E i \in DOMAIN sets[s].patches : SetPatchReviewState(s, i, v)
  BY DEF ReviewStep
<1>2. sets[s].review \in [DOMAIN sets[s].patches -> ReviewStates] /\ v \in ReviewStates
  BY DEF DataInv, SetsInv, ReviewStates
<1>3. ASSUME SetPatchSetReviewState(s, v) PROVE SetsInv' /\ BuildsInv'
  <2> DEFINE w == [i \in DOMAIN sets[s].review |-> v]
  <2>1. w \in [DOMAIN sets[s].patches -> ReviewStates]
    BY <1>2
  <2>2. sets' = [sets EXCEPT ![s] = [sets[s] EXCEPT !.review = w]]
    BY <1>3 DEF SetPatchSetReviewState
  <2> HIDE DEF w
  <2> QED
    BY <2>1, <2>2, ReviewIs DEF DataInv
<1>4. ASSUME NEW i \in DOMAIN sets[s].patches, SetPatchReviewState(s, i, v) PROVE SetsInv' /\ BuildsInv'
  <2> DEFINE w == [sets[s].review EXCEPT ![i] = v]
  <2>1. w \in [DOMAIN sets[s].patches -> ReviewStates]
    BY <1>2
  <2>2. sets' = [sets EXCEPT ![s] = [sets[s] EXCEPT !.review = w]]
    BY <1>4 DEF SetPatchReviewState
  <2> HIDE DEF w
  <2> QED
    BY <2>1, <2>2, ReviewIs DEF DataInv
<1> QED
  BY <1>1, <1>3, <1>4

\* A version is built from a set there is.
LEMMA BuildNext ==
  ASSUME IInv, DataInv, NEW s \in DOMAIN sets, CreateVersionFromPatchSet(s), sets' = sets
  PROVE  BuildsInv'
<1>1. PICK x :
        /\ versions' \in Seq(ToSet(versions'))
        /\ Len(versions') = Len(versions) + 1
        /\ \A i \in DOMAIN versions : versions'[i] = versions[i]
        /\ versions'[Len(versions) + 1] = VersionFrom(s, x)
  BY BuildAppends DEF IInv
<1>2. Len(versions) < MaxVersions /\ Len(versions) \in Nat /\ MaxVersions \in Nat
  BY VersionsAssumption DEF CreateVersionFromPatchSet, IInv, VersionsInv
<1>3. VersionFrom(s, x).set = s /\ s \in 0 .. Len(sets)
  BY DEF VersionFrom, DataInv, SetsInv
<1>4. \A i \in DOMAIN versions' : i \in DOMAIN versions \/ i = Len(versions) + 1
  BY <1>1 DEF IInv, VersionsInv
<1> QED
  BY <1>1, <1>2, <1>3, <1>4 DEF BuildsInv, DataInv

\* Every step keeps the invariant.
LEMMA DataNext == ASSUME IInv, DataInv, [Next]_vars PROVE DataInv'
<1>1. ResumeInv'
  BY ResumeNext DEF DataInv
<1>2. MatchesInv' /\ ReadinessInv' /\ SetsInv' /\ BuildsInv'
  <2> USE UnchangedKeeps
  <2>1. CASE EditStep /\ UNCHANGED <<matches, readiness, sets, versions>>
    BY <2>1
  <2>2. CASE CreateMatchReport /\ UNCHANGED <<resumeVars, readiness, sets, versions>>
    BY <2>2, MatchNext
  <2>3. CASE \E m \in DOMAIN matches : CreateReadinessReport(m) /\ UNCHANGED <<resumeVars, matches, sets, versions>>
    BY <2>3, ReadinessNext
  <2>4. CASE \E n \in DOMAIN readiness : CreatePatchSet(n) /\ UNCHANGED <<resumeVars, matches, readiness, versions>>
    BY <2>4, PatchSetNext
  <2>5. CASE ReviewStep /\ UNCHANGED <<resumeVars, matches, readiness, versions>>
    BY <2>5, ReviewNext
  <2>6. CASE \E s \in DOMAIN sets : CreateVersionFromPatchSet(s) /\ UNCHANGED <<active, edits, matches, readiness, sets>>
    BY <2>6, BuildNext
  <2>7. CASE UNCHANGED vars
    BY <2>7 DEF vars
  <2> QED
    BY <2>1, <2>2, <2>3, <2>4, <2>5, <2>6, <2>7 DEF Next
<1> QED
  BY <1>1, <1>2 DEF DataInv

\* The inductive invariant.
LEMMA DataInvariance == Spec => [](IInv /\ DataInv)
<1>1. Init => IInv /\ DataInv
  BY InitLemma, DataInit
<1>2. IInv /\ DataInv /\ [Next]_vars => IInv' /\ DataInv'
  BY NextLemma, DataNext
<1> QED
  BY <1>1, <1>2, PTL DEF Spec

\* The types: every score is a percentage whatever the job and the resume (WeightedScorer,
\* ReadinessService), every report and set refers to one that exists, and every version to
\* one that was there before it.
THEOREM TypeCorrect == Spec => []TypeOK
<1>1. ASSUME IInv, DataInv PROVE TypeOK
  <2>1. ResumeType
    BY <1>1 DEF DataInv, ResumeInv, Resumes, Attached, ResumeType
  <2>2. MatchType
    <3> SUFFICES ASSUME NEW m \in DOMAIN matches
                 PROVE  /\ matches[m].overallScore \in 0 .. 100
                        /\ \A key \in DOMAIN matches[m].categoryScores : matches[m].categoryScores[key] \in 0 .. 100
      BY DEF MatchType
    <3>1. PICK r \in Resumes : matches[m] = MatchReportOn(r)
      BY <1>1 DEF DataInv, MatchesInv, Reports
    <3> QED
      BY <3>1, MatchReportIs
  <2>3. ReadinessType
    BY <1>1 DEF DataInv, ReadinessInv, ReadinessType
  <2>4. PatchSetType
    BY <1>1 DEF DataInv, SetsInv, PatchSetType, ReviewStates
  <2>5. VersionType
    <3> SUFFICES ASSUME NEW i \in DOMAIN versions
                 PROVE  /\ versions[i].number \in 1 .. MaxVersions
                        /\ versions[i].parent \in 0 .. Len(versions)
                        /\ versions[i].set \in 0 .. Len(sets)
      BY DEF VersionType
    <3>1. i \in 1 .. Len(versions) /\ Len(versions) \in Nat /\ Len(versions) <= MaxVersions /\ MaxVersions \in Nat
      BY <1>1, VersionsAssumption DEF IInv, VersionsInv, DataInv, BuildsInv
    <3>2. versions[i].number = i /\ versions[i].parent = i - 1 /\ versions[i].set \in 0 .. Len(sets)
      BY <1>1 DEF IInv, VersionsFormAChain, DataInv, BuildsInv
    <3> QED
      BY <3>1, <3>2
  <2> QED
    BY <2>1, <2>2, <2>3, <2>4, <2>5 DEF TypeOK
<1> QED
  BY <1>1, DataInvariance, PTL

-----------------------------------------------------------------------------
(* Refusals, renderings and scores.                                             *)

\* The bullets a report cites, and what is not looked at: see RefusedForOverlookedTextOnly.
Cited(report) == {report.evidence[i].bullet : i \in DOMAIN report.evidence}
IsHidden(r, b) == "hidden" \in {r.state[b], r.state[PlaceOf(b).section]}
Overlooked(r, report, gap, x) ==
  \/ x \notin Bullets
  \/ IF gap.type = "missing_credential" THEN x \notin Cited(report) \/ ~Verbatim(r.text[x], gap.term)
     ELSE IsHidden(r, x)
IsSaid(r, report, gap) ==
  \/ gap.term \in Across(Joined(r))
  \/ \E x \in {y \in Rows : Live(r, y) /\ gap.term \in r.text[y]} : Overlooked(r, report, gap, x)
Explained(r, report, p) ==
  CASE p.operation = "replace_bullet" -> p.target \in Cited(report) /\ OuterBlanks \in r.text[p.target]
    [] p.operation = "insert_bullet" -> p.after \subseteq CanonicalText(r) /\ p.after \subseteq {LeadershipHint, ClarificationHint}
    [] p.operation = "insert_skill" -> \E gap \in ToSet(report.gaps) : p.after = {gap.term} /\ IsSaid(r, report, gap)

\* A live row that has the term of a gap is one that is not looked at.
LEMMA GapIsOverlooked ==
  ASSUME NEW r, Attached(r), NEW gap \in ToSet(MatchReportOn(r).gaps),
         NEW x \in Rows, Live(r, x), gap.term \in r.text[x]
  PROVE  Overlooked(r, MatchReportOn(r), gap, x)
<1> SUFFICES ASSUME x \in Bullets PROVE Overlooked(r, MatchReportOn(r), gap, x)
  BY DEF Overlooked
<1> DEFINE report == MatchReportOn(r)
<1>1. report.evidence = EvidenceIn(r) /\ report.gaps \in Seq(OpenGaps(r))
  BY MatchReportIs
<1>2. gap \in OpenGaps(r)
  BY <1>1, FirstOfSeq
\* A requirement is named by no bullet that is seen, so this one or its section is hidden.
<1>3. ASSUME gap \in OpenRequirements(r) PROVE gap.type # "missing_credential" /\ IsHidden(r, x)
  <2>1. PICK m \in DOMAIN Requirements : gap = RequirementGap(m) /\ Score(r, m) = 0
    BY <1>3 DEF OpenRequirements
  <2>2. gap.type # "missing_credential" /\ gap.term = Requirements[m].term
    BY <2>1 DEF RequirementGap
  <2>3. ~Names(r, m)
    BY <2>1 DEF Score
  <2>4. PlaceOf(x) \in Places /\ PlaceOf(x).bullet = x
    BY PlaceIs
  <2>5. PlaceOf(x) \notin Seen(r)
    BY <2>2, <2>3, <2>4 DEF Names
  <2>6. r.state[x] # "visible" \/ r.state[PlaceOf(x).section] # "visible"
    BY <2>4, <2>5 DEF Seen
  <2>7. Live(r, PlaceOf(x).section)
    BY <2>4 DEF Attached
  <2> QED
    BY <2>2, <2>6, <2>7 DEF Live, IsHidden
\* A credential is, as it is spelt, in no text that is cited.
<1>4. ASSUME gap \in OpenCredentials(r)
      PROVE  gap.type = "missing_credential" /\ (x \notin Cited(report) \/ ~Verbatim(r.text[x], gap.term))
  <2>1. PICK c \in ToSet(Credentials) : gap = CredentialGap(c) /\ \A e \in ToSet(EvidenceIn(r)) : ~Verbatim(e.text, c.term)
    BY <1>4 DEF OpenCredentials
  <2>2. gap.type = "missing_credential" /\ gap.term = c.term
    BY <2>1 DEF CredentialGap
  <2>3. SUFFICES ASSUME x \in Cited(report) PROVE ~Verbatim(r.text[x], c.term)
    BY <2>2
  <2>4. PICK e \in ToSet(EvidenceIn(r)) : e.bullet = x
    BY <2>3, <1>1 DEF Cited, ToSet
  <2>5. e.text = r.text[x]
    BY <2>4, EvidenceCites
  <2> QED
    BY <2>1, <2>4, <2>5
<1> HIDE DEF report
<1> QED
  BY <1>2, <1>3, <1>4 DEF OpenGaps, Overlooked, report

\* Why a patch of a report on the resume as it stands is refused.
LEMMA InvalidIsExplained ==
  ASSUME NEW r, Attached(r), NEW p \in CandidateSet(MatchReportOn(r), r), ~IsValid(p, r)
  PROVE  Explained(r, MatchReportOn(r), p)
<1> DEFINE report == MatchReportOn(r)
<1>1. report.evidence = EvidenceIn(r)
  BY MatchReportIs
<1>2. ASSUME p \in Replacements(report, r) PROVE Explained(r, report, p)
  <2>1. PICK e \in ToSet(report.evidence), a \in Advice(report) :
          FindBullet(r, e.bullet) /\ p = Patch("replace_bullet", e.bullet, r.text[e.bullet], Reworded(r.text[e.bullet], a))
    BY <1>2 DEF Replacements
  <2>2. p.operation = "replace_bullet" /\ p.target = e.bullet /\ p.before = r.text[p.target]
    BY <2>1 DEF Patch
  <2>3. FindBullet(r, p.target)
    BY <2>1, <2>2
  <2>4. Trim(r.text[p.target]) # r.text[p.target]
    BY <2>2, <2>3 DEF IsValid
  <2>5. OuterBlanks \in r.text[p.target]
    BY <2>4 DEF Trim
  <2>6. p.target \in Cited(report)
    BY <2>2 DEF Cited, ToSet
  <2> QED
    BY <2>2, <2>5, <2>6 DEF Explained
<1>3. ASSUME p \in Insertions(r) PROVE Explained(r, report, p)
  <2>1. PICK x \in Writable(r), text \in NewTexts : p = Patch("insert_bullet", x, {}, text)
    BY <1>3 DEF Insertions
  <2>2. p.operation = "insert_bullet" /\ p.target = x /\ p.after = text
    BY <2>1 DEF Patch
  <2>3. FindEntity(r, p.target)
    BY <2>2 DEF Writable
  <2>4. p.after \subseteq CanonicalText(r)
    BY <2>2, <2>3 DEF IsValid
  <2>5. p.after \subseteq {LeadershipHint, ClarificationHint}
    BY <2>2 DEF NewTexts
  <2> QED
    BY <2>2, <2>4, <2>5 DEF Explained
<1>4. ASSUME p \in SkillInsertions(report) PROVE Explained(r, report, p)
  <2>1. PICK gap \in ToSet(report.gaps) : p = Patch("insert_skill", "skills", {}, {gap.term})
    BY <1>4 DEF SkillInsertions
  <2>2. p.operation = "insert_skill" /\ p.after = {gap.term}
    BY <2>1 DEF Patch
  <2>3. gap.term \in CanonicalText(r)
    BY <2>2 DEF IsValid
  <2>4. gap.term \in Across(Joined(r)) \/ \E x \in Rows : Live(r, x) /\ gap.term \in r.text[x]
    BY <2>3 DEF CanonicalText
  <2>5. ASSUME NEW x \in Rows, Live(r, x), gap.term \in r.text[x] PROVE Overlooked(r, report, gap, x)
    BY <2>5, GapIsOverlooked
  <2>6. IsSaid(r, report, gap)
    BY <2>4, <2>5 DEF IsSaid
  <2> QED
    BY <2>2, <2>6 DEF Explained
<1> HIDE DEF report
<1>5. p \in Replacements(report, r) \/ p \in Insertions(r) \/ p \in SkillInsertions(report)
  BY DEF CandidateSet, report
<1> QED
  BY <1>2, <1>3, <1>4, <1>5 DEF report

\* Of a readiness report of the resume as it stands a patch is refused only for blanks around
\* the bullet it replaces, or for a word it would add that is written where matching and gap
\* analysis do not look (PatchGenerator and PatchValidator against GapAnalyzer).
THEOREM RefusalsAreExplained == Spec => []RefusedForOverlookedTextOnly
<1>1. ASSUME IInv, DataInv PROVE RefusedForOverlookedTextOnly
  <2>1. ASSUME NEW n \in DOMAIN readiness, active, matches[readiness[n].match].of = resume,
               NEW p \in ToSet(Candidates(n, resume)), ~IsValid(p, resume)
        PROVE  Explained(resume, matches[readiness[n].match], p)
    <3> DEFINE report == matches[readiness[n].match]
    <3>1. PICK t \in Resumes : /\ report = MatchReportOn(t)
                               /\ \A r : Candidates(n, r) \in Seq(CandidateSet(MatchReportOn(t), r))
      BY <1>1, ProposedAre DEF DataInv
    <3>2. t = resume
      <4>1. MatchReportOn(t).of = t
        BY MatchReportIs
      <4> QED
        BY <2>1, <3>1, <4>1
    <3>3. p \in CandidateSet(MatchReportOn(resume), resume)
      BY <3>1, <3>2, FirstOfSeq
    <3>4. Attached(resume)
      BY <1>1 DEF DataInv, ResumeInv
    <3>5. Explained(resume, MatchReportOn(resume), p)
      BY <2>1, <3>3, <3>4, InvalidIsExplained
    <3> QED
      BY <3>1, <3>2, <3>5
  <2> QED
    BY <2>1 DEF RefusedForOverlookedTextOnly, Explained, IsSaid, Overlooked, IsHidden, Cited
<1> QED
  BY <1>1, DataInvariance, PTL

\* The accepted patches of a build, as the resume of the moment has their targets.
LEMMA RenderedIs ==
  ASSUME DataInv, NEW s \in DOMAIN sets, ~Conflicts(Accepted(sets[s]), resume)
  PROVE  LET built == Built(s)
             replaced == {p.target : p \in {x \in built : x.operation = "replace_bullet"}}
             kept == {b \in Bullets : resume.state[b] = "visible"} \ replaced
         IN  Render(PatchedCopy(resume, Accepted(sets[s]))) = {resume.text[b] : b \in kept} \cup {p.after : p \in built}
<1> DEFINE patches == Accepted(sets[s])
           copy == PatchedCopy(resume, patches)
           built == Built(s)
           replaced == {p.target : p \in {x \in built : x.operation = "replace_bullet"}}
           kept == {b \in Bullets : resume.state[b] = "visible"} \ replaced
           P == PatchSpace
           A == {k \in DOMAIN patches : ~IsReplacement(patches[k])}
<1>1. patches \in Seq(P)
  <2> DEFINE set == sets[s]
  <2>1. set \in SetSpace
    BY DEF DataInv, SetsInv
  <2> HIDE DEF set
  <2>2. set.patches \in Seq(P)
    <3> DEFINE R == UNION {[1 .. k -> ReviewStates] : k \in Nat}
    <3>1. set \in [readiness : Nat, patches : Seq(P), review : R]
      BY <2>1 DEF SetSpace
    <3> HIDE DEF R, P
    <3> QED
      BY <3>1
  <2>3. Accepted(set) \in Seq(P)
    BY <2>2, AcceptedAre
  <2> QED
    BY <2>3 DEF set
<1>2. \A p \in P : IsReplacement(p) => p.target \in Bullets /\ p.target \in Rows
  BY ReplacementsHaveTargets, KindsAre
<1>3. resume \in Resumes
  BY DEF DataInv, ResumeInv
<1>4. built = {patches[k] : k \in DOMAIN patches}
  BY DEF Built, ToSet
<1> HIDE DEF patches, P, built
<1>5. \A i, j \in DOMAIN patches : i < j /\ IsReplacement(patches[i]) /\ IsReplacement(patches[j]) => patches[i].target # patches[j].target
  BY DEF Conflicts, DuplicateTarget, IsReplacement, patches
<1>6. \A k \in DOMAIN patches : IsReplacement(patches[k]) => resume.state[patches[k].target] = "visible"
  BY DEF Conflicts, MissingTarget, FindBullet, IsReplacement, patches
<1>7. /\ copy.state = resume.state
      /\ \A k \in DOMAIN patches : IsReplacement(patches[k]) => copy.text[patches[k].target] = patches[k].after
      /\ \A b \in Rows : (\A k \in DOMAIN patches : IsReplacement(patches[k]) => patches[k].target # b) => copy.text[b] = resume.text[b]
      /\ ToSet(copy.added) = {[where |-> patches[k].target, text |-> patches[k].after] : k \in A}
  BY <1>1, <1>2, <1>3, <1>5, CopyIs
<1> HIDE DEF copy
<1>8. replaced = {patches[k].target : k \in {i \in DOMAIN patches : IsReplacement(patches[i])}}
  BY <1>4 DEF IsReplacement
<1>9. Render(copy) = {copy.text[b] : b \in {x \in Bullets : resume.state[x] = "visible"}} \cup {patches[k].after : k \in A}
  <2>1. {copy.added[i].text : i \in DOMAIN copy.added} = {x.text : x \in ToSet(copy.added)}
    BY DEF ToSet
  <2>2. {x.text : x \in ToSet(copy.added)} = {patches[k].after : k \in A}
    <3> DEFINE Insertion(k) == [where |-> patches[k].target, text |-> patches[k].after]
    <3>1. \A k \in A : Insertion(k).text = patches[k].after
      OBVIOUS
    <3>2. ToSet(copy.added) = {Insertion(k) : k \in A}
      BY <1>7
    <3> HIDE DEF Insertion, A
    <3> QED
      BY <3>1, <3>2
  <2> QED
    BY <1>7, <2>1, <2>2 DEF Render
<1> HIDE DEF replaced, A
<1>10. \A b \in {x \in Bullets : resume.state[x] = "visible"} :
         (b \in kept /\ copy.text[b] = resume.text[b])
           \/ \E k \in DOMAIN patches : IsReplacement(patches[k]) /\ patches[k].target = b /\ copy.text[b] = patches[k].after
  BY <1>7, <1>8, KindsAre
<1>11. \A b \in kept : copy.text[b] = resume.text[b] /\ resume.state[b] = "visible" /\ b \in Bullets
  BY <1>7, <1>8, KindsAre
<1>12. \A k \in DOMAIN patches : IsReplacement(patches[k]) =>
         /\ patches[k].target \in Bullets /\ resume.state[patches[k].target] = "visible" /\ copy.text[patches[k].target] = patches[k].after
  BY <1>1, <1>2, <1>6, <1>7
<1> HIDE DEF kept
<1>13. \A x : x \in Render(copy) => x \in {resume.text[b] : b \in kept} \cup {p.after : p \in built}
  BY <1>4, <1>9, <1>10 DEF A
<1>14. \A x \in {resume.text[b] : b \in kept} : x \in Render(copy)
  BY <1>9, <1>11
<1>15. \A x \in {p.after : p \in built} : x \in Render(copy)
  BY <1>4, <1>9, <1>12 DEF A
<1>16. Render(copy) = {resume.text[b] : b \in kept} \cup {p.after : p \in built}
  BY <1>13, <1>14, <1>15
<1> QED
  BY <1>16 DEF copy, kept, replaced, built, patches

\* The rendering of a new version has every accepted patch and, of the resume, exactly the
\* visible bullets no patch replaces (createVersionFromPatchSet, PatchApplier, RendererService).
THEOREM WhatIsRenderedWasReviewed == Spec => RenderedIsReviewed
<1> DEFINE Reviewed == \A i \in DOMAIN versions' \ DOMAIN versions :
                         LET built == Built(versions'[i].set)
                             replaced == {p.target : p \in {x \in built : x.operation = "replace_bullet"}}
                             kept == {b \in Bullets : resume.state[b] = "visible"} \ replaced
                         IN  versions'[i].rendered = {resume.text[b] : b \in kept} \cup {p.after : p \in built}
<1>1. ASSUME IInv, DataInv, [Next]_vars PROVE Reviewed
  <2>1. CASE \E s \in DOMAIN sets : CreateVersionFromPatchSet(s)
    <3>1. PICK s \in DOMAIN sets : CreateVersionFromPatchSet(s)
      BY <2>1
    <3>2. versions \in Seq(ToSet(versions))
      BY <1>1 DEF IInv, VersionsInv
    <3> DEFINE v == VersionFrom(s, PatchedCopy(resume, Accepted(sets[s])))
    <3>3. versions' = Append(versions, v) /\ ~Conflicts(Accepted(sets[s]), resume)
      BY <3>1 DEF CreateVersionFromPatchSet, Apply
    <3>4. v.set = s /\ v.rendered = Render(PatchedCopy(resume, Accepted(sets[s])))
      BY DEF VersionFrom
    <3> HIDE DEF v
    <3>5. \A i \in DOMAIN versions' \ DOMAIN versions : versions'[i] = v
      BY <3>2, <3>3
    <3>6. \A i \in DOMAIN versions' \ DOMAIN versions :
            versions'[i].set = s /\ versions'[i].rendered = Render(PatchedCopy(resume, Accepted(sets[s])))
      BY <3>4, <3>5
    <3> QED
      BY <1>1, <3>3, <3>6, RenderedIs
  <2>2. CASE ~\E s \in DOMAIN sets : CreateVersionFromPatchSet(s)
    <3>1. versions' = versions
      BY <1>1, <2>2, OnlyBuildsAddVersions
    <3> QED
      BY <3>1
  <2> QED
    BY <2>1, <2>2
<1>2. IInv /\ DataInv /\ [Next]_vars => [Reviewed]_vars
  BY <1>1
<1>3. Spec => [][Reviewed]_vars
  BY <1>2, DataInvariance, PTL DEF Spec
<1> QED
  BY <1>3 DEF RenderedIsReviewed

\* What is seen of one resume is seen of the other, with the same texts: it scores no less.
LEMMA SeenMoreScoresMore ==
  ASSUME NEW r, NEW t, t.text = r.text, Seen(r) \subseteq Seen(t)
  PROVE  OverallScore(EvidenceIn(r)) <= OverallScore(EvidenceIn(t))
<1>1. \A n \in DOMAIN Requirements : (Names(r, n) => Names(t, n)) /\ (Hints(r, n) => Hints(t, n))
  BY DEF Names, Hints
<1>2. \A n \in DOMAIN Requirements : Score(r, n) <= Score(t, n)
  BY <1>1 DEF Score
<1> QED
  BY <1>2, ScoresGrow DEF OverallScore

\* The overall score of a match never falls when more of the resume is seen with the same texts,
\* and never rises when less is (EvidenceGenerator, WeightedScorer): a bullet that only names a
\* related term never takes the place of one that names the requirement.
THEOREM ShowingIsMonotone == Spec => ShowingNeverLowersTheMatch
<1> DEFINE seen == ToSet(VisibleBullets(resume))
           next == ToSet(VisibleBullets(resume'))
           Overall(r) == OverallScore(EvidenceIn(r))
           Monotone == (seen # next /\ resume'.text = resume.text)
                         => (seen \subseteq next => Overall(resume) <= Overall(resume')) /\ (next \subseteq seen => Overall(resume') <= Overall(resume))
<1>1. Monotone
  <2>1. seen = Seen(resume) /\ next = Seen(resume')
    BY VisibleAre
  <2> SUFFICES ASSUME resume'.text = resume.text
               PROVE  /\ seen \subseteq next => Overall(resume) <= Overall(resume')
                      /\ next \subseteq seen => Overall(resume') <= Overall(resume)
    OBVIOUS
  <2> HIDE DEF seen, next
  <2>2. ASSUME seen \subseteq next PROVE OverallScore(EvidenceIn(resume)) <= OverallScore(EvidenceIn(resume'))
    BY <2>1, <2>2, SeenMoreScoresMore
  <2>3. ASSUME next \subseteq seen PROVE OverallScore(EvidenceIn(resume')) <= OverallScore(EvidenceIn(resume))
    BY <2>1, <2>3, SeenMoreScoresMore
  <2> QED
    BY <2>2, <2>3
<1>2. [Next]_vars => [Monotone]_vars
  BY <1>1
<1>3. Spec => [][Monotone]_vars
  BY <1>2, PTL DEF Spec
<1> QED
  BY <1>3 DEF ShowingNeverLowersTheMatch
=============================================================================

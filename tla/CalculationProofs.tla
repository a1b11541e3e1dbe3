---------------------------- MODULE CalculationProofs ----------------------------
(***************************************************************************)
(* calculate() is right about every expression: what it finds is the       *)
(* value, its steps keep it and take one application after the other.      *)
(* The proof is an induction on the depth of expressions, in the form of   *)
(* a smallest counterexample.  And whatever expressions are, the headers   *)
(* of a question are unpacked as they were packed, and the client prints   *)
(* the answer to its own question.                                         *)
(***************************************************************************)
EXTENDS Calculation, SequenceTheorems, WellFoundedInduction, TLAPS

\* Induction.  The library's theorems on it have an operator as a parameter; these are about
\* sets, which the provers can find.
LEMMA Smallest ==
    ASSUME NEW T, T \subseteq Nat, T # {}
    PROVE  \E n \in T : \A m \in T : n <= m
<1> DEFINE R == OpToRel(<, Nat)
<1>1. IsWellFoundedOn(R, Nat)
  BY NatLessThanWellFounded
<1>2. \A x, y \in Nat : <<x, y>> \in R <=> x < y
  BY DEF OpToRel
<1> HIDE DEF R
<1>3. PICK n \in T : \A m \in T : ~(<<m, n>> \in R)
  BY <1>1, WFMin
<1>4. ASSUME NEW m \in T PROVE n <= m
  <2>1. m \in Nat /\ n \in Nat /\ ~(<<m, n>> \in R)
    BY <1>3
  <2>2. ~(m < n)
    BY <1>2, <2>1
  <2> QED
    BY <2>1, <2>2
<1> QED
  BY <1>4

LEMMA InductionTo ==
    ASSUME NEW n \in Nat, NEW S, 0 \in S, \A m \in 0..(n - 1) : m \in S => m + 1 \in S
    PROVE  \A m \in 0..n : m \in S
<1> DEFINE T == (0..n) \ S
<1>0. T \subseteq Nat
  OBVIOUS
<1> SUFFICES ASSUME T # {} PROVE FALSE
  OBVIOUS
<1>1. PICK m \in T : \A k \in T : m <= k
  <2> HIDE DEF T
  <2> QED
    BY <1>0, Smallest
<1>2. m \in 1..n /\ m \notin S
  BY DEF T
<1>3. m - 1 \in 0..(n - 1) /\ ~(m <= m - 1) /\ (m - 1) + 1 = m /\ m - 1 \in 0..n
  BY <1>2
<1>4. m - 1 \in S
  BY <1>1, <1>3
<1> QED
  BY <1>2, <1>3, <1>4

---------------------------------------------------------------------------
\* Sums and concatenations.

LEMMA SumsAre ==
    ASSUME NEW s, Len(s) \in Nat
    PROVE  Sums(s) = [i \in 0..Len(s) |-> IF i = 0 THEN 0 ELSE Sums(s)[i - 1] + s[i]]
<1> DEFINE Is(n, f) == f = [i \in 0..n |-> IF i = 0 THEN 0 ELSE f[i - 1] + s[i]]
           S == {n \in Nat : \E f : Is(n, f)}
<1>1. 0 \in S
  <2>1. Is(0, [i \in 0..0 |-> 0])
    OBVIOUS
  <2> QED
    BY <2>1
<1>2. ASSUME NEW n \in 0..(Len(s) - 1), n \in S PROVE n + 1 \in S
  <2>1. PICK f : Is(n, f)
    BY <1>2
  <2> DEFINE g == [i \in 0..(n + 1) |-> IF i = n + 1 THEN f[n] + s[n + 1] ELSE f[i]]
  <2>2. \A i \in 0..n : g[i] = f[i] /\ f[i] = IF i = 0 THEN 0 ELSE f[i - 1] + s[i]
    BY <2>1
  <2>3. ASSUME NEW i \in 0..(n + 1) PROVE g[i] = IF i = 0 THEN 0 ELSE g[i - 1] + s[i]
    <3>1. CASE i \in 0..n
      <4>1. i # 0 => i - 1 \in 0..n
        BY <3>1
      <4> QED
        BY <2>2, <3>1, <4>1
    <3>2. CASE i = n + 1
      <4>1. i # 0 /\ i - 1 = n /\ n \in 0..n
        BY <3>2
      <4> QED
        BY <2>2, <3>2, <4>1
    <3> QED
      BY <3>1, <3>2
  <2>4. Is(n + 1, g)
    BY <2>3, Zenon
  <2>5. n + 1 \in Nat
    OBVIOUS
  <2> HIDE DEF g, Is
  <2> QED
    BY <2>4, <2>5
<1>3. Len(s) \in S
  <2> HIDE DEF S
  <2>1. \A n \in 0..(Len(s) - 1) : n \in S => n + 1 \in S
    BY <1>2
  <2>2. \A n \in 0..Len(s) : n \in S
    BY <1>1, <2>1, InductionTo
  <2> QED
    BY <2>2
<1>4. PICK f : Is(Len(s), f)
  BY <1>3
<1> QED
  BY <1>4 DEF Sums

LEMMA SumsStep ==
    ASSUME NEW s \in Seq(Nat)
    PROVE  /\ Sums(s)[0] = 0
           /\ \A i \in 1..Len(s) : Sums(s)[i] = Sums(s)[i - 1] + s[i]
           /\ \A i \in 0..Len(s) : Sums(s)[i] \in Nat
<1>1. Sums(s) = [i \in 0..Len(s) |-> IF i = 0 THEN 0 ELSE Sums(s)[i - 1] + s[i]]
  BY SumsAre
<1>2. Sums(s)[0] = 0 /\ \A i \in 1..Len(s) : Sums(s)[i] = Sums(s)[i - 1] + s[i]
  BY SMTT(30), <1>1
<1> DEFINE S == {i \in 0..Len(s) : Sums(s)[i] \in Nat}
<1>3. 0 \in S
  BY <1>2
<1>4. ASSUME NEW m \in 0..(Len(s) - 1), m \in S PROVE m + 1 \in S
  <2>1. m + 1 \in 1..Len(s) /\ (m + 1) - 1 = m /\ s[m + 1] \in Nat
    OBVIOUS
  <2> QED
    BY <1>2, <1>4, <2>1
<1>5. \A i \in 0..Len(s) : i \in S
  <2> HIDE DEF S
  <2>1. \A m \in 0..(Len(s) - 1) : m \in S => m + 1 \in S
    BY <1>4
  <2>2. Len(s) \in Nat
    OBVIOUS
  <2> QED
    BY <1>3, <2>1, <2>2, InductionTo
<1> QED
  BY <1>2, <1>5

\* One number instead of the i-th, zeros in front of it.
LEMMA SumsOfRest ==
    ASSUME NEW s \in Seq(Nat), NEW t \in Seq(Nat), Len(t) = Len(s), NEW i \in 1..Len(s),
           \A j \in 1..(i - 1) : t[j] = 0, \A j \in (i + 1)..Len(s) : t[j] = s[j]
    PROVE  Sums(t)[Len(t)] = Sums(s)[Len(s)] - Sums(s)[i] + t[i]
<1> DEFINE S == {m \in 0..Len(s) : Sums(t)[m] = IF m < i THEN 0 ELSE Sums(s)[m] - Sums(s)[i] + t[i]}
<1>0. t[i] \in Nat /\ Sums(s)[i] \in Nat
  BY SumsStep
<1>1. 0 \in S
  BY SumsStep
<1>2. ASSUME NEW m \in 0..(Len(s) - 1), m \in S PROVE m + 1 \in S
  <2>1. m + 1 \in 1..Len(s) /\ (m + 1) - 1 = m
    OBVIOUS
  <2>2. /\ Sums(s)[m + 1] = Sums(s)[m] + s[m + 1] /\ Sums(t)[m + 1] = Sums(t)[m] + t[m + 1]
        /\ Sums(s)[m] \in Nat /\ s[m + 1] \in Nat
    <3>1. m + 1 \in 1..Len(t) /\ m \in 0..Len(s)
      BY <2>1
    <3>2. Sums(s)[m + 1] = Sums(s)[m] + s[m + 1] /\ Sums(s)[m] \in Nat
      BY <2>1, <3>1, SumsStep
    <3>3. Sums(t)[m + 1] = Sums(t)[m] + t[m + 1]
      BY <2>1, <3>1, SumsStep
    <3>4. s[m + 1] \in Nat
      BY <2>1
    <3> QED
      BY <3>2, <3>3, <3>4
  <2>3. CASE m + 1 < i
    BY <1>2, <2>1, <2>2, <2>3
  <2>4. CASE m + 1 = i
    BY <1>0, <1>2, <2>1, <2>2, <2>4
  <2>5. CASE m >= i
    <3>1. t[m + 1] = s[m + 1]
      BY <2>1, <2>5
    <3>2. Sums(t)[m] = Sums(s)[m] - Sums(s)[i] + t[i]
      BY <1>2, <2>5
    <3> DEFINE a == Sums(s)[m]
               b == Sums(s)[i]
               c == t[i]
               d == s[m + 1]
    <3>3. a \in Nat /\ b \in Nat /\ c \in Nat /\ d \in Nat
      BY <1>0, <2>2
    <3>4. Sums(t)[m + 1] = (a - b + c) + d /\ Sums(s)[m + 1] = a + d
      BY <2>2, <3>1, <3>2
    <3>e. t[i] = c /\ Sums(s)[i] = b
      OBVIOUS
    <3> HIDE DEF a, b, c, d
    <3>5. Sums(t)[m + 1] = Sums(s)[m + 1] - b + c
      BY <3>3, <3>4
    <3> QED
      BY <2>1, <2>5, <3>5, <3>e
  <2> QED
    BY <2>3, <2>4, <2>5
<1>3. \A m \in 0..Len(s) : m \in S
  <2> HIDE DEF S
  <2>1. \A m \in 0..(Len(s) - 1) : m \in S => m + 1 \in S
    BY <1>2
  <2>2. Len(s) \in Nat
    OBVIOUS
  <2> QED
    BY <1>1, <2>1, <2>2, InductionTo
<1> QED
  BY <1>3

\* The concatenation grows from one sequence to the next.
LEMMA FlattenIs ==
    ASSUME NEW ss, Len(ss) \in Nat \ {0}
    PROVE  \E f : /\ f = [i \in 1..Len(ss) |-> IF i = 1 THEN ss[i] ELSE f[i - 1] \o ss[i]]
                  /\ FlattenSeq(ss) = f[Len(ss)]
<1> DEFINE Is(m, f) == f = [i \in 1..m |-> IF i = 1 THEN ss[i] ELSE f[i - 1] \o ss[i]]
           S == {m \in Nat : \E f : Is(m, f)}
<1>1. 0 \in S
  <2>1. Is(0, [i \in 1..0 |-> 0])
    OBVIOUS
  <2> QED
    BY <2>1
<1>2. ASSUME NEW m \in 0..(Len(ss) - 1), m \in S PROVE m + 1 \in S
  <2>1. PICK f : Is(m, f)
    BY <1>2
  <2> DEFINE g == [i \in 1..(m + 1) |-> IF i = m + 1 THEN IF m = 0 THEN ss[m + 1] ELSE f[m] \o ss[m + 1] ELSE f[i]]
  <2>f. \A i \in 1..m : f[i] = IF i = 1 THEN ss[i] ELSE f[i - 1] \o ss[i]
    BY <2>1, Zenon
  <2>g. \A i \in 1..m : g[i] = f[i]
    OBVIOUS
  <2>h. g[m + 1] = IF m = 0 THEN ss[m + 1] ELSE f[m] \o ss[m + 1]
    OBVIOUS
  <2>i. g = [i \in 1..(m + 1) |-> g[i]]
    OBVIOUS
  <2> HIDE DEF g
  <2>3. ASSUME NEW i \in 1..(m + 1) PROVE g[i] = IF i = 1 THEN ss[i] ELSE g[i - 1] \o ss[i]
    <3>1. CASE i \in 1..m
      <4>1. i # 1 => i - 1 \in 1..m
        BY <3>1
      <4>2. i # 1 => g[i - 1] = f[i - 1]
        BY <2>g, <4>1
      <4> QED
        BY <2>f, <2>g, <3>1, <4>2
    <3>2. CASE i = m + 1
      <4>1. i - 1 = m /\ (m = 0 <=> i = 1) /\ (m # 0 => m \in 1..m)
        BY <3>2
      <4>2. m # 0 => g[m] = f[m]
        BY <2>g, <4>1
      <4> QED
        BY <2>h, <3>2, <4>1, <4>2
    <3> QED
      BY <3>1, <3>2
  <2>4. Is(m + 1, g)
    BY <2>i, <2>3, Zenon
  <2>5. m + 1 \in Nat
    OBVIOUS
  <2> HIDE DEF Is
  <2> QED
    BY <2>4, <2>5
<1>3. Len(ss) \in S
  <2> HIDE DEF S
  <2>1. \A m \in 0..(Len(ss) - 1) : m \in S => m + 1 \in S
    BY <1>2
  <2>2. \A m \in 0..Len(ss) : m \in S
    BY <1>1, <2>1, InductionTo
  <2> QED
    BY <2>2
<1> DEFINE h == CHOOSE f : Is(Len(ss), f)
<1>4. Is(Len(ss), h)
  BY <1>3
<1>5. FlattenSeq(ss) = h[Len(ss)]
  BY DEF FlattenSeq
<1> HIDE DEF h
<1> QED
  BY <1>4, <1>5

\* Each element of a concatenation comes from one of the sequences.
LEMMA FlattenFinds ==
    ASSUME NEW X, NEW ss \in Seq(Seq(X)), NEW lens \in Seq(Nat), Len(lens) = Len(ss),
           \A i \in 1..Len(ss) : lens[i] = Len(ss[i])
    PROVE  /\ FlattenSeq(ss) \in Seq(X)
           /\ Len(FlattenSeq(ss)) = Sums(lens)[Len(ss)]
           /\ \A p \in 1..Len(FlattenSeq(ss)) : \E i \in 1..Len(ss) : \E k \in 1..Len(ss[i]) :
                 p = Sums(lens)[i - 1] + k /\ FlattenSeq(ss)[p] = ss[i][k]
<1> DEFINE n == Len(ss)
           From(m, u) == /\ u \in Seq(X)
                         /\ Len(u) = Sums(lens)[m]
                         /\ \A p \in 1..Len(u) : \E i \in 1..m : \E k \in 1..Len(ss[i]) :
                               p = Sums(lens)[i - 1] + k /\ u[p] = ss[i][k]
<1>0. n \in Nat /\ Sums(lens)[0] = 0
  BY SumsStep
<1>1. CASE n = 0
  <2>1. FlattenSeq(ss) = <<>> /\ ss = <<>>
    BY <1>1 DEF FlattenSeq
  <2> QED
    BY <1>0, <1>1, <2>1
<1>2. CASE n > 0
  <2>0. Len(ss) \in Nat \ {0}
    BY <1>0, <1>2
  <2>1. PICK f : /\ f = [i \in 1..n |-> IF i = 1 THEN ss[i] ELSE f[i - 1] \o ss[i]]
                 /\ FlattenSeq(ss) = f[n]
    BY <2>0, FlattenIs, Zenon
  <2>f. \A i \in 1..n : f[i] = IF i = 1 THEN ss[i] ELSE f[i - 1] \o ss[i]
    BY <2>1, Zenon
  <2> DEFINE S == {m \in 0..n : m > 0 => From(m, f[m])}
  <2>2. 0 \in S
    BY <1>0
  <2>3. ASSUME NEW m \in 0..(n - 1), m \in S PROVE m + 1 \in S
    <3>0. /\ m + 1 \in 1..n /\ m \in 0..n /\ (m + 1) - 1 = m /\ m + 1 \in 1..(m + 1)
          /\ ss[m + 1] \in Seq(X) /\ Len(ss[m + 1]) = lens[m + 1]
      OBVIOUS
    <3>1. Sums(lens)[m + 1] = Sums(lens)[m] + lens[m + 1] /\ Sums(lens)[m] \in Nat
      BY <3>0, SumsStep
    <3>2. f[m + 1] = IF m = 0 THEN ss[m + 1] ELSE f[m] \o ss[m + 1]
      BY <2>f, <3>0
    <3> DEFINE u == f[m + 1]
               v == f[m]
               w == ss[m + 1]
    <3>3. From(m + 1, u)
      <4>1. CASE m = 0
        <5>1. u = w /\ w \in Seq(X) /\ Len(w) = Sums(lens)[m + 1]
          BY <1>0, <3>0, <3>1, <3>2, <4>1
        <5>2. ASSUME NEW p \in 1..Len(u)
              PROVE  p = Sums(lens)[(m + 1) - 1] + p /\ u[p] = ss[m + 1][p] /\ p \in 1..Len(ss[m + 1])
          BY <1>0, <3>0, <4>1, <5>1
        <5> HIDE DEF u, w
        <5> QED
          BY <3>0, <5>1, <5>2
      <4>2. CASE m > 0
        <5>1. From(m, v)
          BY <2>3, <4>2
        <5>2. v \in Seq(X) /\ w \in Seq(X) /\ u = v \o w
          <6>1. v \in Seq(X)
            BY <5>1
          <6>0. m # 0
            BY <4>2
          <6>2. u = v \o w
            BY <3>2, <6>0, Zenon
          <6> QED
            BY <3>0, <6>1, <6>2
        <5>3. Len(v) = Sums(lens)[m] /\ Len(w) = lens[m + 1]
          BY <3>0, <5>1
        <5>4. \A p \in 1..Len(v) : \E i \in 1..m : \E k \in 1..Len(ss[i]) :
                 p = Sums(lens)[i - 1] + k /\ v[p] = ss[i][k]
          BY <5>1
        <5>w. w = ss[m + 1]
          OBVIOUS
        <5> HIDE DEF u, v, w
        <5>5. u \in Seq(X) /\ Len(u) = Len(v) + Len(w)
          BY <5>2, ConcatProperties
        <5>6. ASSUME NEW p \in 1..Len(u)
              PROVE  \E i \in 1..(m + 1) : \E k \in 1..Len(ss[i]) :
                        p = Sums(lens)[i - 1] + k /\ u[p] = ss[i][k]
          <6>0. u[p] = IF p <= Len(v) THEN v[p] ELSE w[p - Len(v)]
            BY <5>2, <5>5, ConcatProperties
          <6>1. CASE p <= Len(v)
            <7>1. p \in 1..Len(v)
              BY <5>2, <6>1
            <7>2. PICK i \in 1..m : \E k \in 1..Len(ss[i]) : p = Sums(lens)[i - 1] + k /\ v[p] = ss[i][k]
              BY <5>4, <7>1
            <7>3. i \in 1..(m + 1)
              OBVIOUS
            <7> QED
              BY <6>0, <6>1, <7>2, <7>3
          <6>2. CASE ~(p <= Len(v))
            <7> DEFINE k == p - Len(v)
            <7>0. Len(v) \in Nat /\ Len(w) \in Nat /\ p \in Nat /\ p <= Len(v) + Len(w)
              BY <5>2, <5>5
            <7>1. k \in 1..Len(w) /\ p = Len(v) + k
              BY <6>2, <7>0
            <7>4. p = Sums(lens)[m] + k
              BY <5>3, <7>1
            <7>2. p = Sums(lens)[(m + 1) - 1] + k /\ u[p] = ss[m + 1][k] /\ k \in 1..Len(ss[m + 1])
              BY <3>0, <5>w, <6>0, <6>2, <7>1, <7>4
            <7> HIDE DEF k
            <7> QED
              BY <3>0, <7>2
          <6> QED
            BY <6>1, <6>2
        <5> QED
          BY <3>1, <5>3, <5>5, <5>6
      <4> QED
        BY <4>1, <4>2
    <3> HIDE DEF From
    <3> QED
      BY <3>0, <3>3
  <2>4. n \in S
    <3> HIDE DEF S
    <3>1. \A m \in 0..(n - 1) : m \in S => m + 1 \in S
      BY <2>3
    <3>2. \A m \in 0..n : m \in S
      BY <1>0, <2>2, <3>1, InductionTo
    <3> QED
      BY <1>0, <3>2
  <2>5. From(n, FlattenSeq(ss))
    <3>1. From(n, f[n])
      BY <1>2, <2>4
    <3>2. FlattenSeq(ss) = f[n]
      BY <2>1
    <3> HIDE DEF From
    <3> QED
      BY <3>1, <3>2
  <2> QED
    BY <2>5
<1> QED
  BY <1>0, <1>1, <1>2

---------------------------------------------------------------------------
\* Expressions and what is defined on them.

LEMMA UpToDepthIs ==
    UpToDepth = [n \in 0..MaxDepth |->
                   IF n = 0 THEN Constants ELSE Constants \cup Over(UpToDepth[n - 1])]
<1> DEFINE Is(m, f) == f = [n \in 0..m |-> IF n = 0 THEN Constants ELSE Constants \cup Over(f[n - 1])]
           S == {m \in Nat : \E f : Is(m, f)}
<1>1. 0 \in S
  <2>1. Is(0, [n \in 0..0 |-> Constants])
    OBVIOUS
  <2> QED
    BY <2>1
<1>2. ASSUME NEW m \in 0..(MaxDepth - 1), m \in S PROVE m + 1 \in S
  <2>1. PICK f : Is(m, f)
    BY <1>2
  <2> DEFINE g == [n \in 0..(m + 1) |-> IF n = m + 1 THEN Constants \cup Over(f[m]) ELSE f[n]]
  <2>0. m \in Nat
    OBVIOUS
  <2>2. \A n \in 0..m : f[n] = IF n = 0 THEN Constants ELSE Constants \cup Over(f[n - 1])
    BY <2>1, Zenon
  <2>3. \A n \in 0..m : g[n] = f[n]
    BY <2>0
  <2>4. g[m + 1] = Constants \cup Over(f[m])
    BY <2>0
  <2>5. g = [n \in 0..(m + 1) |-> g[n]]
    OBVIOUS
  <2> HIDE DEF g
  <2>6. ASSUME NEW n \in 0..(m + 1) PROVE g[n] = IF n = 0 THEN Constants ELSE Constants \cup Over(g[n - 1])
    <3>1. CASE n \in 0..m
      <4>1. n # 0 => n - 1 \in 0..m
        BY <3>1
      <4>2. n # 0 => g[n - 1] = f[n - 1]
        BY <2>3, <4>1
      <4> QED
        BY <2>2, <2>3, <3>1, <4>2
    <3>2. CASE n = m + 1
      <4>1. n # 0 /\ n - 1 = m /\ m \in 0..m
        BY <2>0, <3>2
      <4>2. g[m] = f[m]
        BY <2>3, <4>1
      <4> QED
        BY <2>4, <3>2, <4>1, <4>2
    <3> QED
      BY <2>0, <3>1, <3>2
  <2>7. Is(m + 1, g)
    BY <2>5, <2>6, Zenon
  <2>8. m + 1 \in Nat
    BY <2>0
  <2> HIDE DEF Is
  <2> QED
    BY <2>7, <2>8
<1>3. MaxDepth \in S
  <2> HIDE DEF S
  <2>1. \A m \in 0..(MaxDepth - 1) : m \in S => m + 1 \in S
    BY <1>2
  <2>2. \A m \in 0..MaxDepth : m \in S
    BY <1>1, <2>1, InductionTo, ExpressionsAssumption
  <2> QED
    BY <2>2, ExpressionsAssumption
<1>4. PICK f : Is(MaxDepth, f)
  BY <1>3
<1> QED
  BY <1>4 DEF UpToDepth

LEMMA Depths ==
    /\ UpToDepth[0] = Constants
    /\ \A n \in 0..(MaxDepth - 1) : UpToDepth[n + 1] = Constants \cup Over(UpToDepth[n])
<1> DEFINE Below(n) == IF n = 0 THEN Constants ELSE Constants \cup Over(UpToDepth[n - 1])
<1>1. \A n \in 0..MaxDepth : UpToDepth[n] = Below(n)
  BY UpToDepthIs, Zenon
<1>2. 0 \in 0..MaxDepth
  BY ExpressionsAssumption
<1>3. ASSUME NEW n \in 0..(MaxDepth - 1) PROVE UpToDepth[n + 1] = Constants \cup Over(UpToDepth[n])
  <2>1. n + 1 \in 0..MaxDepth /\ n + 1 # 0 /\ (n + 1) - 1 = n
    BY ExpressionsAssumption
  <2> QED
    BY <1>1, <2>1
<1> QED
  BY <1>1, <1>2, <1>3

LEMMA OverMonotone == ASSUME NEW S, NEW T, S \subseteq T PROVE Over(S) \subseteq Over(T)
<1>1. Seq(S) \subseteq Seq(T)
  BY SeqMonotonic
<1>2. [1..2 -> S] \subseteq [1..2 -> T] /\ [1..1 -> S] \subseteq [1..1 -> T]
  OBVIOUS
<1> HIDE <1>1
<1> QED
  BY <1>1, <1>2 DEF Over

\* Shallower expressions are expressions too.
LEMMA DepthsGrow ==
    /\ \A n \in 0..MaxDepth : UpToDepth[n] \subseteq Expr
    /\ \A n \in 0..(MaxDepth - 1) : UpToDepth[n] \subseteq UpToDepth[n + 1]
<1> DEFINE S == {n \in 0..MaxDepth : n < MaxDepth => UpToDepth[n] \subseteq UpToDepth[n + 1]}
<1>0. MaxDepth \in Nat
  BY ExpressionsAssumption
<1>1. 0 \in S
  BY <1>0, Depths
<1>2. ASSUME NEW n \in 0..(MaxDepth - 1), n \in S PROVE n + 1 \in S
  <2>0. n + 1 \in 0..MaxDepth /\ n < MaxDepth
    BY <1>0
  <2>1. UpToDepth[n] \subseteq UpToDepth[n + 1]
    BY <1>2, <2>0
  <2>2. ASSUME n + 1 < MaxDepth PROVE UpToDepth[n + 1] \subseteq UpToDepth[(n + 1) + 1]
    <3>1. n + 1 \in 0..(MaxDepth - 1)
      BY <1>0, <2>2
    <3> DEFINE A == UpToDepth[n]
               B == UpToDepth[n + 1]
    <3>2. B = Constants \cup Over(A) /\ UpToDepth[(n + 1) + 1] = Constants \cup Over(B)
      BY <3>1, Depths
    <3>3. A \subseteq B
      BY <2>1
    <3> HIDE DEF A, B
    <3>4. Over(A) \subseteq Over(B)
      BY <3>3, OverMonotone
    <3>5. B \subseteq UpToDepth[(n + 1) + 1]
      BY <3>2, <3>4
    <3> QED
      BY <3>5 DEF B
  <2> QED
    BY <2>0, <2>2
<1>3. ASSUME NEW n \in 0..(MaxDepth - 1) PROVE UpToDepth[n] \subseteq UpToDepth[n + 1]
  <2> HIDE DEF S
  <2>1. \A m \in 0..(MaxDepth - 1) : m \in S => m + 1 \in S
    BY <1>2
  <2>2. \A m \in 0..MaxDepth : m \in S
    BY <1>0, <1>1, <2>1, InductionTo
  <2>3. n \in 0..MaxDepth /\ n < MaxDepth
    BY <1>0
  <2> QED
    BY <2>2, <2>3 DEF S
<1> DEFINE T == {k \in 0..MaxDepth : UpToDepth[MaxDepth - k] \subseteq Expr}
<1>4. 0 \in T
  BY <1>0 DEF Expr
<1>5. ASSUME NEW k \in 0..(MaxDepth - 1), k \in T PROVE k + 1 \in T
  <2>1. MaxDepth - (k + 1) \in 0..(MaxDepth - 1) /\ (MaxDepth - (k + 1)) + 1 = MaxDepth - k
    BY <1>0
  <2>2. UpToDepth[MaxDepth - (k + 1)] \subseteq UpToDepth[MaxDepth - k]
    BY <1>3, <2>1
  <2> QED
    BY <1>0, <1>5, <2>2
<1>6. ASSUME NEW n \in 0..MaxDepth PROVE UpToDepth[n] \subseteq Expr
  <2> HIDE DEF T
  <2>1. \A k \in 0..(MaxDepth - 1) : k \in T => k + 1 \in T
    BY <1>5
  <2>2. \A k \in 0..MaxDepth : k \in T
    BY <1>0, <1>4, <2>1, InductionTo
  <2>3. MaxDepth - n \in 0..MaxDepth /\ MaxDepth - (MaxDepth - n) = n
    BY <1>0
  <2> QED
    BY <2>2, <2>3 DEF T
<1> QED
  BY <1>3, <1>6

LEMMA ConstantsAre ==
    ASSUME NEW e \in Constants
    PROVE  IsConstant(e) /\ e.value \in Number
BY DEF Constants, IsConstant

\* What an application of an operator or a function is made of.
LEMMA Applications ==
    ASSUME NEW S, NEW e \in Over(S)
    PROVE  /\ ~IsConstant(e) /\ e.op \in Names
           /\ e.args \in Seq(S) /\ DOMAIN e.args = 1..Len(e.args) /\ Len(e.args) \in Nat
<1>1. e.args \in Seq(S) /\ e.op \in Names /\ e.kind \in {"binary", "unary", "call"}
  <2>0. ASSUME NEW n \in Nat, NEW a \in [1..n -> S] PROVE a \in Seq(S)
    BY SeqDef
  <2>1. CASE e \in [kind : {"binary"}, op : Names, args : [1..2 -> S]]
    <3>1. e.args \in [1..2 -> S] /\ e.op \in Names /\ e.kind = "binary"
      BY <2>1
    <3> QED
      BY <2>0, <3>1
  <2>2. CASE e \in [kind : {"unary"}, op : Names, args : [1..1 -> S]]
    <3>1. e.args \in [1..1 -> S] /\ e.op \in Names /\ e.kind = "unary"
      BY <2>2
    <3> QED
      BY <2>0, <3>1
  <2>3. CASE e \in [kind : {"call"}, op : Names, args : Seq(S)]
    BY <2>3
  <2> QED
    BY <2>1, <2>2, <2>3 DEF Over
<1>2. ~IsConstant(e)
  BY <1>1 DEF IsConstant
<1> QED
  BY <1>1, <1>2

LEMMA OtherArguments ==
    ASSUME NEW S, NEW e \in Over(S), NEW T, NEW a \in [1..Len(e.args) -> T]
    PROVE  /\ [e EXCEPT !.args = a] \in Over(T)
           /\ [e EXCEPT !.args = a].op = e.op
           /\ [e EXCEPT !.args = a].args = a
<1> DEFINE g == [e EXCEPT !.args = a]
<1>1. CASE e \in [kind : {"binary"}, op : Names, args : [1..2 -> S]]
  <2>1. Len(e.args) = 2
    BY <1>1
  <2>2. g \in [kind : {"binary"}, op : Names, args : [1..2 -> T]] /\ g.op = e.op /\ g.args = a
    BY <1>1, <2>1
  <2> QED
    BY <2>2 DEF Over
<1>2. CASE e \in [kind : {"unary"}, op : Names, args : [1..1 -> S]]
  <2>1. Len(e.args) = 1
    BY <1>2
  <2>2. g \in [kind : {"unary"}, op : Names, args : [1..1 -> T]] /\ g.op = e.op /\ g.args = a
    BY <1>2, <2>1
  <2> QED
    BY <2>2 DEF Over
<1>3. CASE e \in [kind : {"call"}, op : Names, args : Seq(S)]
  <2>1. Len(e.args) \in Nat /\ a \in Seq(T)
    BY <1>3
  <2>2. g \in [kind : {"call"}, op : Names, args : Seq(T)] /\ g.op = e.op /\ g.args = a
    BY <1>3, <2>1
  <2> QED
    BY <2>2 DEF Over
<1> QED
  BY <1>1, <1>2, <1>3 DEF Over

\* An expression below a depth is a constant or applied to shallower ones.
LEMMA Shallower ==
    ASSUME NEW n \in 0..(MaxDepth - 1), NEW e \in UpToDepth[n + 1], ~IsConstant(e)
    PROVE  /\ e \in Over(UpToDepth[n])
           /\ \A i \in DOMAIN e.args : e.args[i] \in UpToDepth[n] /\ e.args[i] \in UpToDepth[n + 1]
<1>1. e \in Over(UpToDepth[n])
  BY Depths, ConstantsAre
<1>2. e.args \in Seq(UpToDepth[n]) /\ UpToDepth[n] \subseteq UpToDepth[n + 1]
  BY <1>1, Applications, DepthsGrow
<1> QED
  BY <1>1, <1>2

\* The recursive functions of expressions have the values their definitions say.
LEMMA EvalIs ==
    Eval = [e \in Expr |->
              IF IsConstant(e) THEN e.value
              ELSE Apply(e.op, [i \in DOMAIN e.args |-> Eval[e.args[i]]])]
<1> DEFINE Leaf(e) == e.value
           Node(e, f) == Apply(e.op, [i \in DOMAIN e.args |-> f[e.args[i]]])
           Is(D, f) == f = [e \in D |-> IF IsConstant(e) THEN Leaf(e) ELSE Node(e, f)]
           S == {n \in 0..MaxDepth : \E f : Is(UpToDepth[n], f)}
<1>0. MaxDepth \in Nat
  BY ExpressionsAssumption
<1>1. 0 \in S
  <2>1. \A e \in UpToDepth[0] : IsConstant(e)
    BY Depths, ConstantsAre
  <2> HIDE DEF Leaf, Node
  <2> DEFINE g == [e \in UpToDepth[0] |-> Leaf(e)]
  <2>2. Is(UpToDepth[0], g)
    BY <2>1
  <2>3. 0 \in 0..MaxDepth
    BY <1>0
  <2> HIDE DEF g, Is
  <2> QED
    BY <2>2, <2>3
<1>2. ASSUME NEW n \in 0..(MaxDepth - 1), n \in S PROVE n + 1 \in S
  <2>1. PICK f : Is(UpToDepth[n], f)
    BY <1>2
  <2> DEFINE g == [e \in UpToDepth[n + 1] |-> IF IsConstant(e) THEN Leaf(e) ELSE Node(e, f)]
  <2>2. \A e \in UpToDepth[n] : e \in UpToDepth[n + 1]
    BY DepthsGrow
  <2>3. \A e \in UpToDepth[n] : g[e] = f[e]
    <3> HIDE DEF Leaf, Node
    <3>1. \A e \in UpToDepth[n] : f[e] = IF IsConstant(e) THEN Leaf(e) ELSE Node(e, f)
      BY <2>1, Zenon
    <3> QED
      BY <2>2, <3>1
  <2>4. ASSUME NEW e \in UpToDepth[n + 1], ~IsConstant(e) PROVE Node(e, f) = Node(e, g)
    <3>1. \A i \in DOMAIN e.args : g[e.args[i]] = f[e.args[i]]
      <4> HIDE DEF g
      <4> QED
        BY <2>3, <2>4, Shallower
    <3> HIDE DEF g
    <3>2. [i \in DOMAIN e.args |-> f[e.args[i]]] = [i \in DOMAIN e.args |-> g[e.args[i]]]
      BY <3>1
    <3> QED
      BY <3>2
  <2> HIDE DEF Leaf, Node
  <2>5. Is(UpToDepth[n + 1], g)
    BY <2>4
  <2>6. n + 1 \in 0..MaxDepth
    BY <1>0
  <2> HIDE DEF g, Is
  <2> QED
    BY <2>5, <2>6
<1>3. MaxDepth \in S
  <2> HIDE DEF S
  <2>1. \A n \in 0..(MaxDepth - 1) : n \in S => n + 1 \in S
    BY <1>2
  <2>2. \A n \in 0..MaxDepth : n \in S
    BY <1>0, <1>1, <2>1, InductionTo
  <2> QED
    BY <1>0, <2>2
<1>4. PICK f : Is(Expr, f)
  BY <1>3 DEF Expr
<1> QED
  BY <1>4, Zenon DEF Eval

LEMMA SizeIs ==
    Size = [e \in Expr |->
              IF IsConstant(e) THEN 0
              ELSE LET sizes == [i \in DOMAIN e.args |-> Size[e.args[i]]] IN 1 + Sums(sizes)[Len(sizes)]]
<1> DEFINE Leaf(e) == 0
           Node(e, f) == LET sizes == [i \in DOMAIN e.args |-> f[e.args[i]]] IN 1 + Sums(sizes)[Len(sizes)]
           Is(D, f) == f = [e \in D |-> IF IsConstant(e) THEN Leaf(e) ELSE Node(e, f)]
           S == {n \in 0..MaxDepth : \E f : Is(UpToDepth[n], f)}
<1>0. MaxDepth \in Nat
  BY ExpressionsAssumption
<1>1. 0 \in S
  <2>1. \A e \in UpToDepth[0] : IsConstant(e)
    BY Depths, ConstantsAre
  <2> HIDE DEF Leaf, Node
  <2> DEFINE g == [e \in UpToDepth[0] |-> Leaf(e)]
  <2>2. Is(UpToDepth[0], g)
    BY <2>1
  <2>3. 0 \in 0..MaxDepth
    BY <1>0
  <2> HIDE DEF g, Is
  <2> QED
    BY <2>2, <2>3
<1>2. ASSUME NEW n \in 0..(MaxDepth - 1), n \in S PROVE n + 1 \in S
  <2>1. PICK f : Is(UpToDepth[n], f)
    BY <1>2
  <2> DEFINE g == [e \in UpToDepth[n + 1] |-> IF IsConstant(e) THEN Leaf(e) ELSE Node(e, f)]
  <2>2. \A e \in UpToDepth[n] : e \in UpToDepth[n + 1]
    BY DepthsGrow
  <2>3. \A e \in UpToDepth[n] : g[e] = f[e]
    <3> HIDE DEF Leaf, Node
    <3>1. \A e \in UpToDepth[n] : f[e] = IF IsConstant(e) THEN Leaf(e) ELSE Node(e, f)
      BY <2>1, Zenon
    <3> QED
      BY <2>2, <3>1
  <2>4. ASSUME NEW e \in UpToDepth[n + 1], ~IsConstant(e) PROVE Node(e, f) = Node(e, g)
    <3>1. \A i \in DOMAIN e.args : g[e.args[i]] = f[e.args[i]]
      <4> HIDE DEF g
      <4> QED
        BY <2>3, <2>4, Shallower
    <3> HIDE DEF g
    <3>2. [i \in DOMAIN e.args |-> f[e.args[i]]] = [i \in DOMAIN e.args |-> g[e.args[i]]]
      BY <3>1
    <3> QED
      BY <3>2
  <2> HIDE DEF Leaf, Node
  <2>5. Is(UpToDepth[n + 1], g)
    BY <2>4
  <2>6. n + 1 \in 0..MaxDepth
    BY <1>0
  <2> HIDE DEF g, Is
  <2> QED
    BY <2>5, <2>6
<1>3. MaxDepth \in S
  <2> HIDE DEF S
  <2>1. \A n \in 0..(MaxDepth - 1) : n \in S => n + 1 \in S
    BY <1>2
  <2>2. \A n \in 0..MaxDepth : n \in S
    BY <1>0, <1>1, <2>1, InductionTo
  <2> QED
    BY <1>0, <2>2
<1>4. PICK f : Is(Expr, f)
  BY <1>3 DEF Expr
<1> QED
  BY <1>4, Zenon DEF Size

LEMMA CalculatedIs ==
    Calculated = [e \in Expr |->
                    IF IsConstant(e) THEN [value |-> e.value, steps |-> <<>>]
                    ELSE Combined(e, [i \in DOMAIN e.args |-> Calculated[e.args[i]]])]
<1> DEFINE Leaf(e) == [value |-> e.value, steps |-> <<>>]
           Node(e, f) == Combined(e, [i \in DOMAIN e.args |-> f[e.args[i]]])
           Is(D, f) == f = [e \in D |-> IF IsConstant(e) THEN Leaf(e) ELSE Node(e, f)]
           S == {n \in 0..MaxDepth : \E f : Is(UpToDepth[n], f)}
<1>0. MaxDepth \in Nat
  BY ExpressionsAssumption
<1>1. 0 \in S
  <2>1. \A e \in UpToDepth[0] : IsConstant(e)
    BY Depths, ConstantsAre
  <2> HIDE DEF Leaf, Node
  <2> DEFINE g == [e \in UpToDepth[0] |-> Leaf(e)]
  <2>2. Is(UpToDepth[0], g)
    BY <2>1
  <2>3. 0 \in 0..MaxDepth
    BY <1>0
  <2> HIDE DEF g, Is
  <2> QED
    BY <2>2, <2>3
<1>2. ASSUME NEW n \in 0..(MaxDepth - 1), n \in S PROVE n + 1 \in S
  <2>1. PICK f : Is(UpToDepth[n], f)
    BY <1>2
  <2> DEFINE g == [e \in UpToDepth[n + 1] |-> IF IsConstant(e) THEN Leaf(e) ELSE Node(e, f)]
  <2>2. \A e \in UpToDepth[n] : e \in UpToDepth[n + 1]
    BY DepthsGrow
  <2>3. \A e \in UpToDepth[n] : g[e] = f[e]
    <3> HIDE DEF Leaf, Node
    <3>1. \A e \in UpToDepth[n] : f[e] = IF IsConstant(e) THEN Leaf(e) ELSE Node(e, f)
      BY <2>1, Zenon
    <3> QED
      BY <2>2, <3>1
  <2>4. ASSUME NEW e \in UpToDepth[n + 1], ~IsConstant(e) PROVE Node(e, f) = Node(e, g)
    <3>1. \A i \in DOMAIN e.args : g[e.args[i]] = f[e.args[i]]
      <4> HIDE DEF g
      <4> QED
        BY <2>3, <2>4, Shallower
    <3> HIDE DEF g
    <3>2. [i \in DOMAIN e.args |-> f[e.args[i]]] = [i \in DOMAIN e.args |-> g[e.args[i]]]
      BY <3>1
    <3> QED
      BY <3>2
  <2> HIDE DEF Leaf, Node
  <2>5. Is(UpToDepth[n + 1], g)
    BY <2>4
  <2>6. n + 1 \in 0..MaxDepth
    BY <1>0
  <2> HIDE DEF g, Is
  <2> QED
    BY <2>5, <2>6
<1>3. MaxDepth \in S
  <2> HIDE DEF S
  <2>1. \A n \in 0..(MaxDepth - 1) : n \in S => n + 1 \in S
    BY <1>2
  <2>2. \A n \in 0..MaxDepth : n \in S
    BY <1>0, <1>1, <2>1, InductionTo
  <2> QED
    BY <1>0, <2>2
<1>4. PICK f : Is(Expr, f)
  BY <1>3 DEF Expr
<1> QED
  BY <1>4, Zenon DEF Calculated

LEMMA OfConstant ==
    ASSUME NEW e \in Constants
    PROVE  /\ e \in Expr /\ Eval[e] = e.value /\ Size[e] = 0
           /\ Calculated[e] = [value |-> e.value, steps |-> <<>>]
<1>1. 0 \in 0..MaxDepth
  BY ExpressionsAssumption
<1>2. e \in Expr /\ IsConstant(e)
  BY <1>1, Depths, DepthsGrow, ConstantsAre
<1>3. Eval[e] = e.value
  BY <1>2, EvalIs
<1>4. Size[e] = 0
  BY <1>2, SizeIs
<1>5. Calculated[e] = [value |-> e.value, steps |-> <<>>]
  BY <1>2, CalculatedIs
<1> QED
  BY <1>2, <1>3, <1>4, <1>5

LEMMA OfApplication ==
    ASSUME NEW n \in 0..(MaxDepth - 1), NEW e \in Over(UpToDepth[n])
    PROVE  /\ e \in UpToDepth[n + 1] /\ e \in Expr
           /\ Eval[e] = Apply(e.op, [i \in DOMAIN e.args |-> Eval[e.args[i]]])
           /\ LET sizes == [i \in DOMAIN e.args |-> Size[e.args[i]]]
              IN  Size[e] = 1 + Sums(sizes)[Len(sizes)]
           /\ Calculated[e] = Combined(e, [i \in DOMAIN e.args |-> Calculated[e.args[i]]])
<1>1. e \in UpToDepth[n + 1] /\ n + 1 \in 0..MaxDepth
  BY Depths, ExpressionsAssumption
<1>2. e \in Expr /\ ~IsConstant(e)
  BY <1>1, DepthsGrow, Applications
<1>3. Eval[e] = Apply(e.op, [i \in DOMAIN e.args |-> Eval[e.args[i]]])
  <2> DEFINE F(x) == IF IsConstant(x) THEN x.value ELSE Apply(x.op, [i \in DOMAIN x.args |-> Eval[x.args[i]]])
  <2>1. Eval = [x \in Expr |-> F(x)]
    BY EvalIs
  <2> HIDE DEF F
  <2>2. Eval[e] = F(e)
    BY <1>2, <2>1
  <2> QED
    BY <1>2, <2>2 DEF F
<1>4. LET sizes == [i \in DOMAIN e.args |-> Size[e.args[i]]] IN Size[e] = 1 + Sums(sizes)[Len(sizes)]
  <2> DEFINE F(x) == IF IsConstant(x) THEN 0
                     ELSE LET sizes == [i \in DOMAIN x.args |-> Size[x.args[i]]] IN 1 + Sums(sizes)[Len(sizes)]
  <2>1. Size = [x \in Expr |-> F(x)]
    BY SizeIs
  <2> HIDE DEF F
  <2>2. Size[e] = F(e)
    BY <1>2, <2>1
  <2> QED
    BY <1>2, <2>2 DEF F
<1>5. Calculated[e] = Combined(e, [i \in DOMAIN e.args |-> Calculated[e.args[i]]])
  <2> DEFINE F(x) == IF IsConstant(x) THEN [value |-> x.value, steps |-> <<>>]
                     ELSE Combined(x, [i \in DOMAIN x.args |-> Calculated[x.args[i]]])
  <2>1. Calculated = [x \in Expr |-> F(x)]
    BY CalculatedIs
  <2> HIDE DEF F
  <2>2. Calculated[e] = F(e)
    BY <1>2, <2>1
  <2> QED
    BY <1>2, <2>2 DEF F
<1> QED
  BY <1>1, <1>2, <1>3, <1>4, <1>5

LEMMA ShortSequences ==
    ASSUME NEW S, NEW x \in S, NEW y \in S
    PROVE  /\ <<x>> \in Seq(S) /\ Len(<<x>>) = 1 /\ <<x>>[1] = x
           /\ <<x, y>> \in Seq(S) /\ Len(<<x, y>>) = 2 /\ <<x, y>>[1] = x /\ <<x, y>>[2] = y
  OBVIOUS

\* Where no division by zero is, the sign of a result is one.
LEMMA SignType ==
    ASSUME NEW op, NEW s \in Seq({-1, 0, 1}) PROVE SignOf(op, s) \in {-1, 0, 1}
<1>1. Len(s) = 2 => s[1] \in {-1, 0, 1} /\ s[2] \in {-1, 0, 1}
  OBVIOUS
<1>2. Len(s) = 1 => s[1] \in {-1, 0, 1}
  OBVIOUS
<1>3. CASE Len(s) = 2
  <2> DEFINE x == s[1]
             y == s[2]
  <2>1. x \in {-1, 0, 1} /\ y \in {-1, 0, 1}
    BY <1>1, <1>3
  <2>2. /\ x * y \in {-1, 0, 1}
        /\ Signum(x + y) \in {-1, 0, 1}
        /\ Signum(x - y) \in {-1, 0, 1}
        /\ (IF x = 0 THEN 0 ELSE y) \in {-1, 0, 1}
        /\ (IF y = 0 THEN 1 ELSE x) \in {-1, 0, 1}
    <3> HIDE DEF x, y
    <3>1. CASE x = 0
      BY <2>1, <3>1 DEF Signum
    <3>2. CASE x = 1
      BY <2>1, <3>2 DEF Signum
    <3>3. CASE x = -1
      BY <2>1, <3>3 DEF Signum
    <3> QED BY <2>1, <3>1, <3>2, <3>3
  <2> QED BY <1>3, <2>2 DEF SignOf
<1>4. CASE Len(s) = 1
  BY <1>2, <1>4 DEF SignOf
<1>5. CASE Len(s) # 2 /\ Len(s) # 1
  BY <1>5 DEF SignOf
<1> QED BY <1>3, <1>4, <1>5

\* What functions return is a number.
LEMMA ApplyType ==
    ASSUME NEW op \in Names, NEW numbers \in Seq(Number)
    PROVE  /\ Apply(op, numbers) \in Number
           /\ Apply(op, numbers) # Raised => \A i \in 1..Len(numbers) : numbers[i] # Raised
<1> DEFINE signs == [i \in DOMAIN numbers |-> numbers[i].sign]
           names == [i \in DOMAIN numbers |-> numbers[i].name]
           lens  == [i \in 1..Len(numbers) |-> Len(names[i])]
<1>0. /\ DOMAIN numbers = 1..Len(numbers)
      /\ \A i \in DOMAIN numbers : numbers[i].name \in Seq(Names \cup Marks) /\ numbers[i].sign \in {-1, 0, 1}
  <2>1. DOMAIN numbers = 1..Len(numbers)
    OBVIOUS
  <2>2. ASSUME NEW i \in DOMAIN numbers
        PROVE  numbers[i].name \in Seq(Names \cup Marks) /\ numbers[i].sign \in {-1, 0, 1}
    <3>1. numbers[i] \in Number
      BY <2>2
    <3> QED BY <3>1 DEF Number
  <2> QED BY <2>1, <2>2
<1>1. /\ signs \in Seq({-1, 0, 1})
      /\ names \in Seq(Seq(Names \cup Marks)) /\ Len(names) = Len(numbers)
  BY <1>0
<1>2. lens \in Seq(Nat) /\ Len(lens) = Len(names) /\ \A i \in 1..Len(names) : lens[i] = Len(names[i])
  <2> HIDE DEF names
  <2>1. \A i \in 1..Len(names) : names[i] \in Seq(Names \cup Marks) /\ Len(names[i]) \in Nat
    BY <1>1
  <2> QED
    BY <1>1, <2>1
<1> HIDE DEF lens, names, signs
<1>3. FlattenSeq(names) \in Seq(Names \cup Marks)
  BY <1>1, <1>2, FlattenFinds
<1>4. <<op, "(">> \o FlattenSeq(names) \o <<")">> \in Seq(Names \cup Marks) /\ <<"exception">> \in Seq(Names \cup Marks)
  <2>0. /\ "(" \in (Names \cup Marks) /\ ")" \in (Names \cup Marks)
        /\ op \in (Names \cup Marks) /\ "exception" \in (Names \cup Marks)
    BY DEF Marks
  <2>1. /\ <<op, "(">> \in Seq(Names \cup Marks)
        /\ <<")">> \in Seq(Names \cup Marks)
        /\ <<"exception">> \in Seq(Names \cup Marks)
    BY <2>0, ShortSequences, Zenon
  <2> DEFINE a == <<op, "(">>
             b == FlattenSeq(names)
             c == <<")">>
  <2>2. a \in Seq(Names \cup Marks) /\ b \in Seq(Names \cup Marks) /\ c \in Seq(Names \cup Marks)
    BY <1>3, <2>1
  <2> HIDE DEF a, b, c
  <2>3. a \o b \o c \in Seq(Names \cup Marks)
    BY <2>2, ConcatProperties
  <2> QED
    BY <2>1, <2>3 DEF a, b, c
<1>5. SignOf(op, signs) \in {-1, 0, 1}
  BY <1>1, SignType
<1> DEFINE result == [name |-> <<op, "(">> \o FlattenSeq(names) \o <<")">>, sign |-> SignOf(op, signs)]
<1>6. result \in Number /\ Raised \in Number
  BY <1>4, <1>5 DEF Number, Raised
<1>7. Apply(op, numbers) = IF Contains(numbers, Raised) \/ ZeroDivision(op, signs) THEN Raised ELSE result
  BY DEF Apply, names, signs
<1> HIDE DEF result
<1>8. Apply(op, numbers) \in Number
  BY <1>6, <1>7
<1>9. ASSUME Apply(op, numbers) # Raised PROVE \A i \in 1..Len(numbers) : numbers[i] # Raised
  <2>1. ~Contains(numbers, Raised)
    BY <1>7, <1>9
  <2> QED BY <2>1 DEF Contains
<1> QED
  BY <1>8, <1>9

\* Other operands of the same values leave the value.
LEMMA SameOperands ==
    ASSUME NEW n \in 0..(MaxDepth - 1), NEW e \in Over(UpToDepth[n]), NEW a \in [1..Len(e.args) -> UpToDepth[n]],
           \A j \in 1..Len(e.args) : Eval[a[j]] = Eval[e.args[j]],
           NEW g, g = [e EXCEPT !.args = a]
    PROVE  Eval[g] = Eval[e]
<1>1. g \in Over(UpToDepth[n]) /\ g.op = e.op /\ g.args = a
  BY OtherArguments
<1>2. DOMAIN e.args = 1..Len(e.args) /\ DOMAIN a = 1..Len(e.args)
  BY Applications
<1>3. Eval[g] = Apply(e.op, [i \in DOMAIN a |-> Eval[a[i]]])
  <2>1. Eval[g] = Apply(g.op, [i \in DOMAIN g.args |-> Eval[g.args[i]]])
    BY <1>1, OfApplication, Zenon
  <2> QED
    BY <1>1, <2>1
<1>4. Eval[e] = Apply(e.op, [i \in DOMAIN e.args |-> Eval[e.args[i]]])
  BY OfApplication, Zenon
<1>5. [i \in DOMAIN a |-> Eval[a[i]]] = [i \in DOMAIN e.args |-> Eval[e.args[i]]]
  BY <1>2
<1> QED
  BY <1>3, <1>4, <1>5

\* The sizes of other operands.
SizesOf(e, a, sizes) ==
    sizes \in Seq(Nat) /\ Len(sizes) = Len(e.args) /\ \A j \in 1..Len(e.args) : sizes[j] = Size[a[j]]

LEMMA SizeOfArguments ==
    ASSUME NEW n \in 0..(MaxDepth - 1), NEW e \in Over(UpToDepth[n]), NEW a \in [1..Len(e.args) -> UpToDepth[n]],
           NEW sizes, SizesOf(e, a, sizes), NEW g, g = [e EXCEPT !.args = a]
    PROVE  Size[g] = 1 + Sums(sizes)[Len(e.args)]
<1>1. g \in Over(UpToDepth[n]) /\ g.op = e.op /\ g.args = a
  BY OtherArguments
<1>2. DOMAIN a = 1..Len(e.args) /\ Len(e.args) \in Nat
  BY Applications
<1>3. sizes = [i \in DOMAIN a |-> Size[a[i]]]
  <2>1. sizes = [i \in 1..Len(sizes) |-> sizes[i]]
    BY DEF SizesOf
  <2> QED
    BY <1>2, <2>1 DEF SizesOf
<1> DEFINE t == [i \in DOMAIN g.args |-> Size[g.args[i]]]
<1>4. Size[g] = 1 + Sums(t)[Len(t)]
  BY <1>1, OfApplication, Zenon
<1>5. t = sizes
  BY <1>1, <1>3
<1> HIDE DEF t
<1> QED
  BY <1>4, <1>5 DEF SizesOf

\* The operands of Beside.
OperandsBeside(e, values, i, step) ==
    SubSeq(values, 1, i - 1) \o <<step>> \o SubSeq(e.args, i + 1, Len(e.args))

IsBeside(S, e, values, i, step) ==
    LET a == OperandsBeside(e, values, i, step)
    IN  /\ a \in [1..Len(e.args) -> S]
        /\ Beside(e, values, i, step) = [e EXCEPT !.args = a]
        /\ \A j \in 1..Len(e.args) : a[j] = IF j < i THEN values[j] ELSE IF j = i THEN step ELSE e.args[j]

LEMMA BesideIs ==
    ASSUME NEW S, NEW e \in Over(S), NEW values \in [1..Len(e.args) -> S], NEW i \in 1..Len(e.args), NEW step \in S
    PROVE  IsBeside(S, e, values, i, step)
<1> DEFINE n == Len(e.args)
           b == SubSeq(values, 1, i - 1)
           c == <<step>>
           d == SubSeq(e.args, i + 1, n)
           a == b \o c \o d
<1>1. n \in Nat /\ e.args \in Seq(S) /\ values \in Seq(S) /\ Len(values) = n
  BY Applications
<1>2. b \in Seq(S) /\ Len(b) = i - 1 /\ \A j \in 1..(i - 1) : b[j] = values[j]
  <2>1. \A j \in 1..(i - 1) : values[j] \in S
    BY <1>1
  <2>2. 1 \in Int /\ i - 1 \in Int /\ (i - 1) - 1 + 1 = i - 1
    OBVIOUS
  <2>3. /\ b \in Seq(S) /\ Len(b) = IF 1 <= i - 1 THEN (i - 1) - 1 + 1 ELSE 0
        /\ \A j \in 1..((i - 1) - 1 + 1) : b[j] = values[1 + j - 1]
    BY <2>1, <2>2, SubSeqProperties
  <2> HIDE DEF b
  <2>4. \A j \in 1..(i - 1) : b[j] = values[j]
    BY <2>3
  <2> QED
    BY <2>3, <2>4
<1>3. d \in Seq(S) /\ Len(d) = n - i /\ \A j \in 1..(n - i) : d[j] = e.args[i + j]
  <2>1. \A j \in (i + 1)..n : e.args[j] \in S
    BY <1>1
  <2>2. i + 1 \in Int /\ n \in Int
    BY <1>1
  <2>3. /\ d \in Seq(S) /\ Len(d) = IF i + 1 <= n THEN n - (i + 1) + 1 ELSE 0
        /\ \A j \in 1..(n - (i + 1) + 1) : d[j] = e.args[(i + 1) + j - 1]
    BY <2>1, <2>2, SubSeqProperties
  <2> HIDE DEF d
  <2>4. \A j \in 1..(n - i) : d[j] = e.args[i + j]
    <3> TAKE j \in 1..(n - i)
    <3>1. j \in 1..(n - (i + 1) + 1) /\ (i + 1) + j - 1 = i + j
      BY <1>1
    <3> QED
      BY <2>3, <3>1
  <2>5. Len(d) = n - i
    <3>1. i \in Nat /\ i <= n /\ Len(d) = IF i + 1 <= n THEN n - (i + 1) + 1 ELSE 0
      BY <1>1, <2>3
    <3> QED
      BY <1>1, <3>1
  <2> QED
    BY <2>3, <2>4, <2>5
<1>4. c \in Seq(S) /\ Len(c) = 1 /\ c[1] = step
  OBVIOUS
<1>5. Beside(e, values, i, step) = [e EXCEPT !.args = a]
  BY DEF Beside
<1>11. OperandsBeside(e, values, i, step) = a
  BY DEF OperandsBeside
<1> HIDE DEF b, c, d
<1> DEFINE bc == b \o c
<1>6. /\ bc \in Seq(S) /\ Len(bc) = i
      /\ \A j \in 1..i : bc[j] = IF j < i THEN values[j] ELSE step
  <2>0. b \in Seq(S) /\ c \in Seq(S)
    BY <1>2, <1>4
  <2>c. /\ bc \in Seq(S) /\ Len(bc) = Len(b) + Len(c)
        /\ \A j \in 1..(Len(b) + Len(c)) : bc[j] = IF j <= Len(b) THEN b[j] ELSE c[j - Len(b)]
    BY <2>0, ConcatProperties
  <2> HIDE DEF bc
  <2>l. Len(b) = i - 1 /\ Len(c) = 1 /\ (i - 1) + 1 = i
    BY <1>2, <1>4
  <2>1. bc \in Seq(S) /\ Len(bc) = (i - 1) + 1
    BY <2>c, <2>l
  <2>2. \A j \in 1..i : bc[j] = IF j <= i - 1 THEN b[j] ELSE c[j - (i - 1)]
    BY <2>c, <2>l
  <2>3. ASSUME NEW j \in 1..i PROVE bc[j] = IF j < i THEN values[j] ELSE step
    <3>1. CASE j < i
      <4>1. j \in 1..(i - 1) /\ j <= i - 1
        BY <3>1
      <4> QED
        BY <1>2, <2>2, <3>1, <4>1
    <3>2. CASE j = i
      <4>1. ~(j <= i - 1) /\ j - (i - 1) = 1
        BY <3>2
      <4> QED
        BY <1>4, <2>2, <3>2, <4>1
    <3> QED
      BY <3>1, <3>2
  <2> QED
    BY <2>1, <2>3
<1> HIDE DEF bc
<1>7. a = bc \o d
  BY DEF bc
<1> HIDE DEF a
<1>8. a \in Seq(S) /\ Len(a) = n /\ \A j \in 1..n : a[j] = IF j <= i THEN bc[j] ELSE d[j - i]
  <2>1. a \in Seq(S) /\ Len(a) = i + (n - i)
    BY <1>3, <1>6, <1>7, ConcatProperties
  <2>2. i + (n - i) = n
    BY <1>1
  <2>3. \A j \in 1..n : a[j] = IF j <= i THEN bc[j] ELSE d[j - i]
    BY <1>3, <1>6, <1>7, <2>2, ConcatProperties
  <2> QED
    BY <2>1, <2>2, <2>3
<1>9. ASSUME NEW j \in 1..n PROVE a[j] = IF j < i THEN values[j] ELSE IF j = i THEN step ELSE e.args[j]
  <2>1. CASE j <= i
    <3>1. j \in 1..i
      BY <2>1
    <3> QED
      BY <1>6, <1>8, <2>1, <3>1
  <2>2. CASE j > i
    <3>1. j - i \in 1..(n - i) /\ i + (j - i) = j /\ ~(j <= i)
      BY <1>1, <2>2
    <3> QED
      BY <1>3, <1>8, <2>2, <3>1
  <2> QED
    BY <2>1, <2>2
<1>10. a \in [1..n -> S]
  BY <1>1, <1>8
<1> QED
  BY <1>5, <1>9, <1>10, <1>11 DEF IsBeside

---------------------------------------------------------------------------
\* The steps of calculate().

\* calculate() is right about an expression up to a depth.
RightAbout(n, e) ==
    LET c == Calculated[e]
    IN  /\ Eval[e] \in Number /\ Size[e] \in Nat
        /\ c.value = Eval[e]
        /\ c.steps \in Seq(UpToDepth[n])
        /\ Len(c.steps) = IF Size[e] = 0 THEN 0 ELSE Size[e] + 1
        /\ \A i \in 1..Len(c.steps) : Size[c.steps[i]] = Size[e] + 1 - i
        /\ Eval[e] # Raised => \A i \in 1..Len(c.steps) : Eval[c.steps[i]] = Eval[e]
        /\ c.steps # <<>> => Last(c.steps) = Constant(Eval[e])

LEMMA RightAboutConstants ==
    ASSUME NEW n \in 0..MaxDepth, NEW e \in Constants
    PROVE  RightAbout(n, e)
<1>1. e.value \in Number /\ Eval[e] = e.value /\ Size[e] = 0 /\ Calculated[e] = [value |-> e.value, steps |-> <<>>]
  BY ConstantsAre, OfConstant
<1>2. Calculated[e].value = e.value /\ Calculated[e].steps = <<>>
  BY <1>1
<1> QED
  BY <1>1, <1>2 DEF RightAbout

\* The steps of an operand that become steps of the whole.
LEMMA AllButLastOfRight ==
    ASSUME NEW n \in 0..MaxDepth, NEW e, RightAbout(n, e)
    PROVE  LET steps == Calculated[e].steps
               shown == AllButLast(steps)
           IN  /\ shown \in Seq(UpToDepth[n]) /\ Len(shown) = Size[e] /\ DOMAIN shown = 1..Size[e]
               /\ \A k \in 1..Size[e] : shown[k] = steps[k] /\ k \in 1..Len(steps)
<1> DEFINE steps == Calculated[e].steps
           shown == AllButLast(steps)
           m == Len(steps) - 1
<1>1. /\ steps \in Seq(UpToDepth[n]) /\ Size[e] \in Nat
      /\ Len(steps) = IF Size[e] = 0 THEN 0 ELSE Size[e] + 1
  BY DEF RightAbout
<1> HIDE DEF steps
<1>2. \A i \in 1..m : steps[i] \in UpToDepth[n]
  BY <1>1
<1>3. m \in Int /\ 1 \in Int
  BY <1>1
<1>4. /\ shown \in Seq(UpToDepth[n]) /\ Len(shown) = IF 1 <= m THEN m - 1 + 1 ELSE 0
      /\ \A i \in 1..(m - 1 + 1) : shown[i] = steps[1 + i - 1]
  <2> DEFINE D == UpToDepth[n]
             s == SubSeq(steps, 1, m)
  <2>1. shown = s
    BY DEF AllButLast
  <2>2. (\A i \in 1..m : steps[i] \in D) /\ m \in Int /\ 1 \in Int
    BY <1>2, <1>3
  <2> HIDE DEF m, D, shown
  <2>3. /\ s \in Seq(D) /\ Len(s) = IF 1 <= m THEN m - 1 + 1 ELSE 0
        /\ \A i \in 1..(m - 1 + 1) : s[i] = steps[1 + i - 1]
    BY <2>2, SubSeqProperties
  <2> QED
    BY <2>1, <2>3 DEF D
<1> HIDE DEF shown
<1>5. Len(shown) = Size[e]
  BY <1>1, <1>4
<1>6. ASSUME NEW k \in 1..Size[e] PROVE shown[k] = steps[k] /\ k \in 1..Len(steps)
  <2>1. k \in 1..(m - 1 + 1) /\ 1 + k - 1 = k /\ k \in 1..Len(steps)
    BY <1>1
  <2> QED
    BY <1>4, <2>1
<1>7. DOMAIN shown = 1..Size[e]
  BY <1>4, <1>5
<1> QED
  BY <1>4, <1>5, <1>6, <1>7 DEF steps, shown

LEMMA StepsLeft ==
    ASSUME NEW all \in Nat, NEW before \in Nat, NEW own \in Nat, NEW k \in 1..own, NEW size, NEW whole,
           whole = 1 + all, size = 1 + (all - (before + own) + (own + 1 - k))
    PROVE  size = whole + 1 - (before + k)
  OBVIOUS

LEMMA RightAboutApplications ==
    ASSUME NEW n \in 0..(MaxDepth - 1), NEW e \in Over(UpToDepth[n]),
           \A i \in 1..Len(e.args) : RightAbout(n, e.args[i])
    PROVE  RightAbout(n + 1, e)
<1> DEFINE D == UpToDepth[n]
           L == Len(e.args)
           of == [i \in DOMAIN e.args |-> Calculated[e.args[i]]]
           values == [i \in DOMAIN e.args |-> Constant(of[i].value)]
           shown(i) == AllButLast(of[i].steps)
           within == [i \in DOMAIN e.args |-> [j \in DOMAIN shown(i) |-> Beside(e, values, i, shown(i)[j])]]
           sizes == [i \in DOMAIN e.args |-> Size[e.args[i]]]
           result == Apply(e.op, [i \in DOMAIN e.args |-> of[i].value])
           applied == [e EXCEPT !.args = values]
           last == Constant(result)
           steps == FlattenSeq(within) \o <<applied, last>>
<1>a. /\ n \in 0..MaxDepth /\ n + 1 \in 0..MaxDepth
      /\ L \in Nat /\ DOMAIN e.args = 1..L /\ e.op \in Names /\ e.args \in Seq(D) /\ Constants \subseteq D
      /\ \A i \in 1..L : e.args[i] \in D
  <2>1. n \in 0..MaxDepth /\ n + 1 \in 0..MaxDepth
    BY ExpressionsAssumption
  <2>2. Constants \subseteq D
    <3>1. n = 0 \/ n - 1 \in 0..(MaxDepth - 1)
      BY ExpressionsAssumption
    <3>2. CASE n = 0
      BY <3>2, Depths
    <3>3. CASE n - 1 \in 0..(MaxDepth - 1)
      <4>1. (n - 1) + 1 = n
        OBVIOUS
      <4> QED
        BY <3>3, <4>1, Depths
    <3> QED
      BY <3>1, <3>2, <3>3
  <2> QED
    BY <2>1, <2>2, Applications
<1>b. Calculated[e] = [value |-> result, steps |-> steps]
  <2>1. Calculated[e] = Combined(e, of)
    BY OfApplication, Zenon
  <2> QED
    BY <2>1, Zenon DEF Combined
\* the values of the operands
<1>v. \A i \in 1..L : Eval[e.args[i]] \in Number /\ of[i].value = Eval[e.args[i]]
  BY <1>a DEF RightAbout
<1>c. /\ values \in [1..L -> D]
      /\ \A i \in 1..L : Eval[values[i]] = Eval[e.args[i]] /\ Size[values[i]] = 0
  <2>1. ASSUME NEW i \in 1..L
        PROVE  values[i] \in D /\ Eval[values[i]] = Eval[e.args[i]] /\ Size[values[i]] = 0
    <3>1. Eval[e.args[i]] \in Number /\ of[i].value = Eval[e.args[i]]
      BY <1>v
    <3>2. values[i] = Constant(Eval[e.args[i]])
      BY <1>a, <3>1
    <3>3. values[i] \in Constants /\ values[i].value = Eval[e.args[i]]
      <4> DEFINE x == Eval[e.args[i]]
                 v == values[i]
      <4>1. x \in Number /\ v = [kind |-> "constant", value |-> x]
        BY <3>1, <3>2, Zenon DEF Constant
      <4> HIDE DEF x, v
      <4>2. v \in Constants /\ v.value = x
        BY <4>1 DEF Constants
      <4> QED
        BY <4>2 DEF x, v
    <3> HIDE DEF values
    <3> QED
      BY <1>a, <3>1, <3>3, OfConstant
  <2>2. DOMAIN values = 1..L /\ values = [i \in DOMAIN values |-> values[i]]
    BY <1>a
  <2> HIDE DEF values, of
  <2> QED
    BY <2>1, <2>2
<1>d. result = Eval[e] /\ result \in Number /\ (result # Raised => \A i \in 1..L : Eval[e.args[i]] # Raised)
  <2> DEFINE t == [i \in DOMAIN e.args |-> Eval[e.args[i]]]
  <2>0. \A i \in 1..L : Eval[e.args[i]] \in Number
    BY <1>v
  <2>1. [i \in DOMAIN e.args |-> of[i].value] = t
    BY <1>a, <1>v
  <2>2. Eval[e] = Apply(e.op, t)
    BY OfApplication, Zenon
  <2>3. t \in Seq(Number) /\ Len(t) = L /\ \A i \in 1..L : t[i] = Eval[e.args[i]]
    BY <1>a, <2>0
  <2>4. result = Apply(e.op, t)
    BY <2>1
  <2> HIDE DEF t, result
  <2>5. Apply(e.op, t) \in Number /\ (Apply(e.op, t) # Raised => \A i \in 1..L : t[i] # Raised)
    BY <1>a, <2>3, ApplyType
  <2> QED
    BY <2>2, <2>3, <2>4, <2>5
\* the sizes of the operands
<1>e. /\ sizes \in Seq(Nat) /\ Len(sizes) = L /\ \A i \in 1..L : sizes[i] = Size[e.args[i]] /\ sizes[i] \in Nat
      /\ Size[e] = 1 + Sums(sizes)[L] /\ Sums(sizes)[L] \in Nat
  <2>1. \A i \in 1..L : Size[e.args[i]] \in Nat
    BY DEF RightAbout
  <2>2. sizes \in Seq(Nat) /\ Len(sizes) = L /\ \A i \in 1..L : sizes[i] = Size[e.args[i]]
    BY <1>a, <2>1
  <2>3. Size[e] = 1 + Sums(sizes)[Len(sizes)]
    BY OfApplication, Zenon
  <2> HIDE DEF sizes
  <2>4. Sums(sizes)[L] \in Nat
    BY <1>a, <2>2, SumsStep
  <2> QED
    BY <2>1, <2>2, <2>3, <2>4
\* a step of an operand beside the others
<1>f. ASSUME NEW i \in 1..L
      PROVE  /\ shown(i) \in Seq(D) /\ DOMAIN shown(i) = 1..sizes[i] /\ Len(shown(i)) = sizes[i]
             /\ \A k \in 1..sizes[i] :
                   /\ shown(i)[k] \in D
                   /\ Size[shown(i)[k]] = sizes[i] + 1 - k
                   /\ Eval[e.args[i]] # Raised => Eval[shown(i)[k]] = Eval[e.args[i]]
  <2> DEFINE x == e.args[i]
             s == Calculated[x].steps
  <2>1. RightAbout(n, x) /\ sizes[i] = Size[x] /\ of[i].steps = s
    BY <1>a, <1>e
  <2>2. /\ \A k \in 1..Len(s) : Size[s[k]] = Size[x] + 1 - k
        /\ Eval[x] # Raised => \A k \in 1..Len(s) : Eval[s[k]] = Eval[x]
    BY <2>1 DEF RightAbout
  <2> DEFINE w == AllButLast(s)
  <2>3. /\ w \in Seq(D) /\ Len(w) = Size[x] /\ DOMAIN w = 1..Size[x]
        /\ \A k \in 1..Size[x] : w[k] = s[k] /\ k \in 1..Len(s)
    BY <1>a, <2>1, AllButLastOfRight, Zenon
  <2>4. shown(i) = w
    BY <2>1
  <2> HIDE DEF x, s, w, of, sizes
  <2>5. \A k \in 1..Size[x] : /\ w[k] \in D /\ Size[w[k]] = Size[x] + 1 - k
                              /\ Eval[x] # Raised => Eval[w[k]] = Eval[x]
    BY <2>2, <2>3
  <2> QED
    BY <2>1, <2>3, <2>4, <2>5 DEF x
<1>g. ASSUME NEW i \in 1..L, NEW k \in 1..sizes[i]
      PROVE  LET b == Beside(e, values, i, shown(i)[k])
             IN  /\ b \in Over(D)
                 /\ Size[b] = Size[e] + 1 - (Sums(sizes)[i - 1] + k)
                 /\ result # Raised => Eval[b] = Eval[e]
  <2> DEFINE y == shown(i)[k]
             b == Beside(e, values, i, y)
  <2>1. /\ y \in D /\ Size[y] = sizes[i] + 1 - k
        /\ Eval[e.args[i]] # Raised => Eval[y] = Eval[e.args[i]]
    BY <1>f
  <2> HIDE DEF values, y, sizes, result, of, D
  <2>x. e \in Over(D) /\ values \in [1..Len(e.args) -> D] /\ i \in 1..Len(e.args) /\ y \in D
    BY <1>c, <2>1 DEF D
  <2> DEFINE a == OperandsBeside(e, values, i, y)
  <2>2. /\ a \in [1..L -> D]
        /\ b = [e EXCEPT !.args = a]
        /\ \A j \in 1..L : a[j] = IF j < i THEN values[j] ELSE IF j = i THEN y ELSE e.args[j]
    <3>1. IsBeside(D, e, values, i, y)
      BY <2>x, BesideIs, Zenon
    <3> QED
      BY <3>1 DEF IsBeside
  <2> USE DEF D
  <2> HIDE DEF a, b
  <2>3. b \in Over(D)
    BY <1>a, <2>2, OtherArguments
  <2>4. ASSUME result # Raised PROVE Eval[b] = Eval[e]
    <3>1. \A j \in 1..L : Eval[a[j]] = Eval[e.args[j]]
      BY <1>c, <1>d, <2>1, <2>2, <2>4
    <3> QED
      BY <1>a, <2>2, <3>1, SameOperands
  <2>5. Size[b] = Size[e] + 1 - (Sums(sizes)[i - 1] + k)
    <3> DEFINE t == [j \in 1..L |-> IF j < i THEN 0 ELSE IF j = i THEN Size[y] ELSE sizes[j]]
    <3>1. Size[y] \in Nat
      BY <1>e, <2>1
    <3>2. t \in Seq(Nat) /\ Len(t) = L
      BY SMTT(30), <1>a, <1>e, <3>1
    <3>3. \A j \in 1..L : t[j] = Size[a[j]]
      BY <1>c, <1>e, <2>2
    <3>4. /\ \A j \in 1..(i - 1) : t[j] = 0
          /\ \A j \in (i + 1)..L : t[j] = sizes[j]
          /\ t[i] = Size[y]
      BY <1>a
    <3> HIDE DEF t
    <3>5. Size[b] = 1 + Sums(t)[L]
      <4>1. /\ a \in [1..Len(e.args) -> UpToDepth[n]] /\ t \in Seq(Nat) /\ Len(t) = Len(e.args)
            /\ \A j \in 1..Len(e.args) : t[j] = Size[a[j]]
        BY <2>2, <3>2, <3>3
      <4>2. SizesOf(e, a, t)
        BY <4>1 DEF SizesOf
      <4>3. b = [e EXCEPT !.args = a]
        BY <2>2
      <4>4. a \in [1..Len(e.args) -> UpToDepth[n]] /\ n \in 0..(MaxDepth - 1) /\ e \in Over(UpToDepth[n])
        BY <4>1
      <4>5. Size[b] = 1 + Sums(t)[Len(e.args)]
        BY <4>2, <4>3, <4>4, SizeOfArguments, Zenon
      <4> QED
        BY <4>5
    <3>9. /\ sizes \in Seq(Nat) /\ t \in Seq(Nat) /\ Len(t) = Len(sizes) /\ i \in 1..Len(sizes)
          /\ \A j \in 1..(i - 1) : t[j] = 0
          /\ \A j \in (i + 1)..Len(sizes) : t[j] = sizes[j]
      BY <1>e, <3>2, <3>4
    <3>6. Sums(t)[Len(t)] = Sums(sizes)[Len(sizes)] - Sums(sizes)[i] + t[i]
      BY <3>9, SumsOfRest
    <3>7. Sums(sizes)[i] = Sums(sizes)[i - 1] + sizes[i] /\ Sums(sizes)[i] \in Nat /\ Sums(sizes)[i - 1] \in Nat
      <4>1. i - 1 \in 0..Len(sizes) /\ i \in 1..Len(sizes) /\ i \in 0..Len(sizes)
        BY <1>a, <1>e
      <4> QED
        BY <1>e, <4>1, SumsStep
    <3>8. Size[b] = 1 + (Sums(sizes)[L] - Sums(sizes)[i] + (sizes[i] + 1 - k))
      BY <1>e, <2>1, <3>2, <3>4, <3>5, <3>6
    <3> DEFINE all == Sums(sizes)[L]
               before == Sums(sizes)[i - 1]
               own == sizes[i]
    <3>10. /\ all \in Nat /\ before \in Nat /\ own \in Nat /\ k \in 1..own /\ Size[e] = 1 + all
           /\ Size[b] = 1 + (all - (before + own) + (own + 1 - k))
      <4>1. Size[b] = 1 + (all - (before + own) + (own + 1 - k))
        BY <3>7, <3>8
      <4> QED
        BY <1>e, <3>7, <4>1
    <3> HIDE DEF all, before, own
    <3>11. Size[b] = Size[e] + 1 - (before + k)
      BY <3>10, StepsLeft
    <3> QED
      BY <3>11 DEF before
  <2> QED
    BY <2>3, <2>4, <2>5 DEF b, y
\* all these together
<1> DEFINE flat == FlattenSeq(within)
<1>h. /\ flat \in Seq(Over(D)) /\ Len(flat) = Sums(sizes)[L]
      /\ \A p \in 1..Len(flat) : /\ Size[flat[p]] = Size[e] + 1 - p
                                 /\ result # Raised => Eval[flat[p]] = Eval[e]
  <2>1. ASSUME NEW i \in 1..L
        PROVE  /\ within[i] \in Seq(Over(D)) /\ Len(within[i]) = sizes[i]
               /\ \A k \in 1..sizes[i] : within[i][k] = Beside(e, values, i, shown(i)[k])
    <3>1. DOMAIN shown(i) = 1..sizes[i] /\ sizes[i] \in Nat
      BY <1>e, <1>f
    <3> DEFINE B(k) == Beside(e, values, i, shown(i)[k])
    <3>2. within[i] = [k \in 1..sizes[i] |-> B(k)]
      BY <1>a, <3>1
    <3>3. \A k \in 1..sizes[i] : B(k) \in Over(D)
      BY <1>g, Zenon
    <3> DEFINE w == within[i]
               X == Over(D)
               m == sizes[i]
    <3>5. m \in Nat /\ w = [k \in 1..m |-> B(k)] /\ \A k \in 1..m : B(k) \in X
      BY <3>1, <3>2, <3>3
    <3> HIDE DEF w, X, m, B
    <3>6. w \in Seq(X) /\ Len(w) = m /\ \A k \in 1..m : w[k] = B(k)
      BY <3>5
    <3>4. within[i] \in Seq(Over(D)) /\ Len(within[i]) = sizes[i] /\ \A k \in 1..sizes[i] : within[i][k] = B(k)
      BY <3>6 DEF w, X, m
    <3> QED
      BY <3>4, Zenon DEF B
  <2>2. DOMAIN within = 1..L /\ within = [i \in 1..L |-> within[i]]
    BY <1>a
  <2> HIDE DEF within, sizes, values, result, D, of
  <2>3. within \in Seq(Seq(Over(D))) /\ Len(within) = L
    <3> DEFINE X == Seq(Over(D))
    <3>1. (\A i \in 1..L : within[i] \in X) /\ L \in Nat
      BY <1>a, <2>1
    <3> HIDE DEF X, L
    <3>2. within \in Seq(X) /\ Len(within) = L
      BY <2>2, <3>1
    <3> QED
      BY <3>2 DEF X
  <2>4. /\ flat \in Seq(Over(D)) /\ Len(flat) = Sums(sizes)[L]
        /\ \A p \in 1..Len(flat) : \E i \in 1..L : \E k \in 1..Len(within[i]) :
              p = Sums(sizes)[i - 1] + k /\ flat[p] = within[i][k]
    <3> DEFINE X == Over(D)
    <3>1. /\ within \in Seq(Seq(X)) /\ sizes \in Seq(Nat) /\ Len(sizes) = Len(within)
          /\ \A i \in 1..Len(within) : sizes[i] = Len(within[i])
      BY <1>e, <2>1, <2>3
    <3> HIDE DEF X
    <3>2. /\ FlattenSeq(within) \in Seq(X)
          /\ Len(FlattenSeq(within)) = Sums(sizes)[Len(within)]
          /\ \A p \in 1..Len(FlattenSeq(within)) : \E i \in 1..Len(within) : \E k \in 1..Len(within[i]) :
                p = Sums(sizes)[i - 1] + k /\ FlattenSeq(within)[p] = within[i][k]
      BY <3>1, FlattenFinds, Zenon
    <3> QED
      BY <2>3, <3>2 DEF X
  <2> HIDE DEF flat
  <2>5. ASSUME NEW p \in 1..Len(flat)
        PROVE  Size[flat[p]] = Size[e] + 1 - p /\ (result # Raised => Eval[flat[p]] = Eval[e])
    <3>1. PICK i \in 1..L : \E k \in 1..Len(within[i]) : p = Sums(sizes)[i - 1] + k /\ flat[p] = within[i][k]
      BY <2>4
    <3>2. PICK k \in 1..Len(within[i]) : p = Sums(sizes)[i - 1] + k /\ flat[p] = within[i][k]
      BY <3>1
    <3>3. k \in 1..sizes[i] /\ flat[p] = Beside(e, values, i, shown(i)[k])
      BY <2>1, <3>2
    <3> QED
      BY <1>g, <3>2, <3>3
  <2> QED
    BY <2>4, <2>5
\* and the last two
<1>i. applied \in Over(D) /\ Size[applied] = 1 /\ Eval[applied] = Eval[e]
  <2>1. applied \in Over(D)
    BY <1>a, <1>c, OtherArguments
  <2>2. Eval[applied] = Eval[e]
    <3> HIDE DEF values, D
    <3>1. values \in [1..Len(e.args) -> D] /\ \A j \in 1..Len(e.args) : Eval[values[j]] = Eval[e.args[j]]
      BY <1>c
    <3> QED
      BY <3>1, SameOperands DEF D
  <2>3. Size[applied] = 1
    <3> DEFINE t == [j \in 1..L |-> 0]
    <3>1. t \in Seq(Nat) /\ Len(t) = L /\ \A j \in 1..L : t[j] = 0
      BY <1>a
    <3> HIDE DEF t, values
    <3>2. Size[applied] = 1 + Sums(t)[L]
      <4>1. values \in [1..Len(e.args) -> UpToDepth[n]] /\ SizesOf(e, values, t)
        BY <1>c, <3>1 DEF SizesOf
      <4> DEFINE g == applied
      <4>2. g = [e EXCEPT !.args = values]
        OBVIOUS
      <4> HIDE DEF g
      <4>3. Size[g] = 1 + Sums(t)[L]
        BY <4>1, <4>2, SizeOfArguments, Zenon
      <4> QED
        BY <4>3 DEF g
    <3>3. Sums(t)[L] = 0
      <4> DEFINE Z == {m \in 0..L : Sums(t)[m] = 0}
      <4>1. 0 \in Z
        BY <1>a, <3>1, SumsStep
      <4>2. ASSUME NEW m \in 0..(L - 1), m \in Z PROVE m + 1 \in Z
        <5>1. m + 1 \in 1..L /\ (m + 1) - 1 = m /\ m + 1 \in 0..L
          BY <1>a
        <5>2. Sums(t)[m + 1] = Sums(t)[m] + t[m + 1]
          BY <3>1, <5>1, SumsStep
        <5> QED
          BY <3>1, <4>2, <5>1, <5>2
      <4> HIDE DEF Z
      <4>3. \A m \in 0..(L - 1) : m \in Z => m + 1 \in Z
        BY <4>2
      <4>4. \A m \in 0..L : m \in Z
        BY <1>a, <4>1, <4>3, InductionTo
      <4> QED
        BY <1>a, <4>4 DEF Z
    <3> QED
      BY <3>2, <3>3
  <2> QED
    BY <2>1, <2>2, <2>3
<1>j. last \in Constants /\ Size[last] = 0 /\ Eval[last] = Eval[e]
  <2> HIDE DEF result
  <2>1. last \in Constants /\ last.value = result
    BY <1>d DEF Constants, Constant
  <2> HIDE DEF last
  <2> QED
    BY <1>d, <2>1, OfConstant
<1>k. Over(D) \subseteq UpToDepth[n + 1] /\ Constants \subseteq UpToDepth[n + 1]
  BY Depths
<1> DEFINE U == UpToDepth[n + 1]
           two == <<applied, last>>
<1>l. /\ steps \in Seq(U) /\ Len(steps) = Size[e] + 1
      /\ \A p \in 1..Len(steps) :
            steps[p] = IF p <= Len(flat) THEN flat[p] ELSE IF p = Len(flat) + 1 THEN applied ELSE last
  <2>e. steps = flat \o two
    OBVIOUS
  <2>1. applied \in U /\ last \in U
    BY <1>i, <1>j, <1>k
  <2>2. flat \in Seq(U) /\ Len(flat) \in Nat /\ Size[e] = Len(flat) + 1
    <3> HIDE DEF flat, D, U, sizes, result
    <3>1. flat \in Seq(Over(D)) /\ Len(flat) \in Nat /\ Size[e] = Len(flat) + 1
      BY <1>e, <1>h
    <3>2. Over(D) \subseteq U
      BY <1>k DEF U
    <3> QED
      BY <3>1, <3>2, SeqMonotonic
  <2>t. two \in Seq(U) /\ Len(two) = 2 /\ two[1] = applied /\ two[2] = last
    <3> HIDE DEF applied, last, U
    <3> QED
      BY <2>1, ShortSequences
  <2> HIDE DEF two, flat, steps, applied, last, U
  <2>3. /\ steps \in Seq(U) /\ Len(steps) = Len(flat) + Len(two)
        /\ \A p \in 1..(Len(flat) + Len(two)) : steps[p] = IF p <= Len(flat) THEN flat[p] ELSE two[p - Len(flat)]
    BY <2>e, <2>2, <2>t, ConcatProperties
  <2>4. Len(steps) = Size[e] + 1
    BY <2>2, <2>3, <2>t
  <2>5. ASSUME NEW p \in 1..Len(steps)
        PROVE  steps[p] = IF p <= Len(flat) THEN flat[p] ELSE IF p = Len(flat) + 1 THEN applied ELSE last
    <3>1. p <= Len(flat) \/ p - Len(flat) = 1 \/ p - Len(flat) = 2
      BY <2>2, <2>3, <2>t
    <3>2. p - Len(flat) = 1 <=> p = Len(flat) + 1
      BY <2>2
    <3>3. steps[p] = IF p <= Len(flat) THEN flat[p] ELSE two[p - Len(flat)]
      BY <2>3
    <3> QED
      BY <2>t, <3>1, <3>2, <3>3
  <2> QED
    BY <2>3, <2>4, <2>5
<1> HIDE DEF steps, flat, applied, last, result, sizes
<1>m. Size[e] \in Nat /\ Size[e] = Len(flat) + 1 /\ Len(flat) \in Nat /\ Size[e] # 0
  BY <1>e, <1>h
<1>n. ASSUME NEW p \in 1..Len(steps)
      PROVE  Size[steps[p]] = Size[e] + 1 - p /\ (result # Raised => Eval[steps[p]] = Eval[e])
  <2>1. CASE p <= Len(flat)
    <3>1. p \in 1..Len(flat)
      BY <1>m, <2>1
    <3> QED
      BY <1>h, <1>l, <2>1, <3>1
  <2>2. CASE p = Len(flat) + 1
    BY <1>i, <1>l, <1>m, <2>2
  <2>3. CASE p > Len(flat) + 1
    <3>1. p = Size[e] + 1 /\ ~(p <= Len(flat)) /\ p # Len(flat) + 1
      BY <1>l, <1>m, <2>3
    <3> QED
      BY <1>j, <1>l, <1>m, <3>1
  <2> QED
    BY <1>m, <2>1, <2>2, <2>3
<1>o. Last(steps) = Constant(Eval[e])
  <2>1. Len(steps) \in 1..Len(steps) /\ ~(Len(steps) <= Len(flat)) /\ Len(steps) # Len(flat) + 1
    BY <1>l, <1>m
  <2>2. steps[Len(steps)] = last
    BY <1>l, <2>1
  <2> QED
    BY <1>d, <2>2 DEF Last, last
<1>p. Calculated[e].value = result /\ Calculated[e].steps = steps
  BY <1>b
<1> QED
  BY <1>d, <1>l, <1>m, <1>n, <1>o, <1>p DEF RightAbout

\* calculate() is right about every expression.
LEMMA RightAboutAll == \A e \in Expr : RightAbout(MaxDepth, e)
<1> DEFINE S == {n \in 0..MaxDepth : \A e \in UpToDepth[n] : RightAbout(n, e)}
<1>0. MaxDepth \in Nat
  BY ExpressionsAssumption
<1>1. 0 \in S
  BY <1>0, Depths, RightAboutConstants
<1>2. ASSUME NEW n \in 0..(MaxDepth - 1), n \in S PROVE n + 1 \in S
  <2>1. n + 1 \in 0..MaxDepth
    BY <1>0
  <2>2. ASSUME NEW e \in UpToDepth[n + 1] PROVE RightAbout(n + 1, e)
    <3>1. CASE e \in Constants
      BY <2>1, <3>1, RightAboutConstants
    <3>2. CASE e \in Over(UpToDepth[n])
      <4>1. \A i \in 1..Len(e.args) : e.args[i] \in UpToDepth[n]
        BY <3>2, Applications
      <4>2. \A i \in 1..Len(e.args) : RightAbout(n, e.args[i])
        BY <1>2, <4>1
      <4> QED
        BY <3>2, <4>2, RightAboutApplications
    <3> QED
      BY <3>1, <3>2, Depths
  <2> QED
    BY <2>1, <2>2
<1>3. MaxDepth \in S
  <2> HIDE DEF S
  <2>1. \A n \in 0..(MaxDepth - 1) : n \in S => n + 1 \in S
    BY <1>2
  <2>2. \A n \in 0..MaxDepth : n \in S
    BY <1>0, <1>1, <2>1, InductionTo
  <2> QED
    BY <1>0, <2>2
<1> QED
  BY <1>3 DEF Expr

---------------------------------------------------------------------------
\* The packets of a question.

\* The two ways in which pack() and unpack() handle numbers of more than one byte.
LEMMA BytesOf16 ==
    ASSUME NEW n \in UInt16
    PROVE  Word(n \div 256, n % 256) = n
  BY SMT DEF Word, UInt16

LEMMA BytesOf32 ==
    ASSUME NEW n \in Nat, n <= 4294967295
    PROVE  Word(n \div 16777216, (n \div 65536) % 256) * 65536 + Word((n \div 256) % 256, n % 256) = n
  BY SMT DEF Word

\* The flags by the values of their fields.
Weighted(r, a, b, c, s) == r * 8192 + a * 4096 + b * 2048 + c * 1024 + s

\* The weights of pack_flags do not overlap.
LEMMA Weights ==
    ASSUME NEW r \in 0..7, NEW a \in 0..1, NEW b \in 0..1, NEW c \in 0..1, NEW s \in UInt10
    PROVE  LET flags == Weighted(r, a, b, c, s)
           IN  /\ flags \in UInt16 /\ flags % 1024 = s
               /\ (flags \div 8192) % 8 = r
               /\ (flags \div 4096) % 2 = a /\ (flags \div 2048) % 2 = b /\ (flags \div 1024) % 2 = c
  <1> DEFINE flags == Weighted(r, a, b, c, s)
  <1>0. flags = r * 8192 + a * 4096 + b * 2048 + c * 1024 + s
    BY SMT DEF Weighted
  <1> HIDE DEF flags
  <1>1. s \in Nat /\ s < 1024
    BY SMT DEF UInt10
  <1>2. flags \in UInt16
    <2>1. flags \in Nat /\ flags <= 65535
      BY SMT, <1>0, <1>1
    <2> QED BY SMT, <2>1 DEF UInt16
  <1>3. flags % 1024 = s /\ flags \div 1024 = 8 * r + 4 * a + 2 * b + c
    BY SMT, <1>0, <1>1
  <1>4. flags \div 2048 = 4 * r + 2 * a + b
    BY SMT, <1>0, <1>1
  <1>5. flags \div 4096 = 2 * r + a
    BY SMT, <1>0, <1>1
  <1>6. flags \div 8192 = r
    BY SMT, <1>0, <1>1
  <1>7. r % 8 = r /\ (2 * r + a) % 2 = a
    BY SMT
  <1>8. (4 * r + 2 * a + b) % 2 = b
    BY SMT
  <1>9. (8 * r + 4 * a + 2 * b + c) % 2 = c
    BY SMT
  <1> QED BY SMT, <1>2, <1>3, <1>4, <1>5, <1>6, <1>7, <1>8, <1>9 DEF flags

LEMMA FlagsSurvive ==
    ASSUME NEW h \in Fields
    PROVE  LET flags == PackFlags(h)
           IN  /\ flags \in UInt16
               /\ (flags \div 8192) % 8 = h.reserved
               /\ IsSet(flags, 4096) = h.cache
               /\ IsSet(flags, 2048) = h.steps
               /\ IsSet(flags, 1024) = h.isRequest
               /\ flags % 1024 = h.status
  <1> DEFINE a == Bit(h.cache)
             b == Bit(h.steps)
             c == Bit(h.isRequest)
             r == h.reserved
             s == h.status
             flags == PackFlags(h)
  <1>1. r \in 0..7 /\ s \in UInt10 /\ h.cache \in BOOLEAN /\ h.steps \in BOOLEAN /\ h.isRequest \in BOOLEAN
    BY SMT DEF Fields
  <1>2. /\ a \in 0..1 /\ (h.cache <=> a = 1)
        /\ b \in 0..1 /\ (h.steps <=> b = 1)
        /\ c \in 0..1 /\ (h.isRequest <=> c = 1)
    BY SMT, <1>1 DEF Bit
  <1>3. flags = Weighted(r, a, b, c, s)
    BY SMT DEF PackFlags, Weighted
  <1> HIDE DEF a, b, c, r, s, flags
  <1>4. /\ flags \in UInt16 /\ flags % 1024 = s /\ (flags \div 8192) % 8 = r
        /\ (flags \div 4096) % 2 = a /\ (flags \div 2048) % 2 = b /\ (flags \div 1024) % 2 = c
    BY SMT, <1>1, <1>2, <1>3, Weights
  <1>5. /\ IsSet(flags, 4096) <=> h.cache
        /\ IsSet(flags, 2048) <=> h.steps
        /\ IsSet(flags, 1024) <=> h.isRequest
    BY SMT, <1>2, <1>4 DEF IsSet
  <1>6. IsSet(flags, 4096) \in BOOLEAN /\ IsSet(flags, 2048) \in BOOLEAN /\ IsSet(flags, 1024) \in BOOLEAN
    BY SMT DEF IsSet
  <1> QED BY SMT, <1>1, <1>4, <1>5, <1>6 DEF r, s, flags

\* The constructor changes nothing it has changed before.
LEMMA ConstructedTwice ==
    ASSUME NEW h \in Fields
    PROVE  /\ Constructed(h) \in Fields
           /\ Constructed(Constructed(h)) = Constructed(h)
           /\ Constructed(h).stamp = h.stamp
  <1>1. /\ h.stamp \in Nat /\ h.total \in UInt16 /\ h.reserved \in 0..7 /\ h.status \in UInt10 /\ h.cc \in UInt16
        /\ h.cache \in BOOLEAN /\ h.steps \in BOOLEAN /\ h.isRequest \in BOOLEAN
    BY DEF Fields
  <1>0. 0 \in UInt16
    BY SMT DEF UInt16
  <1>2. PICK cached \in BOOLEAN, cc \in UInt16 :
          /\ Constructed(h) = [h EXCEPT !.cache = cached, !.cc = cc]
          /\ cached = (cached /\ (h.isRequest \/ cc # 0))
          /\ cc = IF cached THEN cc ELSE 0
    <2>1. CASE ~h.cache
      <3>1. Constructed(h) = [h EXCEPT !.cache = FALSE, !.cc = 0]
        BY <2>1 DEF Constructed
      <3> QED BY <1>0, <1>1, <3>1
    <2>2. CASE h.cache /\ (h.isRequest \/ h.cc # 0)
      <3>1. Constructed(h) = [h EXCEPT !.cache = TRUE, !.cc = h.cc]
        BY <2>2 DEF Constructed
      <3> QED BY <1>1, <2>2, <3>1
    <2>3. CASE h.cache /\ ~h.isRequest /\ h.cc = 0
      <3>1. Constructed(h) = [h EXCEPT !.cache = FALSE, !.cc = 0]
        BY <2>3 DEF Constructed
      <3> QED BY <1>0, <1>1, <3>1
    <2> QED BY <1>1, <2>1, <2>2, <2>3
  <1> DEFINE g == [h EXCEPT !.cache = cached, !.cc = cc]
  <1>3. g \in Fields /\ g.cache = cached /\ g.cc = cc /\ g.isRequest = h.isRequest /\ g.stamp = h.stamp
    BY <1>1 DEF Fields
  <1>4. [g EXCEPT !.cache = cached, !.cc = cc] = g
    BY <1>3 DEF Fields
  <1> HIDE DEF g
  <1>5. Constructed(g) = g
    BY <1>2, <1>3, <1>4 DEF Constructed
  <1> QED BY <1>2, <1>3, <1>5 DEF g

LEMMA UnpackPacked ==
    ASSUME NEW h \in Fields, h.stamp <= 4294967295
    PROVE  Unpack(Pack(h)) = Constructed(h)
  <1> DEFINE flags == PackFlags(h)
             bytes == Pack(h)
             word == Word(bytes[7], bytes[8])
  <1>1. h.stamp \in Nat /\ h.total \in UInt16 /\ h.cc \in UInt16
    BY SMT DEF Fields
  <1>2. word = flags
    <2>1. flags \in UInt16
      BY SMT, FlagsSurvive
    <2> HIDE DEF flags
    <2>2. Word(flags \div 256, flags % 256) = flags
      BY SMT, <2>1, BytesOf16
    <2>3. bytes[7] = flags \div 256 /\ bytes[8] = flags % 256
      BY SMT DEF Pack, flags
    <2> QED BY SMT, <2>2, <2>3
  <1>3. Word(bytes[1], bytes[2]) * 65536 + Word(bytes[3], bytes[4]) = h.stamp
    BY SMT, <1>1, BytesOf32 DEF Pack
  <1>4. Word(bytes[5], bytes[6]) = h.total /\ Word(bytes[9], bytes[10]) = h.cc
    BY SMT, <1>1, BytesOf16 DEF Pack
  <1> DEFINE g == [stamp     |-> Word(bytes[1], bytes[2]) * 65536 + Word(bytes[3], bytes[4]),
                   total     |-> Word(bytes[5], bytes[6]),
                   reserved  |-> (word \div 8192) % 8,
                   cache     |-> IsSet(word, 4096),
                   steps     |-> IsSet(word, 2048),
                   isRequest |-> IsSet(word, 1024),
                   status    |-> word % 1024,
                   cc        |-> Word(bytes[9], bytes[10])]
  <1>5. Unpack(bytes) = Constructed(g)
    BY SMT DEF Unpack
  <1> HIDE DEF flags, bytes, word
  <1>6. g = [stamp |-> h.stamp, total |-> h.total, reserved |-> h.reserved, cache |-> h.cache,
             steps |-> h.steps, isRequest |-> h.isRequest, status |-> h.status, cc |-> h.cc]
    BY SMT, <1>2, <1>3, <1>4, FlagsSurvive DEF flags
  <1>7. h = [stamp |-> h.stamp, total |-> h.total, reserved |-> h.reserved, cache |-> h.cache,
             steps |-> h.steps, isRequest |-> h.isRequest, status |-> h.status, cc |-> h.cc]
    BY SMT DEF Fields
  <1> QED BY SMT, <1>5, <1>6, <1>7 DEF bytes

\* Whatever header api.py constructs, with a time before 2106, the other side unpacks the same
\* header: no field runs into the next one, and unpack()'s own constructor changes nothing.
THEOREM HeadersSurvive ==
    \A h \in Fields :
        h.stamp <= 4294967295 => Unpack(Pack(Constructed(h))) = Constructed(h)
  <1> SUFFICES ASSUME NEW h \in Fields, h.stamp <= 4294967295
               PROVE  Unpack(Pack(Constructed(h))) = Constructed(h)
    BY SMT
  <1>1. Constructed(h) \in Fields /\ Constructed(h).stamp <= 4294967295
    BY SMT, ConstructedTwice
  <1>2. Unpack(Pack(Constructed(h))) = Constructed(Constructed(h))
    BY SMT, <1>1, UnpackPacked
  <1> QED BY SMT, <1>2, ConstructedTwice

---------------------------------------------------------------------------
\* What a header is when it is packed.
Good(h) == h \in Fields /\ h.stamp <= 4294967295 /\ Constructed(h) = h

LEMMA UnpackGood == ASSUME NEW h, Good(h) PROVE Unpack(Pack(h)) = h
  BY UnpackPacked DEF Good

\* Every number struct.pack() writes into a byte fits it.
LEMMA BytesOfWord == ASSUME NEW n \in UInt16 PROVE n \div 256 \in 0..255 /\ n % 256 \in 0..255
<1>1. n \in Nat /\ n <= 65535
  BY DEF UInt16
<1> QED
  BY <1>1, SMT

LEMMA PackBytes == ASSUME NEW h, Good(h) PROVE Pack(h) \in [1..12 -> 0..255]
<1>1. h \in Fields /\ h.stamp \in Nat /\ h.stamp <= 4294967295 /\ h.total \in UInt16 /\ h.cc \in UInt16
  BY DEF Good, Fields
<1>0. PICK n \in Nat : n = h.stamp /\ n <= 4294967295
  BY <1>1, SMT
<1> DEFINE a == n \div 16777216
           b == (n \div 65536) % 256
           c == (n \div 256) % 256
           d == n % 256
           e == h.total \div 256
           f == h.total % 256
           g == PackFlags(h) \div 256
           k == PackFlags(h) % 256
           l == h.cc \div 256
           m == h.cc % 256
<1>2. PackFlags(h) \in UInt16
  BY <1>1, FlagsSurvive
<1>3. a \in 0..255 /\ b \in 0..255 /\ c \in 0..255 /\ d \in 0..255
  <2>1. a \in 0..255
    BY <1>0, SMT
  <2>2. b \in 0..255
    BY <1>0, SMT
  <2>3. c \in 0..255 /\ d \in 0..255
    BY <1>0, SMT
  <2> QED
    BY <2>1, <2>2, <2>3
<1>4. e \in 0..255 /\ f \in 0..255 /\ l \in 0..255 /\ m \in 0..255
  BY <1>1, BytesOfWord
<1>5. g \in 0..255 /\ k \in 0..255
  BY <1>2, BytesOfWord
<1>6. Pack(h) = <<a, b, c, d, e, f, g, k, l, m, 0, 0>>
  BY <1>0, SMT DEF Pack
<1> HIDE DEF a, b, c, d, e, f, g, k, l, m
<1>7. <<a, b, c, d, e, f, g, k, l, m, 0, 0>> \in [1..12 -> 0..255]
  BY <1>3, <1>4, <1>5, SMTT(30)
<1> QED
  BY <1>6, <1>7, SMT

LEMMA NewHeaderGood ==
    ASSUME NEW steps \in BOOLEAN, NEW isRequest \in BOOLEAN, NEW status \in UInt10,
           NEW cache \in BOOLEAN, NEW cc \in UInt16
    PROVE  /\ Good(NewHeader(steps, isRequest, status, cache, cc))
           /\ NewHeader(steps, isRequest, status, cache, cc).isRequest = isRequest
           /\ NewHeader(steps, isRequest, status, cache, cc).status = status
<1> DEFINE g == [stamp |-> Now, total |-> 12 + PickleLen, reserved |-> 0, cache |-> cache,
                 steps |-> steps, isRequest |-> isRequest, status |-> status, cc |-> cc]
<1>1. Now \in Nat /\ Now <= 4294967295
  <2>1. Now \in Nat /\ Now \div 65536 <= 65535
    BY QuestionAssumption DEF UInt16
  <2> QED
    BY <2>1, SMT
<1>2. 12 + PickleLen \in UInt16
  BY QuestionAssumption DEF UInt16
<1>3. g \in Fields /\ g.stamp = Now
  BY <1>1, <1>2 DEF Fields
<1>4. g.isRequest = isRequest /\ g.status = status
  OBVIOUS
<1> HIDE DEF g
<1>5. NewHeader(steps, isRequest, status, cache, cc) = Constructed(g)
  BY DEF NewHeader, g
<1>6. Good(Constructed(g))
  BY <1>1, <1>3, ConstructedTwice DEF Good
<1>7. Constructed(g).isRequest = isRequest /\ Constructed(g).status = status
  BY <1>3, <1>4 DEF Constructed, Fields
<1> QED
  BY <1>5, <1>6, <1>7

---------------------------------------------------------------------------
\* The request is the one for the client's expression,
Asked ==
    /\ Good(sent) /\ sent.isRequest
    /\ request = [head |-> Pack(sent), data |-> expr]

\* and the response the one to it.
Answered ==
    /\ Good(made) /\ ~made.isRequest
    /\ made.status = IF Evaluate(expr).value = Exception THEN 400 ELSE 200
    /\ response = [head |-> Pack(made),
                   data |-> IF Evaluate(expr).value = Exception THEN None
                            ELSE [value |-> Evaluate(expr).value, steps |-> Shown(sent, expr)]]

QInv ==
    /\ place \in {"build", "asked", "answered", "printed"}
    /\ place # "build" => Asked
    /\ place \in {"answered", "printed"} => Answered
    /\ PrintsTheAnswer

LEMMA QInit == QuestionInit => QInv
  BY DEF QuestionInit, QInv, PrintsTheAnswer

LEMMA QStep == QInv /\ [ClientBuildsOn \/ QuestionNext]_vars => QInv'
<1> SUFFICES ASSUME QInv, [ClientBuildsOn \/ QuestionNext]_vars PROVE QInv'
  OBVIOUS
<1>s. 0 \in UInt10 /\ 200 \in UInt10 /\ 400 \in UInt10
  BY DEF UInt10
<1>1. CASE ClientBuildsOn
  BY <1>1 DEF ClientBuildsOn, QInv, PrintsTheAnswer
<1>2. CASE ClientAsks
  <2>1. PICK steps \in BOOLEAN, cache \in BOOLEAN, cc \in Limits :
            sent' = NewHeader(steps, TRUE, 0, cache, cc)
    BY <1>2 DEF ClientAsks
  <2> DEFINE h == NewHeader(steps, TRUE, 0, cache, cc)
  <2>2. Good(h) /\ h.isRequest
    <3>1. cc \in UInt16 /\ TRUE \in BOOLEAN
      BY QuestionAssumption
    <3>2. Good(h) /\ h.isRequest = TRUE
      BY <1>s, <3>1, NewHeaderGood
    <3> QED
      BY <3>2, Zenon
  <2> HIDE DEF h
  <2>3. sent' = h /\ request' = [head |-> Pack(h), data |-> expr] /\ expr' = expr
    BY <1>2, <2>1 DEF ClientAsks, h
  <2>4. Asked'
    BY <2>2, <2>3 DEF Asked, Good
  <2> QED
    BY <1>2, <2>4 DEF ClientAsks, QInv, PrintsTheAnswer
<1>3. CASE ServerAnswers
  <2>0. Asked /\ Unpack(request.head) = sent /\ request.data = expr
    BY <1>3, UnpackGood DEF ServerAnswers, QInv, Asked
  <2>1. PICK policy \in Policies :
            LET texts == Shown(sent, expr)
                fails == Fails(sent, expr)
            IN  /\ made' = IF fails THEN NewHeader(FALSE, FALSE, 400, policy.cache, policy.cc)
                           ELSE NewHeader(texts # <<>>, FALSE, 200, policy.cache, policy.cc)
                /\ response' = [head |-> Pack(made'),
                                data |-> IF fails THEN None
                                         ELSE [value |-> Evaluate(expr).value, steps |-> texts]]
    BY <1>3, <2>0, ZenonT(30) DEF ServerAnswers
  <2>2. PICK b \in BOOLEAN, cc \in UInt16 : policy.cache = b /\ policy.cc = cc
    BY QuestionAssumption
  <2>9. Fails(sent, expr) <=> Evaluate(expr).value = Exception
    BY <2>0 DEF Asked, Fails
  <2> DEFINE fails == Evaluate(expr).value = Exception
             some == Shown(sent, expr) # <<>>
             h == IF fails THEN NewHeader(FALSE, FALSE, 400, b, cc) ELSE NewHeader(some, FALSE, 200, b, cc)
  <2>3. Good(h) /\ ~h.isRequest /\ h.status = IF fails THEN 400 ELSE 200
    <3> DEFINE no == FALSE
    <3>0. some \in BOOLEAN /\ no \in BOOLEAN
      OBVIOUS
    <3> HIDE DEF some, no
    <3>1. /\ Good(NewHeader(no, no, 400, b, cc)) /\ NewHeader(no, no, 400, b, cc).isRequest = no
          /\ NewHeader(no, no, 400, b, cc).status = 400
      BY <1>s, <3>0, NewHeaderGood
    <3>2. /\ Good(NewHeader(some, no, 200, b, cc)) /\ NewHeader(some, no, 200, b, cc).isRequest = no
          /\ NewHeader(some, no, 200, b, cc).status = 200
      BY <1>s, <3>0, NewHeaderGood
    <3> QED
      BY <3>1, <3>2, Zenon DEF no
  <2>4. UNCHANGED <<expr, sent, request>> /\ place' = "answered"
    BY <1>3 DEF ServerAnswers
  <2>8. /\ made' = h
        /\ response' = [head |-> Pack(h), data |-> IF fails THEN None
                                         ELSE [value |-> Evaluate(expr).value, steps |-> Shown(sent, expr)]]
    BY <2>1, <2>2, <2>9, ZenonT(30)
  <2> HIDE DEF h
  <2>6. Answered'
    BY <2>3, <2>4, <2>8 DEF Answered, Good, Shown
  <2>7. Asked'
    BY <2>0, <2>4 DEF Asked, Good
  <2> QED
    BY <2>4, <2>6, <2>7 DEF QInv, PrintsTheAnswer
<1>4. CASE ClientPrints
  <2>1. Asked /\ Answered /\ Unpack(response.head) = made
    BY <1>4, UnpackGood DEF ClientPrints, QInv, Answered
  <2>2. UNCHANGED <<expr, sent, request, made, response>> /\ place' = "printed"
    BY <1>4 DEF ClientPrints
  <2>3. Asked' /\ Answered'
    BY <2>1, <2>2 DEF Asked, Answered, Shown, Good
  <2>4. printed' = [status |-> made.status,
                    value  |-> IF made.status = 200 THEN response.data.value ELSE Exception,
                    lines  |-> IF made.status = 200 THEN response.data.steps ELSE <<>>]
    BY <1>4, <2>1 DEF ClientPrints, Answered
  <2>5. PrintsTheAnswer'
    BY <2>1, <2>2, <2>4 DEF PrintsTheAnswer, Answered, Shown
  <2> QED
    BY <2>2, <2>3, <2>5 DEF QInv
<1>5. CASE UNCHANGED vars
  BY <1>5 DEF vars, QInv, Asked, Answered, Shown, PrintsTheAnswer, Good
<1> QED
  BY <1>1, <1>2, <1>3, <1>4, <1>5 DEF QuestionNext, Rest

LEMMA QConsequences == QInv => PacketsSurvive /\ QuestionTypeOK
<1> SUFFICES ASSUME QInv PROVE PacketsSurvive /\ QuestionTypeOK
  OBVIOUS
<1>1. PacketsSurvive
  BY UnpackGood DEF QInv, Asked, Answered, PacketsSurvive
<1>2. QuestionTypeOK
  <2>0. place \in {"build", "asked", "answered", "printed"}
    BY DEF QInv
  <2>1. ASSUME place # "build" PROVE sent \in Fields /\ request.head \in [1..12 -> 0..255]
    <3>1. Good(sent) /\ request.head = Pack(sent)
      BY <2>1 DEF QInv, Asked
    <3>2. sent \in Fields
      BY <3>1, SMT DEF Good
    <3>3. Pack(sent) \in [1..12 -> 0..255]
      BY <3>1, PackBytes, SMT
    <3> QED
      BY <3>1, <3>2, <3>3, SMT
  <2>2. ASSUME place \in {"answered", "printed"} PROVE made \in Fields /\ response.head \in [1..12 -> 0..255]
    <3>1. Good(made) /\ response.head = Pack(made)
      BY <2>2 DEF QInv, Answered
    <3>2. made \in Fields
      BY <3>1, SMT DEF Good
    <3>3. Pack(made) \in [1..12 -> 0..255]
      BY <3>1, PackBytes, SMT
    <3> QED
      BY <3>1, <3>2, <3>3, SMT
  <2>3. place = "printed" => printed.status \in {200, 400}
    BY DEF QInv, PrintsTheAnswer
  <2> QED
    BY <2>0, <2>1, <2>2, <2>3, Zenon DEF QuestionTypeOK
<1> QED
  BY <1>1, <1>2

LEMMA QuestionInvariant == QuestionSpec => []QInv
<1>1. QInv /\ [ClientBuildsOn \/ QuestionNext]_vars => QInv'
  BY QStep
<1> QED
  BY QInit, <1>1, PTL DEF QuestionSpec

\* Requests and responses are packed into twelve bytes and answered by 200 or 400, for any
\* expressions, policies, limits, lengths and times that fit their fields.
THEOREM QuestionTypeCorrect == QuestionSpec => []QuestionTypeOK
<1>1. QInv => QuestionTypeOK
  BY QConsequences
<1> QED
  BY QuestionInvariant, <1>1, PTL

\* Both headers of a question are unpacked as they were packed (pack and unpack of api.py).
THEOREM PacketsAlwaysSurvive == QuestionSpec => []PacketsSurvive
<1>1. QInv => PacketsSurvive
  BY QConsequences
<1> QED
  BY QuestionInvariant, <1>1, PTL

\* The client prints the value and the steps of its own expression, or its error, whatever
\* expressions are and however calculate() evaluates them.
THEOREM AnswerPrinted == QuestionSpec => []PrintsTheAnswer
<1>1. QInv => PrintsTheAnswer
  BY DEF QInv
<1> QED
  BY QuestionInvariant, <1>1, PTL

---------------------------------------------------------------------------
\* A question about an expression of calculator.py is a question.
LEMMA AQuestion == Spec => QuestionSpec
<1>1. Init => QuestionInit
  BY DEF Init
<1>2. [Next]_vars => [ClientBuildsOn \/ QuestionNext]_vars
  BY DEF Next, ClientBuilds
<1> QED
  BY <1>1, <1>2, PTL DEF Spec, QuestionSpec

\* What a client has built and sent is an expression.
LEMMA AlwaysAnExpression == Spec => [](expr \in Expr)
<1>1. Init => expr \in Expr
  <2> SUFFICES ASSUME Init PROVE expr \in Expr
    OBVIOUS
  <2>1. expr \in Constants
    BY CalculationAssumption DEF Init
  <2> QED
    BY <2>1, OfConstant
<1>2. expr \in Expr /\ [Next]_vars => (expr \in Expr)'
  <2> SUFFICES ASSUME expr \in Expr, [Next]_vars PROVE expr' \in Expr
    OBVIOUS
  <2>1. CASE ClientBuilds
    BY <2>1 DEF ClientBuilds
  <2>2. CASE QuestionNext
    BY <2>2 DEF QuestionNext, ClientAsks, ServerAnswers, ClientPrints, Rest, vars
  <2>3. CASE UNCHANGED vars
    BY <2>3 DEF vars
  <2> QED
    BY <2>1, <2>2, <2>3 DEF Next
<1> QED
  BY <1>1, <1>2, PTL DEF Spec

\* A client builds expressions only, and its question is packed into headers of twelve bytes
\* and answered by 200 or 400, for all constants, operators, functions and depths.
THEOREM TypeCorrect == Spec => []TypeOK
<1>1. expr \in Expr /\ QuestionTypeOK => TypeOK
  BY DEF TypeOK
<1> QED
  BY <1>1, AQuestion, AlwaysAnExpression, QuestionTypeCorrect, PTL

\* What calculate() of server.py finds is the value of the expression; if there is one, every
\* step has it and it is the last one, for expressions of any depth and number of arguments.
THEOREM StepsAlwaysKeepValue == Spec => []StepsKeepValue
<1>1. expr \in Expr => StepsKeepValue
  <2> SUFFICES ASSUME expr \in Expr PROVE StepsKeepValue
    OBVIOUS
  <2>1. RightAbout(MaxDepth, expr)
    BY RightAboutAll
  <2>2. DOMAIN Calculated[expr].steps = 1..Len(Calculated[expr].steps)
    BY <2>1 DEF RightAbout
  <2> QED
    BY <2>1, <2>2 DEF RightAbout, StepsKeepValue, Steps, Calculate
<1> QED
  BY <1>1, AlwaysAnExpression, PTL

\* Each step of calculate() has one application less than the one before, from the whole
\* expression to its value, so that there are none or at least two.
THEOREM AlwaysOneApplicationPerStep == Spec => []OneApplicationPerStep
<1>1. expr \in Expr => OneApplicationPerStep
  <2> SUFFICES ASSUME expr \in Expr PROVE OneApplicationPerStep
    OBVIOUS
  <2>1. RightAbout(MaxDepth, expr)
    BY RightAboutAll
  <2>2. DOMAIN Calculated[expr].steps = 1..Len(Calculated[expr].steps)
    BY <2>1 DEF RightAbout
  <2> QED
    BY <2>1, <2>2 DEF RightAbout, OneApplicationPerStep, Steps, Calculate
<1> QED
  BY <1>1, AlwaysAnExpression, PTL

\* The server evaluates with calculate().
EvaluatesWithCalculate == Exception = Raised /\ \A e \in Expr : Evaluate(e) = Calculate(e)

\* What the client prints is the value of its expression, or an error if there is none, and
\* with steps if it asked for them: the texts of expressions of that value, one application
\* less in each line.
PrintsTheValue ==
    place = "printed" =>
        /\ printed.value = Eval[expr]
        /\ printed.status = IF Eval[expr] = Raised THEN 400 ELSE 200
        /\ sent.steps /\ Eval[expr] # Raised =>
              /\ Len(printed.lines) = IF Size[expr] = 0 THEN 0 ELSE Size[expr] + 1
              /\ \A i \in 1..Len(printed.lines) :
                    \E step \in Expr : /\ printed.lines[i] = Text(step)
                                       /\ Eval[step] = Eval[expr]
                                       /\ Size[step] = Size[expr] + 1 - i

\* From the expression to the lines on the screen: client(), process_request() and
\* calculate() together, whatever the texts of expressions are.
THEOREM ValuePrinted == EvaluatesWithCalculate => (Spec => []PrintsTheValue)
<1> SUFFICES ASSUME EvaluatesWithCalculate PROVE Spec => []PrintsTheValue
  OBVIOUS
<1>1. expr \in Expr /\ PrintsTheAnswer => PrintsTheValue
  <2> SUFFICES ASSUME expr \in Expr, PrintsTheAnswer, place = "printed"
               PROVE  PrintsTheValue
    BY DEF PrintsTheValue
  <2> DEFINE c == Calculated[expr]
  <2>1. RightAbout(MaxDepth, expr) /\ Evaluate(expr) = c /\ Exception = Raised
    BY RightAboutAll DEF EvaluatesWithCalculate, Calculate
  <2>2. /\ c.value = Eval[expr] /\ c.steps \in Seq(Expr)
        /\ Len(c.steps) = IF Size[expr] = 0 THEN 0 ELSE Size[expr] + 1
        /\ \A i \in 1..Len(c.steps) : Size[c.steps[i]] = Size[expr] + 1 - i
        /\ Eval[expr] # Raised => \A i \in 1..Len(c.steps) : Eval[c.steps[i]] = Eval[expr]
    BY <2>1 DEF RightAbout, Expr
  <2>3. /\ printed.value = c.value
        /\ printed.status = IF c.value = Raised THEN 400 ELSE 200
        /\ printed.lines = IF sent.steps /\ c.value # Raised
                           THEN [i \in DOMAIN c.steps |-> Text(c.steps[i])] ELSE <<>>
    BY <2>1 DEF PrintsTheAnswer
  <2> HIDE DEF c
  <2>4. ASSUME sent.steps, Eval[expr] # Raised
        PROVE  /\ Len(printed.lines) = IF Size[expr] = 0 THEN 0 ELSE Size[expr] + 1
               /\ \A i \in 1..Len(printed.lines) :
                     \E step \in Expr : /\ printed.lines[i] = Text(step)
                                        /\ Eval[step] = Eval[expr]
                                        /\ Size[step] = Size[expr] + 1 - i
    <3> DEFINE lines == [i \in 1..Len(c.steps) |-> Text(c.steps[i])]
    <3>1. printed.lines = lines
      BY <2>2, <2>3, <2>4
    <3>2. Len(lines) = Len(c.steps)
      BY <2>2
    <3>3. ASSUME NEW i \in 1..Len(c.steps)
          PROVE  /\ c.steps[i] \in Expr /\ lines[i] = Text(c.steps[i])
                 /\ Eval[c.steps[i]] = Eval[expr] /\ Size[c.steps[i]] = Size[expr] + 1 - i
      BY <2>2, <2>4
    <3> HIDE DEF lines
    <3> QED
      BY <2>2, <3>1, <3>2, <3>3
  <2>5. /\ printed.value = Eval[expr]
        /\ printed.status = IF Eval[expr] = Raised THEN 400 ELSE 200
    BY <2>2, <2>3
  <2> QED
    BY <2>4, <2>5 DEF PrintsTheValue
<1> QED
  BY <1>1, AQuestion, AlwaysAnExpression, AnswerPrinted, PTL
================================================================================

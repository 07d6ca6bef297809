---------------------------- MODULE NumberLemmas ----------------------------
(* Facts about numbers that several proofs need: least and greatest         *)
(* elements, quotients and remainders, recursion, sums of sequences.       *)
EXTENDS Sums, JpegBasics, SequenceTheorems, WellFoundedInduction, TLAPS

(* The least-number principle, for sets: induction without an operator.    *)
LEMMA HasLeast ==
  ASSUME NEW S \in SUBSET Nat, S # {}
  PROVE  \E m \in S : \A p \in S : m <= p
<1> DEFINE R == {ss \in Nat \X Nat : ss[1] < ss[2]}
<1>1. OpToRel(<, Nat) = R
  BY Zenon DEF OpToRel
<1>2. IsWellFoundedOn(R, Nat)
  BY <1>1, NatLessThanWellFounded, Zenon
<1>3. \A a, b \in Nat : a < b => <<a, b>> \in R
  OBVIOUS
<1> HIDE DEF R
<1>4. PICK m \in S : \A p \in S : ~(<<p, m>> \in R)
  BY <1>2, WFMin, Zenon
<1>5. ASSUME NEW p \in S PROVE m <= p
  <2>1. <<p, m>> \notin R
    BY <1>4
  <2>2. p < m => <<p, m>> \in R
    BY <1>3
  <2> QED BY <2>1, <2>2
<1> QED BY <1>5

LEMMA HasGreatest ==
  ASSUME NEW n \in Nat, NEW S \in SUBSET (0..n), S # {}
  PROVE  \E m \in S : \A p \in S : p <= m
<1> DEFINE T == {n - p : p \in S}
<1>1. \A p \in S : n - p \in Nat /\ n - p \in T
  OBVIOUS
<1>2. T \in SUBSET Nat /\ T # {}
  BY <1>1
<1>3. \A t \in T : \E p \in S : t = n - p
  OBVIOUS
<1> HIDE DEF T
<1>4. PICK m \in T : \A p \in T : m <= p
  BY <1>2, HasLeast
<1>5. PICK k \in S : m = n - k
  BY <1>3
<1>6. ASSUME NEW p \in S PROVE p <= k
  BY <1>1, <1>4, <1>5
<1> QED BY <1>6

LEMMA Division ==
  ASSUME NEW a \in Int, NEW b \in Nat \ {0}
  PROVE  /\ a \div b \in Int /\ a % b \in 0..(b - 1) /\ a = b * (a \div b) + (a % b)
         /\ (a \in Nat => a \div b \in Nat)
  BY SMT

LEMMA QuotientIs ==
  ASSUME NEW a \in Int, NEW b \in Nat \ {0}, NEW q \in Int, q * b <= a, a < (q + 1) * b
  PROVE  q = a \div b
  BY SMT

LEMMA FloorIs ==
  ASSUME NEW a \in Nat, NEW b \in Nat \ {0}
  PROVE  a \div b \in Nat /\ b * (a \div b) <= a /\ a < b * (a \div b) + b
<1> DEFINE q == a \div b
           r == a % b
<1>1. q \in Nat /\ r \in 0..(b - 1) /\ a = b * q + r
  <2>1. a \in Int
    OBVIOUS
  <2> QED BY <2>1, Division, Zenon
<1> HIDE DEF q, r
<1>2. b * q \in Int
  BY <1>1
<1> QED BY <1>1, <1>2 DEF q

LEMMA CeilIs ==
  ASSUME NEW a \in Nat, NEW b \in Nat \ {0}
  PROVE  /\ CeilDiv(a, b) \in Nat /\ a <= b * CeilDiv(a, b) /\ b * (CeilDiv(a, b) - 1) < a
         /\ (a # 0 => CeilDiv(a, b) \in Nat \ {0})
<1> DEFINE q == (a + b - 1) \div b
<1>1. /\ q \in Int /\ (a + b - 1) % b \in 0..(b - 1) /\ a + b - 1 = b * q + ((a + b - 1) % b)
      /\ q \in Nat
  <2>1. a + b - 1 \in Nat /\ a + b - 1 \in Int
    OBVIOUS
  <2> QED BY <2>1, Division, Zenon
<1>2. q = CeilDiv(a, b)
  BY DEF CeilDiv
<1> HIDE DEF q
<1>3. b * (q - 1) = b * q - b /\ b * q \in Int
  BY <1>1
<1>4. a <= b * q /\ b * (q - 1) < a
  BY <1>1, <1>3
<1>5. a # 0 => q # 0
  <2> SUFFICES ASSUME a # 0, q = 0 PROVE FALSE
    OBVIOUS
  <2>1. b * q = 0
    BY <1>1
  <2> QED BY <2>1, <1>4
<1> QED BY <1>1, <1>2, <1>4, <1>5

LEMMA TimesLess ==
  ASSUME NEW a \in Int, NEW b \in Int, NEW k \in Nat \ {0}
  PROVE  (a < b <=> a * k < b * k) /\ (a <= b <=> a * k <= b * k)
  BY SMT

LEMMA Associate ==
  ASSUME NEW a \in Int, NEW b \in Int, NEW c \in Int
  PROVE  /\ (a * b) * c = (a * c) * b /\ a * (b * c) = (a * b) * c /\ a * b = b * a
         /\ a * b \in Int /\ (a * b) * c \in Int /\ a * (b * c) \in Int
  BY SMT

(* Multiples. *)

LEMMA ProductMultiple ==
  ASSUME NEW q \in Int, NEW b \in Nat \ {0}
  PROVE  (q * b) % b = 0
<1>1. q * b \in Int /\ q * b <= q * b /\ q * b < (q + 1) * b
  BY SMT
<1>2. q = (q * b) \div b
  BY <1>1, QuotientIs
<1>3. q * b = b * q + ((q * b) % b) /\ (q * b) % b \in 0..(b - 1)
  BY <1>1, <1>2, Division
<1>4. b * q = q * b
  BY SMT
<1> QED BY <1>1, <1>3, <1>4, SMT

LEMMA WholeQuotient ==
  ASSUME NEW a \in Int, NEW b \in Nat \ {0}, a % b = 0
  PROVE  a \div b \in Int /\ a = b * (a \div b)
<1>1. a \div b \in Int /\ a = b * (a \div b) + (a % b)
  BY Division
<1> DEFINE q == a \div b
<1> HIDE DEF q
<1>2. q \in Int /\ a = b * q + 0
  BY <1>1 DEF q
<1>3. q \in Int /\ a = b * q
  BY <1>2
<1> QED BY <1>3 DEF q

LEMMA SumMultiple ==
  ASSUME NEW a \in Int, NEW c \in Int, NEW b \in Nat \ {0}, a % b = 0, c % b = 0
  PROVE  (a + c) % b = 0
<1> DEFINE p == a \div b
           q == c \div b
<1>1. p \in Int /\ a = b * p
  BY WholeQuotient
<1>3. q \in Int /\ c = b * q
  BY WholeQuotient
<1> HIDE DEF p, q
<1>2. a + c = (p + q) * b
  BY <1>1, <1>3
<1> QED BY <1>1, <1>3, <1>2, ProductMultiple

(* The first values of the sequence that starts with a and goes on with g:  *)
(* a function defined by recursion on 0..N exists.                         *)
Iterates(N, S, a, g) ==
  {f \in [0..N -> S] : f[0] = a /\ \A n \in 1..N : f[n] = g[<<n, f[n - 1]>>]}

LEMMA Recursion ==
  ASSUME NEW N \in Nat, NEW S, NEW a \in S, NEW g \in [Nat \X S -> S]
  PROVE  Iterates(N, S, a, g) # {}
<1> DEFINE T == {m \in 0..N : Iterates(m, S, a, g) = {}}
<1>1. SUFFICES ASSUME T # {} PROVE FALSE
  OBVIOUS
<1>2. \A m \in T : m \in Nat
  OBVIOUS
<1>3. PICK m \in T : \A p \in T : m <= p
  <2> HIDE DEF T
  <2> QED BY <1>1, <1>2, HasLeast
<1>4. m # 0
  <2> SUFFICES ASSUME m = 0 PROVE FALSE
    OBVIOUS
  <2> DEFINE f == [n \in 0..0 |-> a]
  <2>1. f \in [0..0 -> S] /\ f[0] = a
    OBVIOUS
  <2>2. f \in Iterates(0, S, a, g)
    BY <2>1 DEF Iterates
  <2> QED BY <2>2, <1>3
<1>5. m - 1 \in 0..N /\ m - 1 \notin T /\ m \in 1..N
  <2>1. m \in 1..N
    BY <1>3, <1>4
  <2>2. m - 1 \in 0..N
    BY <2>1
  <2> HIDE DEF T
  <2> QED BY <2>1, <2>2, <1>3
<1>6. PICK f \in Iterates(m - 1, S, a, g) : TRUE
  BY <1>5
<1>7. f \in [0..(m - 1) -> S] /\ f[0] = a /\ \A n \in 1..(m - 1) : f[n] = g[<<n, f[n - 1]>>]
  BY <1>6 DEF Iterates
<1> DEFINE h == [n \in 0..m |-> IF n = m THEN g[<<m, f[m - 1]>>] ELSE f[n]]
<1>8. g[<<m, f[m - 1]>>] \in S
  <2>1. <<m, f[m - 1]>> \in Nat \X S
    BY <1>5, <1>7
  <2> QED BY <2>1
<1>9. h \in [0..m -> S]
  <2>1. ASSUME NEW n \in 0..m PROVE (IF n = m THEN g[<<m, f[m - 1]>>] ELSE f[n]) \in S
    BY <1>5, <1>7, <1>8
  <2> QED BY <2>1
<1>10. h[0] = a
  BY <1>5, <1>7
<1>11. ASSUME NEW n \in 1..m PROVE h[n] = g[<<n, h[n - 1]>>]
  <2>1. n \in 0..m /\ n - 1 \in 0..m /\ n - 1 # m /\ h[n - 1] = f[n - 1]
    BY <1>5
  <2>2. n # m => n \in 1..(m - 1)
    BY <1>5
  <2> QED BY <2>1, <2>2, <1>7
<1>12. h \in Iterates(m, S, a, g)
  <2> HIDE DEF h
  <2> QED BY <1>9, <1>10, <1>11 DEF Iterates
<1> QED BY <1>3, <1>12

(* Sums of sequences. *)

LEMMA UpToIs ==
  ASSUME NEW v \in Seq(Nat)
  PROVE  /\ \A n \in 0..Len(v) : UpTo(v)[n] \in Nat
         /\ UpTo(v)[0] = 0
         /\ \A n \in 1..Len(v) : UpTo(v)[n] = UpTo(v)[n - 1] + v[n]
         /\ Len(v) \in Nat /\ Sum(v) = UpTo(v)[Len(v)] /\ Sum(v) \in Nat
<1> DEFINE N == Len(v)
           Is(f) == f = [n \in 0..N |-> IF n = 0 THEN 0 ELSE f[n - 1] + v[n]]
           g == [p \in Nat \X Nat |-> p[2] + (IF p[1] \in 1..N THEN v[p[1]] ELSE 0)]
<1>1. N \in Nat /\ \A n \in 1..N : v[n] \in Nat
  OBVIOUS
<1>2. g \in [Nat \X Nat -> Nat]
  BY <1>1
<1>3. ASSUME NEW n \in 1..N, NEW k \in Nat PROVE g[<<n, k>>] = k + v[n]
  <2>1. <<n, k>> \in Nat \X Nat
    BY <1>1
  <2> QED BY <2>1
<1> HIDE DEF g
<1>4. PICK f \in Iterates(N, Nat, 0, g) : TRUE
  BY <1>1, <1>2, Recursion
<1>5. \A n \in 0..N : f[n] = IF n = 0 THEN 0 ELSE f[n - 1] + v[n]
  <2> HIDE DEF N
  <2>1. f \in [0..N -> Nat] /\ f[0] = 0 /\ \A n \in 1..N : f[n] = g[<<n, f[n - 1]>>]
    BY <1>4 DEF Iterates
  <2>2. ASSUME NEW n \in 1..N PROVE f[n] = f[n - 1] + v[n]
    <3>1. n - 1 \in 0..N
      BY <1>1
    <3> QED BY <3>1, <2>1, <1>3
  <2> QED BY <2>1, <2>2, <1>1
<1>6. Is(f)
  BY <1>4, <1>5 DEF Iterates
<1>7. UpTo(v) = CHOOSE h : Is(h)
  BY DEF UpTo
<1>8. Is(UpTo(v))
  <2> HIDE DEF Is
  <2> QED BY <1>6, <1>7
<1>9. DOMAIN UpTo(v) = 0..N /\ \A n \in 0..N : UpTo(v)[n] = IF n = 0 THEN 0 ELSE UpTo(v)[n - 1] + v[n]
  BY <1>8
<1>10. UpTo(v)[0] = 0 /\ \A n \in 1..N : UpTo(v)[n] = UpTo(v)[n - 1] + v[n]
  BY <1>1, <1>9
<1>11. \A n \in 0..N : UpTo(v)[n] \in Nat
  <2> DEFINE T == {n \in 0..N : UpTo(v)[n] \notin Nat}
  <2> SUFFICES ASSUME T # {} PROVE FALSE
    OBVIOUS
  <2>1. \A n \in T : n \in Nat /\ n \in 0..N /\ UpTo(v)[n] \notin Nat
    OBVIOUS
  <2>2. \A n \in 0..N : UpTo(v)[n] \notin Nat => n \in T
    OBVIOUS
  <2> HIDE DEF T
  <2>3. PICK m \in T : \A p \in T : m <= p
    BY <2>1, HasLeast
  <2>4. m # 0
    BY <2>1, <1>10
  <2>5. m \in 1..N /\ m - 1 \in 0..N /\ m - 1 \notin T
    BY <2>1, <2>3, <2>4
  <2>6. UpTo(v)[m - 1] \in Nat /\ UpTo(v)[m] = UpTo(v)[m - 1] + v[m] /\ v[m] \in Nat
    BY <2>2, <2>5, <1>1, <1>10
  <2>7. UpTo(v)[m] \in Nat
    BY <2>6
  <2> QED BY <2>1, <2>7
<1>13. Sum(v) = UpTo(v)[N]
  BY DEF Sum
<1> QED BY <1>1, <1>10, <1>11, <1>13

LEMMA SumEmpty == Sum(<<>>) = 0
<1>1. <<>> \in Seq(Nat) /\ Len(<<>>) = 0
  BY EmptySeq
<1> QED BY <1>1, UpToIs

(* Sums of sequences compared member by member. *)
LEMMA UpToCompared ==
  ASSUME NEW v \in Seq(Nat), NEW w \in Seq(Nat), NEW N \in Nat, N <= Len(v), N <= Len(w),
         \A n \in 1..N : v[n] <= w[n]
  PROVE  UpTo(v)[N] <= UpTo(w)[N]
<1> DEFINE T == {n \in 0..N : ~(UpTo(v)[n] <= UpTo(w)[n])}
<1> SUFFICES ASSUME T # {} PROVE FALSE
  OBVIOUS
<1>1. \A n \in T : n \in Nat /\ n \in 0..N /\ ~(UpTo(v)[n] <= UpTo(w)[n])
  OBVIOUS
<1>2. \A n \in 0..N : ~(UpTo(v)[n] <= UpTo(w)[n]) => n \in T
  OBVIOUS
<1> HIDE DEF T
<1>3. PICK m \in T : \A p \in T : m <= p
  BY <1>1, HasLeast
<1>4. m # 0
  BY <1>1, UpToIs
<1>5. m \in 1..N /\ m - 1 \in 0..N /\ m - 1 \notin T /\ m \in 1..Len(v) /\ m \in 1..Len(w)
  BY <1>1, <1>3, <1>4, UpToIs
<1>6. /\ UpTo(v)[m] = UpTo(v)[m - 1] + v[m] /\ UpTo(w)[m] = UpTo(w)[m - 1] + w[m]
      /\ UpTo(v)[m - 1] \in Nat /\ UpTo(w)[m - 1] \in Nat
      /\ v[m] \in Nat /\ w[m] \in Nat
  <2>1. UpTo(v)[m] = UpTo(v)[m - 1] + v[m] /\ UpTo(v)[m - 1] \in Nat /\ v[m] \in Nat
    <3>1. m - 1 \in 0..Len(v)
      BY <1>5, UpToIs
    <3> QED BY <3>1, <1>5, UpToIs
  <2>2. UpTo(w)[m] = UpTo(w)[m - 1] + w[m] /\ UpTo(w)[m - 1] \in Nat /\ w[m] \in Nat
    <3>1. m - 1 \in 0..Len(w)
      BY <1>5, UpToIs
    <3> QED BY <3>1, <1>5, UpToIs
  <2> QED BY <2>1, <2>2
<1>7. UpTo(v)[m - 1] <= UpTo(w)[m - 1] /\ v[m] <= w[m]
  BY <1>2, <1>5
<1>8. UpTo(v)[m] <= UpTo(w)[m]
  BY <1>6, <1>7
<1> QED BY <1>1, <1>8

LEMMA SumAppend ==
  ASSUME NEW v \in Seq(Nat), NEW x \in Nat
  PROVE  Sum(Append(v, x)) = Sum(v) + x
<1> DEFINE w == Append(v, x)
           N == Len(v)
<1>1. /\ w \in Seq(Nat) /\ N \in Nat /\ Len(w) = N + 1 /\ w[N + 1] = x
      /\ \A n \in 1..N : w[n] = v[n]
  OBVIOUS
<1> HIDE DEF w
<1>2. UpTo(w)[N + 1] = UpTo(w)[N] + x
  <2>1. N + 1 \in 1..Len(w) /\ (N + 1) - 1 = N
    BY <1>1
  <2> QED BY <2>1, <1>1, UpToIs
<1>3. UpTo(w)[N] = UpTo(v)[N]
  <2>1. UpTo(w)[N] \in Nat /\ UpTo(v)[N] \in Nat
    BY <1>1, UpToIs
  <2>2. \A n \in 1..N : v[n] \in Nat /\ v[n] <= w[n] /\ w[n] <= v[n]
    BY <1>1
  <2>3. UpTo(w)[N] <= UpTo(v)[N] /\ UpTo(v)[N] <= UpTo(w)[N]
    <3> HIDE DEF N
    <3>1. v \in Seq(Nat) /\ w \in Seq(Nat) /\ N \in Nat /\ N <= Len(v) /\ N <= Len(w)
      BY <1>1 DEF N
    <3> QED BY <3>1, <2>2, UpToCompared
  <2> QED BY <2>1, <2>3
<1> QED BY <1>1, <1>2, <1>3, UpToIs DEF w

LEMMA SumPrepend ==
  ASSUME NEW v \in Seq(Nat), NEW x \in Nat
  PROVE  Sum(<<x>> \o v) = x + Sum(v)
<1> DEFINE w == <<x>> \o v
           N == Len(v)
<1>1. /\ w \in Seq(Nat) /\ N \in Nat /\ Len(w) = N + 1 /\ w[1] = x
      /\ \A n \in 1..N : w[n + 1] = v[n]
  OBVIOUS
<1> HIDE DEF w
<1> DEFINE T == {n \in 0..N : UpTo(w)[n + 1] # x + UpTo(v)[n]}
<1>2. SUFFICES ASSUME T # {} PROVE FALSE
  <2>1. T = {} => UpTo(w)[N + 1] = x + UpTo(v)[N]
    BY <1>1
  <2> QED BY <2>1, <1>1, <1>2, UpToIs DEF w
<1>3. \A n \in T : n \in Nat /\ n \in 0..N /\ UpTo(w)[n + 1] # x + UpTo(v)[n]
  OBVIOUS
<1>4. \A n \in 0..N : UpTo(w)[n + 1] # x + UpTo(v)[n] => n \in T
  OBVIOUS
<1> HIDE DEF T
<1>5. PICK m \in T : \A p \in T : m <= p
  BY <1>2, <1>3, HasLeast
<1>6. m # 0
  <2>1. 1 \in 1..Len(w) /\ UpTo(w)[1] = UpTo(w)[1 - 1] + w[1] /\ 1 - 1 = 0
    BY <1>1, UpToIs
  <2>2. UpTo(w)[0] = 0 /\ UpTo(v)[0] = 0
    BY <1>1, UpToIs
  <2>3. UpTo(w)[0 + 1] = x + UpTo(v)[0]
    BY <2>1, <2>2, <1>1
  <2> QED BY <2>3, <1>3
<1>7. m \in 1..N /\ m - 1 \in 0..N /\ m - 1 \notin T /\ m + 1 \in 1..Len(w) /\ (m - 1) + 1 = m
  BY <1>1, <1>3, <1>5, <1>6
<1>8. UpTo(w)[m] = x + UpTo(v)[m - 1]
  BY <1>4, <1>7
<1>9. UpTo(w)[m + 1] = UpTo(w)[m] + v[m]
  <2>1. UpTo(w)[m + 1] = UpTo(w)[(m + 1) - 1] + w[m + 1] /\ (m + 1) - 1 = m
    <3>1. m + 1 \in 1..Len(w) /\ w \in Seq(Nat) /\ m \in Nat
      BY <1>1, <1>3, <1>7
    <3> QED BY <3>1, UpToIs
  <2> QED BY <2>1, <1>1, <1>7
<1>10. UpTo(v)[m] = UpTo(v)[m - 1] + v[m] /\ UpTo(v)[m - 1] \in Nat /\ v[m] \in Nat
  BY <1>7, UpToIs
<1> QED BY <1>3, <1>8, <1>9, <1>10
=============================================================================

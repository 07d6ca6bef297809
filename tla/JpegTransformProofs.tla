------------------------ MODULE JpegTransformProofs ------------------------
(***************************************************************************)
(* The property of JpegTransform, for pictures of any size, sampling and   *)
(* number of components, and for any requests: first one axis, then what a *)
(* request is granted, the blocks that are moved, the samples in them, the *)
(* crop specifications, and the session as a whole.                        *)
(***************************************************************************)
EXTENDS JpegTransform, NumberLemmas

(***************************************************************************)
(* One axis of the transformed picture: full pixels, units of 2 m, a       *)
(* component that has k samples of m, and an output of n pixels from the   *)
(* unit o on.                                                              *)
(***************************************************************************)
Axis(k, m, full, n, o) ==
  /\ k \in 1..4 /\ m \in 1..4 /\ full \in Nat \ {0} /\ n \in Nat \ {0} /\ o \in Nat
  /\ o * (2 * m) + n <= full

LEMMA CeilTight ==
  ASSUME NEW a \in Nat, NEW b \in Nat \ {0}, NEW q \in Int, b * (q - 1) < a, a <= b * q
  PROVE  CeilDiv(a, b) = q
<1>1. a + b - 1 = a + (b - 1) /\ q * b = b * q /\ b * (q - 1) = b * q - b /\ b * q \in Int
      /\ (q + 1) * b = b * q + b
  BY SMT
<1>2. q * b <= a + b - 1 /\ a + b - 1 < (q + 1) * b
  BY <1>1
<1>3. a + b - 1 \in Int
  OBVIOUS
<1>4. q = (a + b - 1) \div b
  BY <1>2, <1>3, QuotientIs
<1> QED BY <1>4 DEF CeilDiv

LEMMA CeilLess ==
  ASSUME NEW a \in Nat, NEW b \in Nat \ {0}, NEW x \in Nat
  PROVE  x < CeilDiv(a, b) <=> b * x < a
<1> DEFINE q == CeilDiv(a, b)
<1>1. q \in Nat /\ a <= b * q /\ b * (q - 1) < a
  BY CeilIs
<1> HIDE DEF q
<1>2. CASE x < q
  <2>1. x <= q - 1
    BY <1>1, <1>2
  <2>2. x * b <= (q - 1) * b
    BY <2>1, <1>1, TimesLess
  <2>3. x * b = b * x /\ (q - 1) * b = b * (q - 1) /\ b * x \in Int /\ b * (q - 1) \in Int
    BY <1>1, SMT
  <2> QED BY <2>2, <2>3, <1>1, <1>2 DEF q
<1>3. CASE ~(x < q)
  <2>1. q * b <= x * b
    BY <1>1, <1>3, TimesLess
  <2>2. q * b = b * q /\ x * b = b * x /\ b * x \in Int /\ b * q \in Int
    BY <1>1, SMT
  <2> QED BY <2>1, <2>2, <1>1, <1>3 DEF q
<1> QED BY <1>2, <1>3

(* Blocks of the output are blocks of the picture. *)
LEMMA AxisInside ==
  ASSUME NEW k, NEW m, NEW full, NEW n, NEW o, Axis(k, m, full, n, o),
         NEW p \in 0..CeilDiv(n * k, m * 2) - 1
  PROVE  p + o * k \in 0..CeilDiv(full * k, m * 2) - 1
<1> USE DEF Axis
<1>1. n * k \in Nat /\ full * k \in Nat /\ m * 2 \in Nat \ {0} /\ o * k \in Nat
  BY SMT
<1> DEFINE u == m * 2
           x == p + o * k
<1>2. p \in Nat /\ p < CeilDiv(n * k, u)
  <2>1. CeilDiv(n * k, m * 2) \in Nat
    BY <1>1, CeilIs, Zenon
  <2> HIDE DEF Axis
  <2> QED BY <2>1
<1>3. u * p < n * k
  BY <1>1, <1>2, CeilLess
<1>4. u * x = u * p + (o * u) * k
  BY <1>1, <1>2, SMT
<1>5. (o * u + n) * k <= full * k
  <2>1. o * u + n <= full /\ o * u \in Nat
    BY SMT
  <2>2. o * u + n \in Int /\ full \in Int /\ k \in Nat \ {0}
    BY <2>1
  <2> QED BY <2>1, <2>2, TimesLess
<1>6. (o * u + n) * k = (o * u) * k + n * k /\ (o * u) * k \in Int /\ u * p \in Int
  BY <1>1, <1>2, SMT
<1>7. u * x < full * k
  BY <1>3, <1>4, <1>5, <1>6, <1>1
<1>8. x \in Nat
  BY <1>1, <1>2
<1>9. x < CeilDiv(full * k, u)
  BY <1>1, <1>7, <1>8, CeilLess
<1>10. CeilDiv(full * k, u) \in Nat
  BY <1>1, CeilIs
<1> QED BY <1>8, <1>9, <1>10

(* The blocks that mirroring exchanges are blocks of the picture. *)
Mirrored(k, m, full) == (full \div (m * 2)) * k

LEMMA MirroredIs ==
  ASSUME NEW k \in 1..4, NEW m \in 1..4, NEW full \in Nat \ {0}
  PROVE  /\ Mirrored(k, m, full) \in Nat
         /\ Mirrored(k, m, full) <= CeilDiv(full * k, m * 2)
         /\ CeilDiv(full * k, m * 2) \in Nat \ {0}
<1> DEFINE u == m * 2
           q == full \div u
<1>1. u \in Nat \ {0} /\ full * k \in Nat \ {0}
  BY SMT
<1>2. q \in Nat /\ u * q <= full
  BY <1>1, FloorIs
<1> DEFINE b == CeilDiv(full * k, u)
<1>3. b \in Nat \ {0} /\ full * k <= u * b
  BY <1>1, CeilIs
<1> HIDE DEF u, q, b
<1>4. q * k \in Nat
  BY <1>2, SMT
<1>5. (u * q) * k <= full * k
  <2>1. u * q \in Int /\ full \in Int /\ k \in Nat \ {0}
    BY <1>1, <1>2, SMT
  <2> QED BY <1>2, <2>1, TimesLess
<1>6. (u * q) * k = (q * k) * u /\ u * b = b * u /\ (q * k) * u \in Int /\ b * u \in Int
  BY <1>1, <1>2, <1>3, SMT
<1>7. (q * k) * u <= b * u
  BY <1>1, <1>3, <1>5, <1>6
<1>8. q * k <= b
  BY <1>1, <1>3, <1>4, <1>7, TimesLess
<1> QED BY <1>3, <1>4, <1>8 DEF u, q, b, Mirrored

LEMMA MirrorInside ==
  ASSUME NEW k \in 1..4, NEW m \in 1..4, NEW full \in Nat \ {0},
         NEW x \in 0..CeilDiv(full * k, m * 2) - 1, x < Mirrored(k, m, full)
  PROVE  Mirrored(k, m, full) - x - 1 \in 0..CeilDiv(full * k, m * 2) - 1
<1>1. /\ Mirrored(k, m, full) \in Nat
      /\ Mirrored(k, m, full) <= CeilDiv(full * k, m * 2)
      /\ CeilDiv(full * k, m * 2) \in Nat \ {0}
  BY MirroredIs
<1> QED BY <1>1

(* The samples of the output: each is in a block of the output, and the     *)
(* crop moves it by whole blocks.                                          *)
LEMMA SampleInside ==
  ASSUME NEW k, NEW m, NEW full, NEW n, NEW o, Axis(k, m, full, n, o),
         NEW x \in 0..CeilDiv(n * k, m) - 1
  PROVE  /\ x \div 2 \in 0..CeilDiv(n * k, m * 2) - 1
         /\ (x + o * k * 2) \div 2 = x \div 2 + o * k
         /\ (x + o * k * 2) % 2 = x % 2
         /\ x + o * k * 2 \in Nat
         /\ m * (x + o * k * 2) < (o * (2 * m) + n) * k
<1> USE DEF Axis
<1>1. n * k \in Nat /\ m * 2 \in Nat \ {0} /\ o * k \in Nat /\ m \in Nat \ {0}
  BY SMT
<1> DEFINE p == x \div 2
           ok == o * k
           nk == n * k
<1>2. x \in Nat /\ x < CeilDiv(nk, m)
  <2>1. CeilDiv(n * k, m) \in Nat
    BY <1>1, CeilIs, Zenon
  <2> HIDE DEF Axis
  <2> QED BY <2>1
<1>3. m * x < nk
  BY <1>1, <1>2, CeilLess
<1>4. p \in Nat /\ 2 * p <= x
  BY <1>2
<1>5. m * (2 * p) <= m * x /\ m * (2 * p) = (m * 2) * p /\ (m * 2) * p \in Int /\ m * x \in Int
  <2>1. (2 * p) * m <= x * m
    BY <1>1, <1>2, <1>4, TimesLess
  <2> QED BY <2>1, <1>1, <1>2, <1>4, SMT
<1>6. p < CeilDiv(nk, m * 2)
  <2>1. (m * 2) * p < nk
    BY <1>1, <1>3, <1>5
  <2> QED BY <2>1, <1>1, <1>4, CeilLess
<1>7. CeilDiv(nk, m * 2) \in Nat
  BY <1>1, CeilIs
<1>8. o * k * 2 = 2 * ok /\ ok \in Nat
  BY <1>1
<1>9. m * (x + 2 * ok) = m * x + (o * (2 * m)) * k /\ (o * (2 * m) + n) * k = (o * (2 * m)) * k + nk
      /\ (o * (2 * m)) * k \in Int
  BY <1>1, <1>2, SMT
<1> HIDE DEF ok, nk, p, Axis
<1>10. (x + 2 * ok) \div 2 = x \div 2 + ok /\ (x + 2 * ok) % 2 = x % 2 /\ x + 2 * ok \in Nat
  BY <1>2, <1>8
<1>11. m * (x + 2 * ok) < (o * (2 * m) + n) * k
  BY <1>1, <1>3, <1>5, <1>9 DEF nk
<1>12. p \in 0..CeilDiv(nk, m * 2) - 1
  BY <1>4, <1>6, <1>7
<1> QED BY <1>8, <1>10, <1>11, <1>12 DEF p, ok, nk

(* Mirroring about the edge of whole units is mirroring of the blocks, and  *)
(* exchanges the odd and the even samples of a block.                      *)
LEMMA MirrorSample ==
  ASSUME NEW b \in Nat, NEW x \in Nat, x < 2 * b
  PROVE  /\ x \div 2 < b /\ 2 * b - 1 - x \in Nat
         /\ (2 * b - 1 - x) \div 2 = b - x \div 2 - 1
         /\ (2 * b - 1 - x) % 2 = 1 - (x % 2) /\ x % 2 \in {0, 1}
<1>1. x \div 2 \in Nat /\ x % 2 \in {0, 1} /\ x = 2 * (x \div 2) + (x % 2)
  <2>1. x \in Int /\ 2 \in Nat \ {0}
    OBVIOUS
  <2>2. x \div 2 \in Nat /\ x % 2 \in 0..(2 - 1) /\ x = 2 * (x \div 2) + (x % 2)
    BY <2>1, Division
  <2> QED BY <2>2
<1> DEFINE q == x \div 2
           r == x % 2
<1> HIDE DEF q, r
<1>2. q \in Nat /\ r \in {0, 1} /\ x = 2 * q + r
  BY <1>1 DEF q, r
<1>3. 2 * b - 1 - x = 2 * (b - q - 1) + (1 - r) /\ b - q - 1 \in Int
  BY <1>2
<1>4. (2 * b - 1 - x) \div 2 = b - q - 1 /\ (2 * b - 1 - x) % 2 = 1 - r
  BY <1>2, <1>3
<1> QED BY <1>2, <1>4 DEF q, r

(* An output that ends with the whole units is mirrored altogether. *)
LEMMA WholeMirrored ==
  ASSUME NEW k, NEW m, NEW full, NEW n, NEW o, Axis(k, m, full, n, o),
         o * (2 * m) + n <= (full \div (2 * m)) * (2 * m),
         NEW x \in Nat, m * x < (o * (2 * m) + n) * k
  PROVE  x < 2 * Mirrored(k, m, full)
<1> USE DEF Axis
<1> DEFINE u == 2 * m
           q == full \div u
<1>1. u \in Nat \ {0} /\ u = m * 2 /\ o * u \in Nat
  BY SMT
<1>2. q \in Nat
  BY <1>1, FloorIs
<1>3. q * u \in Int /\ o * u + n \in Int /\ k \in Nat \ {0} /\ o * u + n <= q * u
  BY <1>1, <1>2
<1> DEFINE a == o * u + n
           c == q * u
<1>4. a * k <= c * k
  <2> HIDE DEF a, c, Axis
  <2>1. a \in Int /\ c \in Int /\ a <= c /\ k \in Nat \ {0}
    BY <1>3 DEF a, c
  <2> QED BY <2>1, TimesLess
<1> HIDE DEF u, q
<1>5. c * k = (2 * (q * k)) * m /\ m * x = x * m /\ 2 * (q * k) \in Int /\ a * k \in Int /\ x * m \in Int
      /\ c * k \in Int
  BY <1>1, <1>2, <1>3, SMT DEF u
<1>6. m * x < a * k
  BY DEF u
<1>7. x * m < (2 * (q * k)) * m
  <2> HIDE DEF a, c, Axis
  <2> QED BY <1>4, <1>5, <1>6
<1>8. x < 2 * (q * k)
  BY <1>5, <1>7, TimesLess
<1> QED BY <1>1, <1>8 DEF Mirrored, u, q

(* How many samples the whole units have. *)
LEMMA WholeSamples ==
  ASSUME NEW k \in 1..4, NEW m \in 1..4, NEW full \in Nat \ {0}
  PROVE  (((full \div (2 * m)) * (2 * m)) * k) \div m = 2 * Mirrored(k, m, full)
<1> DEFINE q == full \div (2 * m)
           d == 2 * (q * k)
<1>1. 2 * m \in Nat \ {0} /\ 2 * m = m * 2 /\ m \in Nat \ {0}
  OBVIOUS
<1>2. q \in Nat
  BY <1>1, FloorIs
<1> HIDE DEF q
<1>3. d \in Int /\ (q * (2 * m)) * k = d * m /\ (d + 1) * m = d * m + m /\ d * m \in Int
  BY <1>1, <1>2, SMT
<1> HIDE DEF d
<1>4. d = (d * m) \div m
  <2>1. d * m <= d * m /\ d * m < (d + 1) * m
    BY <1>1, <1>3
  <2> QED BY <2>1, <1>1, <1>3, QuotientIs
<1> QED BY <1>1, <1>3, <1>4 DEF d, q, Mirrored

(***************************************************************************)
(* Sampling factors.                                                       *)
(***************************************************************************)
Sampling(samp) == DOMAIN samp # {} /\ \A i \in DOMAIN samp : samp[i] \in Factors

LargestH(samp, m) ==
  m \in 1..4 /\ (\A i \in DOMAIN samp : samp[i][1] <= m) /\ (\E i \in DOMAIN samp : samp[i][1] = m)
LargestV(samp, m) ==
  m \in 1..4 /\ (\A i \in DOMAIN samp : samp[i][2] <= m) /\ (\E i \in DOMAIN samp : samp[i][2] = m)

LEMMA OnlyOne ==
  ASSUME NEW samp, Sampling(samp), NEW m, NEW n
  PROVE  /\ LargestH(samp, m) /\ LargestH(samp, n) => m = n
         /\ LargestV(samp, m) /\ LargestV(samp, n) => m = n
<1>1. \A i \in DOMAIN samp : samp[i][1] \in 1..4 /\ samp[i][2] \in 1..4
  BY DEF Sampling, Factors
<1> QED BY <1>1 DEF LargestH, LargestV

(* A set of factors has a largest one. *)
LEMMA HasLargest ==
  ASSUME NEW S \in SUBSET (1..4), S # {}
  PROVE  \E m \in S : \A i \in S : i <= m
<1>1. S \in SUBSET (0..4) /\ 4 \in Nat
  OBVIOUS
<1> QED BY <1>1, HasGreatest

LEMMA MaxIs ==
  ASSUME NEW samp, Sampling(samp)
  PROVE  LargestH(samp, MaxH(samp)) /\ LargestV(samp, MaxV(samp))
<1>0. \A i \in DOMAIN samp : samp[i][1] \in 1..4 /\ samp[i][2] \in 1..4
  BY DEF Sampling, Factors
<1>1. LargestH(samp, MaxH(samp))
  <2> DEFINE S == {s[1] : s \in {samp[i] : i \in DOMAIN samp}}
             P(m) == \A i \in DOMAIN samp : samp[i][1] <= m
  <2>1. S \in SUBSET (1..4) /\ S # {} /\ (\A i \in DOMAIN samp : samp[i][1] \in S)
        /\ \A n \in S : \E i \in DOMAIN samp : n = samp[i][1]
    BY <1>0 DEF Sampling
  <2>2. PICK m \in S : \A i \in S : i <= m
    <3> HIDE DEF S
    <3> QED BY <2>1, HasLargest
  <2>3. m \in S /\ P(m)
    BY <2>1, <2>2
  <2>4. MaxH(samp) = CHOOSE n \in S : P(n)
    BY DEF MaxH
  <2> HIDE DEF S, P
  <2>5. MaxH(samp) \in S /\ P(MaxH(samp))
    BY <2>3, <2>4
  <2>6. MaxH(samp) \in 1..4 /\ \E i \in DOMAIN samp : MaxH(samp) = samp[i][1]
    BY <2>1, <2>5
  <2> QED BY <2>5, <2>6 DEF LargestH, P
<1>2. LargestV(samp, MaxV(samp))
  <2> DEFINE S == {s[2] : s \in {samp[i] : i \in DOMAIN samp}}
             P(m) == \A i \in DOMAIN samp : samp[i][2] <= m
  <2>1. S \in SUBSET (1..4) /\ S # {} /\ (\A i \in DOMAIN samp : samp[i][2] \in S)
        /\ \A n \in S : \E i \in DOMAIN samp : n = samp[i][2]
    BY <1>0 DEF Sampling
  <2>2. PICK m \in S : \A i \in S : i <= m
    <3> HIDE DEF S
    <3> QED BY <2>1, HasLargest
  <2>3. m \in S /\ P(m)
    BY <2>1, <2>2
  <2>4. MaxV(samp) = CHOOSE n \in S : P(n)
    BY DEF MaxV
  <2> HIDE DEF S, P
  <2>5. MaxV(samp) \in S /\ P(MaxV(samp))
    BY <2>3, <2>4
  <2>6. MaxV(samp) \in 1..4 /\ \E i \in DOMAIN samp : MaxV(samp) = samp[i][2]
    BY <2>1, <2>5
  <2> QED BY <2>5, <2>6 DEF LargestV, P
<1> QED BY <1>1, <1>2

(* Transposing exchanges the axes of the factors, too. *)
LEMMA TransposedSampling ==
  ASSUME NEW samp, Sampling(samp), NEW turned, turned = transpose_critical_parameters(samp)
  PROVE  /\ Sampling(turned) /\ DOMAIN turned = DOMAIN samp
         /\ \A i \in DOMAIN samp : turned[i][1] = samp[i][2] /\ turned[i][2] = samp[i][1]
         /\ MaxH(turned) = MaxV(samp) /\ MaxV(turned) = MaxH(samp)
<1>1. DOMAIN turned = DOMAIN samp /\ \A i \in DOMAIN samp : turned[i] = <<samp[i][2], samp[i][1]>>
  BY DEF transpose_critical_parameters
<1>2. \A i \in DOMAIN samp : turned[i][1] = samp[i][2] /\ turned[i][2] = samp[i][1]
  BY <1>1
<1>3. Sampling(turned)
  BY <1>1 DEF Sampling, Factors
<1>4. LargestH(samp, MaxH(samp)) /\ LargestV(samp, MaxV(samp))
  BY MaxIs
<1>5. LargestV(turned, MaxH(samp)) /\ LargestH(turned, MaxV(samp))
  BY <1>1, <1>2, <1>4 DEF LargestH, LargestV
<1>6. LargestH(turned, MaxH(turned)) /\ LargestV(turned, MaxV(turned))
  BY <1>3, MaxIs
<1>7. MaxH(turned) = MaxV(samp) /\ MaxV(turned) = MaxH(samp)
  BY <1>3, <1>5, <1>6, OnlyOne
<1> QED BY <1>1, <1>2, <1>3, <1>7

(* A picture of one component is not interleaved. *)
One == [i \in {1} |-> <<1, 1>>]
LEMMA OneIs ==
  Sampling(One) /\ MaxH(One) = 1 /\ MaxV(One) = 1 /\ DOMAIN One = {1} /\ One[1] = <<1, 1>>
<1>1. DOMAIN One = {1} /\ One[1] = <<1, 1>>
  BY DEF One
<1>2. Sampling(One)
  BY <1>1 DEF Sampling, Factors
<1>3. One[1][1] = 1 /\ One[1][2] = 1
  BY <1>1
<1>4. LargestH(One, 1) /\ LargestV(One, 1)
  BY <1>1, <1>3 DEF LargestH, LargestV
<1>5. LargestH(One, MaxH(One)) /\ LargestV(One, MaxV(One))
  BY <1>2, MaxIs
<1>6. MaxH(One) = 1 /\ MaxV(One) = 1
  BY <1>2, <1>4, <1>5, OnlyOne
<1> QED BY <1>1, <1>2, <1>6

(***************************************************************************)
(* What a request is granted, along one axis.                              *)
(***************************************************************************)
\* Where a region begins and how long it is, when it is asked for.
Begins(sizeSet, offsetSet, size, offset, full) == Extent(sizeSet, offsetSet, size, offset, full).at
Lasts(sizeSet, offsetSet, size, offset, full) == Extent(sizeSet, offsetSet, size, offset, full).size

(* The output covers the region that begins at b and lasts l, apart from    *)
(* what is forced or trimmed.                                              *)
Covers(kind, trims, b, l, u, at, out) ==
  /\ at * u <= b
  /\ kind # "force" /\ ~trims => at * u + out = b + l
  /\ kind # "force" /\ out >= u => at * u + out > b + l - u

LEMMA ExtentIs ==
  ASSUME NEW sizeSet, NEW offsetSet, NEW size \in Nat, NEW offset \in Nat, NEW full \in Nat \ {0},
         NEW e, e = Extent(sizeSet, offsetSet, size, offset, full), e.ok
  PROVE  e.at \in Nat /\ e.size \in Nat \ {0} /\ e.at + e.size <= full
<1> DEFINE o == IF offsetSet = "unset" THEN 0 ELSE offset
           l == IF sizeSet = "unset" THEN full - o ELSE size
           fits == o < full /\ 0 < l /\ l <= full /\ o <= full - l
<1>1. o \in Nat /\ l \in Int
  OBVIOUS
<1>2. e = [ok |-> fits,
           at |-> IF offsetSet = "neg" THEN full - l - o ELSE o, size |-> l]
  BY DEF Extent
<1> HIDE DEF o, l, fits
<1>3. o < full /\ 0 < l /\ l <= full /\ o <= full - l
  <2>1. e.ok = fits
    BY <1>2
  <2>2. fits
    BY <2>1, Zenon
  <2> QED BY <2>2 DEF fits
<1>4. e.size = l /\ e.at = IF offsetSet = "neg" THEN full - l - o ELSE o
  BY <1>2
<1> QED BY <1>1, <1>3, <1>4

LEMMA CroppedIs ==
  ASSUME NEW sizeSet, NEW full \in Nat \ {0}, NEW unit \in Nat \ {0},
         NEW e, e.at \in Nat, e.size \in Nat \ {0}, e.at + e.size <= full,
         NEW out, out = Cropped(sizeSet, e, unit)
  PROVE  /\ out[1] \in Nat \ {0} /\ out[2] \in Nat /\ out[2] * unit + out[1] <= full
         /\ Covers(sizeSet, FALSE, e.at, e.size, unit, out[2], out[1])
<1> DEFINE q == e.at \div unit
           r == e.at % unit
<1>1. q \in Nat /\ r \in 0..(unit - 1) /\ e.at = unit * q + r
  <2>1. e.at \in Int
    OBVIOUS
  <2> QED BY <2>1, Division, Zenon
<1>2. out[1] = (IF sizeSet = "force" THEN e.size ELSE e.size + r) /\ out[2] = q
  BY DEF Cropped
<1> HIDE DEF q, r
<1>3. unit * q = q * unit /\ q * unit \in Int
  BY <1>1, SMT
<1>4. out[1] \in Nat \ {0} /\ out[2] * unit + out[1] <= full
  BY <1>1, <1>2, <1>3
<1>5. out[2] * unit <= e.at /\ (sizeSet # "force" => out[2] * unit + out[1] = e.at + e.size)
  BY <1>1, <1>2, <1>3
<1> QED BY <1>1, <1>2, <1>4, <1>5 DEF Covers

LEMMA TrimIs ==
  ASSUME NEW full \in Nat \ {0}, NEW unit \in Nat \ {0}, NEW n \in Nat \ {0}, NEW o \in Nat,
         o * unit + n <= full, NEW out, out = trim_edge(n, o, unit, full)
  PROVE  /\ out \in Nat \ {0} /\ out <= n /\ n - unit < out /\ o * unit + out <= full
         /\ out >= unit => o * unit + out <= (full \div unit) * unit
<1> DEFINE q == n \div unit
           w == full \div unit
<1>1. q \in Nat /\ unit * q <= n /\ n < unit * q + unit
  BY FloorIs
<1>2. w \in Nat /\ unit * w <= full /\ full < unit * w + unit
  BY FloorIs
<1>3. out = IF q > 0 /\ o + q = w THEN q * unit ELSE n
  BY DEF trim_edge
<1> HIDE DEF q, w
<1>4. unit * q = q * unit /\ unit * w = w * unit /\ (o + q) * unit = o * unit + q * unit
      /\ q * unit \in Int /\ w * unit \in Int /\ o * unit \in Int
      /\ (w + 1) * unit = w * unit + unit
  BY <1>1, <1>2, SMT
<1>5. CASE q > 0 /\ o + q = w
  <2>1. q * unit > 0
    BY <1>1, <1>5, <1>4, SMT
  <2>2. out = q * unit /\ o * unit + out = w * unit
    BY <1>3, <1>4, <1>5
  <2> QED BY <2>1, <2>2, <1>1, <1>2, <1>4 DEF w
<1>6. CASE ~(q > 0 /\ o + q = w)
  <2>1. out = n
    BY <1>3, <1>6
  <2>2. ASSUME out >= unit PROVE o * unit + n <= w * unit
    <3>1. q > 0
      <4> SUFFICES ASSUME q = 0 PROVE FALSE
        BY <1>1
      <4>1. unit * q = 0
        BY <1>4
      <4> QED BY <4>1, <2>1, <2>2, <1>1
    <3>2. o + q < w + 1
      <4>1. (o + q) * unit < (w + 1) * unit
        BY <1>1, <1>2, <1>4
      <4> QED BY <4>1, <1>1, <1>2, TimesLess
    <3>3. o + q + 1 <= w
      BY <3>1, <3>2, <1>1, <1>2, <1>6
    <3>4. (o + q + 1) * unit <= w * unit
      BY <3>3, <1>1, <1>2, TimesLess
    <3>5. (o + q + 1) * unit = o * unit + q * unit + unit
      BY <1>1, SMT
    <3> QED BY <3>4, <3>5, <1>1, <1>4
  <2> QED BY <2>1, <2>2, <1>1, <1>4 DEF w
<1> QED BY <1>5, <1>6

(***************************************************************************)
(* What a request is granted.                                              *)
(***************************************************************************)
IsFrame(f) ==
  /\ f.w \in Nat \ {0} /\ f.h \in Nat \ {0}
  /\ Sampling(f.samp) /\ Len(f.samp) \in Nat \ {0} /\ DOMAIN f.samp = 1..Len(f.samp)

IsRequest(r) ==
  /\ r.transform \in Transforms /\ r.edge \in {"any", "trim", "perfect"} /\ r.gray \in BOOLEAN
  /\ r.crop[1] \in Nat /\ r.crop[2] \in Nat /\ r.crop[3] \in Nat /\ r.crop[4] \in Nat

LEMMA UnitIs ==
  ASSUME NEW f, IsFrame(f), NEW r, IsRequest(r), NEW unit, unit = iMCU(f, r),
         NEW full, full = Transformed(f, r)
  PROVE  /\ unit[1] \in Nat \ {0} /\ unit[2] \in Nat \ {0}
         /\ full[1] \in Nat \ {0} /\ full[2] \in Nat \ {0}
<1> DEFINE one == Components(f, r) = 1
           w == (IF one THEN 1 ELSE MaxH(f.samp)) * BlockSide
           h == (IF one THEN 1 ELSE MaxV(f.samp)) * BlockSide
<1>1. MaxH(f.samp) \in 1..4 /\ MaxV(f.samp) \in 1..4
  BY MaxIs DEF IsFrame, LargestH, LargestV
<1>2. w \in Nat \ {0} /\ h \in Nat \ {0}
  <2> HIDE DEF one
  <2> QED BY <1>1 DEF BlockSide
<1>3. unit = IF r.transform \in Transposing THEN <<h, w>> ELSE <<w, h>>
  BY DEF iMCU
<1> HIDE DEF one, w, h
<1>4. unit[1] \in Nat \ {0} /\ unit[2] \in Nat \ {0}
  BY <1>2, <1>3
<1>5. full[1] \in Nat \ {0} /\ full[2] \in Nat \ {0}
  BY DEF Transformed, IsFrame
<1> QED BY <1>4, <1>5

(* One axis of a grant. *)
GrantedAxis(trims, u, full, at, out) ==
  /\ at \in Nat /\ out \in Nat \ {0} /\ at * u + out <= full
  /\ trims /\ out >= u => at * u + out <= (full \div u) * u

(* A perfect transformation mirrors whole units only. *)
Perfect(r, unit, full) ==
  /\ r.transform \in MirrorsX => full[1] % unit[1] = 0
  /\ r.transform \in MirrorsY => full[2] % unit[2] = 0

LEMMA PerfectIs ==
  ASSUME NEW f, IsFrame(f), NEW r, IsRequest(r),
         NEW a, NEW b, a = (IF Components(f, r) = 1 THEN BlockSide ELSE MaxH(f.samp) * BlockSide),
         b = (IF Components(f, r) = 1 THEN BlockSide ELSE MaxV(f.samp) * BlockSide),
         jtransform_perfect_transform(f.w, f.h, a, b, r.transform)
  PROVE  Perfect(r, iMCU(f, r), Transformed(f, r))
<1>1. MaxH(f.samp) \in 1..4 /\ MaxV(f.samp) \in 1..4
  BY MaxIs DEF IsFrame, LargestH, LargestV
<1>2. iMCU(f, r) = IF r.transform \in Transposing THEN <<b, a>> ELSE <<a, b>>
  BY <1>1 DEF iMCU, BlockSide
<1>3. Transformed(f, r) = IF r.transform \in Transposing THEN <<f.h, f.w>> ELSE <<f.w, f.h>>
  BY DEF Transformed
<1>4. /\ r.transform \in {"flip_h", "rot_270", "transverse", "rot_180"} => f.w % a = 0
      /\ r.transform \in {"flip_v", "rot_90", "transverse", "rot_180"} => f.h % b = 0
  BY DEF jtransform_perfect_transform
<1> DEFINE fw == f.w % a
           fh == f.h % b
<1>5. CASE r.transform \in Transposing
  <2>1. /\ iMCU(f, r)[1] = b /\ iMCU(f, r)[2] = a
        /\ Transformed(f, r)[1] = f.h /\ Transformed(f, r)[2] = f.w
    BY <1>2, <1>3, <1>5
  <2>2. /\ r.transform \in MirrorsX => f.h % b = 0
        /\ r.transform \in MirrorsY => f.w % a = 0
    BY <1>4, <1>5 DEF MirrorsX, MirrorsY, Transposing
  <2> QED BY <2>1, <2>2, Zenon DEF Perfect
<1>6. CASE r.transform \notin Transposing
  <2>1. /\ iMCU(f, r)[1] = a /\ iMCU(f, r)[2] = b
        /\ Transformed(f, r)[1] = f.w /\ Transformed(f, r)[2] = f.h
    BY <1>2, <1>3, <1>6
  <2>2. /\ r.transform \in MirrorsX => f.w % a = 0
        /\ r.transform \in MirrorsY => f.h % b = 0
    BY <1>4, <1>6 DEF MirrorsX, MirrorsY, Transposing
  <2> QED BY <2>1, <2>2, Zenon DEF Perfect
<1> QED BY <1>5, <1>6

(* An axis: what is left of the picture after the crop, and then of that    *)
(* after the trim.                                                         *)
CropOf(crop, sizeSet, offsetSet, size, offset, full, unit) ==
  IF ~crop THEN <<full, 0>> ELSE Cropped(sizeSet, Extent(sizeSet, offsetSet, size, offset, full), unit)

AxisSuits(crop, kind, b, l, full, unit, trims, byTrim, at, out) ==
  /\ GrantedAxis(byTrim, unit, full, at, out)
  /\ crop => Covers(kind, trims, b, l, unit, at, out)

AxisAsked(crop, sizeSet, offsetSet, size, offset, full, trims, byTrim) ==
  /\ crop \in BOOLEAN /\ trims \in BOOLEAN /\ byTrim \in BOOLEAN /\ (byTrim => trims)
  /\ crop => Extent(sizeSet, offsetSet, size, offset, full).ok

LEMMA AxisGranted ==
  ASSUME NEW crop, NEW sizeSet, NEW offsetSet, NEW size \in Nat, NEW offset \in Nat,
         NEW full \in Nat \ {0}, NEW unit \in Nat \ {0}, NEW trims, NEW byTrim,
         AxisAsked(crop, sizeSet, offsetSet, size, offset, full, trims, byTrim),
         NEW o, o = CropOf(crop, sizeSet, offsetSet, size, offset, full, unit),
         NEW out, out = IF byTrim THEN trim_edge(o[1], o[2], unit, full) ELSE o[1]
  PROVE  AxisSuits(crop, sizeSet, Begins(sizeSet, offsetSet, size, offset, full),
                   Lasts(sizeSet, offsetSet, size, offset, full), full, unit, trims, byTrim, o[2], out)
<1> USE DEF AxisSuits, AxisAsked
<1> DEFINE e == Extent(sizeSet, offsetSet, size, offset, full)
           b == Begins(sizeSet, offsetSet, size, offset, full)
           l == Lasts(sizeSet, offsetSet, size, offset, full)
<1>1. e.at = b /\ e.size = l
  BY DEF Begins, Lasts
<1> HIDE DEF b, l, e
<1>2. /\ o[1] \in Nat \ {0} /\ o[2] \in Nat /\ o[2] * unit + o[1] <= full
      /\ crop => Covers(sizeSet, FALSE, b, l, unit, o[2], o[1]) /\ b \in Nat /\ l \in Nat
  <2>1. CASE ~crop
    <3>1. o[1] = full /\ o[2] = 0
      BY <2>1 DEF CropOf
    <3> DEFINE n == o[1]
               k == o[2]
    <3>2. n = full /\ k = 0
      BY <3>1
    <3> HIDE DEF n, k
    <3>3. n \in Nat \ {0} /\ k \in Nat /\ k * unit + n <= full
      BY <3>2
    <3> QED BY <2>1, <3>3 DEF n, k
  <2>2. CASE crop
    <3>1. e.at \in Nat /\ e.size \in Nat \ {0} /\ e.at + e.size <= full
      BY <2>2, ExtentIs DEF e
    <3>2. o = Cropped(sizeSet, e, unit)
      BY <2>2 DEF CropOf, e
    <3>3. /\ o[1] \in Nat \ {0} /\ o[2] \in Nat /\ o[2] * unit + o[1] <= full
          /\ Covers(sizeSet, FALSE, e.at, e.size, unit, o[2], o[1])
      BY <3>1, <3>2, CroppedIs
    <3> QED BY <3>1, <3>3, <1>1
  <2> QED BY <2>1, <2>2
<1>3. CASE ~byTrim
  <2>1. out = o[1]
    BY <1>3
  <2> QED BY <2>1, <1>2, <1>3 DEF GrantedAxis, Covers, b, l
<1>4. CASE byTrim
  <2>1. out = trim_edge(o[1], o[2], unit, full)
    BY <1>4
  <2>2. /\ out \in Nat \ {0} /\ out <= o[1] /\ o[1] - unit < out /\ o[2] * unit + out <= full
        /\ out >= unit => o[2] * unit + out <= (full \div unit) * unit
    <3> DEFINE n == o[1]
               k == o[2]
    <3>1. n \in Nat \ {0} /\ k \in Nat /\ k * unit + n <= full /\ out = trim_edge(n, k, unit, full)
      BY <1>2, <2>1
    <3> HIDE DEF n, k
    <3> QED BY <3>1, TrimIs DEF n, k
  <2>3. GrantedAxis(byTrim, unit, full, o[2], out)
    BY <1>2, <2>2 DEF GrantedAxis
  <2>4. ASSUME crop PROVE Covers(sizeSet, trims, b, l, unit, o[2], out)
    <3>1. trims
      BY <1>4
    <3> DEFINE at == o[2] * unit
               n == o[1]
    <3>2. at \in Int /\ n \in Nat /\ out \in Nat /\ n - unit < out
      BY <1>2, <2>2
    <3>3. at <= b /\ (sizeSet # "force" => at + n = b + l) /\ b \in Nat /\ l \in Nat
      BY <1>2, <2>4 DEF Covers
    <3> HIDE DEF at, n
    <3>4. /\ at <= b
          /\ sizeSet # "force" /\ ~trims => at + out = b + l
          /\ sizeSet # "force" /\ out >= unit => at + out > b + l - unit
      BY <3>1, <3>2, <3>3
    <3> QED BY <3>4 DEF Covers, at
  <2> QED BY <2>3, <2>4 DEF b, l
<1> QED BY <1>3, <1>4

IsCrop(c) == c.crop \in BOOLEAN
CropAllowed(f, r, c) == c.crop => CropFits(c, r, Transformed(f, r))
PerfectIfAsked(f, r) == r.edge = "perfect" => Perfect(r, iMCU(f, r), Transformed(f, r))
Trims(r) == r.edge = "trim"
TrimsW(r) == r.edge = "trim" /\ r.transform \in TrimsRight
TrimsH(r) == r.edge = "trim" /\ r.transform \in TrimsBottom

Granted(f, r, slow, inf) ==
  /\ inf.n = Components(f, r)
  /\ GrantedAxis(TrimsW(r), iMCU(f, r)[1], Transformed(f, r)[1], inf.x, inf.w)
  /\ GrantedAxis(TrimsH(r), iMCU(f, r)[2], Transformed(f, r)[2], inf.y, inf.h)
  /\ inf.workspace = needs_workspace(r.transform, inf.x, inf.y, slow)
  /\ PerfectIfAsked(f, r)

\* The same for the region, c being the crop.
ShowsBoth(f, r, c, inf) ==
  /\ Covers(c.width, Trims(r),
            Begins(c.width, c.xoffset, r.crop[1], r.crop[3], Transformed(f, r)[1]),
            Lasts(c.width, c.xoffset, r.crop[1], r.crop[3], Transformed(f, r)[1]),
            iMCU(f, r)[1], inf.x, inf.w)
  /\ Covers(c.height, Trims(r),
            Begins(c.height, c.yoffset, r.crop[2], r.crop[4], Transformed(f, r)[2]),
            Lasts(c.height, c.yoffset, r.crop[2], r.crop[4], Transformed(f, r)[2]),
            iMCU(f, r)[2], inf.y, inf.h)

Answer(f, r, slow, c, inf) == Granted(f, r, slow, inf) /\ (c.crop => ShowsBoth(f, r, c, inf))

LEMMA WorkspaceGrants ==
  ASSUME NEW f, IsFrame(f), NEW r, IsRequest(r), NEW slow, NEW c, IsCrop(c),
         CropAllowed(f, r, c),
         PerfectIfAsked(f, r),
         NEW inf,
         inf = Workspace(r, Components(f, r), CropX(c, r, iMCU(f, r), Transformed(f, r)),
                         CropY(c, r, iMCU(f, r), Transformed(f, r)), iMCU(f, r), Transformed(f, r), slow)
  PROVE  inf.ret = "requested" /\ Answer(f, r, slow, c, inf)
<1> DEFINE unit == iMCU(f, r)
           full == Transformed(f, r)
           ox == CropX(c, r, unit, full)
           oy == CropY(c, r, unit, full)
           trims == Trims(r)
           tr == TrimsW(r)
           tb == TrimsH(r)
           w == IF tr THEN trim_edge(ox[1], ox[2], unit[1], full[1]) ELSE ox[1]
           h == IF tb THEN trim_edge(oy[1], oy[2], unit[2], full[2]) ELSE oy[1]
           n == Components(f, r)
           ws == needs_workspace(r.transform, ox[2], oy[2], slow)
<1>1. /\ unit[1] \in Nat \ {0} /\ unit[2] \in Nat \ {0}
      /\ full[1] \in Nat \ {0} /\ full[2] \in Nat \ {0}
  BY UnitIs
<1>2. inf = [ret |-> "requested", n |-> n, x |-> ox[2], y |-> oy[2], slow |-> slow,
             w |-> w, h |-> h, workspace |-> ws]
  BY DEF Workspace, TrimsW, TrimsH
<1>3. trims \in BOOLEAN /\ tr \in BOOLEAN /\ tb \in BOOLEAN /\ (tr => trims) /\ (tb => trims)
  BY DEF Trims, TrimsW, TrimsH
<1>4. /\ r.crop[1] \in Nat /\ r.crop[2] \in Nat /\ r.crop[3] \in Nat /\ r.crop[4] \in Nat
  BY DEF IsRequest
<1>5. /\ c.crop \in BOOLEAN /\ (c.crop => Extent(c.width, c.xoffset, r.crop[1], r.crop[3], full[1]).ok)
      /\ (c.crop => Extent(c.height, c.yoffset, r.crop[2], r.crop[4], full[2]).ok)
  BY DEF CropFits, CropAllowed, IsCrop
<1>6. ox = CropOf(c.crop, c.width, c.xoffset, r.crop[1], r.crop[3], full[1], unit[1])
  BY DEF CropX, CropOf
<1>7. oy = CropOf(c.crop, c.height, c.yoffset, r.crop[2], r.crop[4], full[2], unit[2])
  BY DEF CropY, CropOf
<1>8. w = (IF tr THEN trim_edge(ox[1], ox[2], unit[1], full[1]) ELSE ox[1])
  OBVIOUS
<1>9. h = (IF tb THEN trim_edge(oy[1], oy[2], unit[2], full[2]) ELSE oy[1])
  OBVIOUS
<1> HIDE DEF unit, full, ox, oy, trims, tr, tb, w, h, n, ws
<1>10. /\ inf.ret = "requested" /\ inf.n = n /\ inf.x = ox[2] /\ inf.y = oy[2] /\ inf.w = w /\ inf.h = h
       /\ inf.workspace = ws
  BY <1>2
<1>11. /\ GrantedAxis(tr, unit[1], full[1], ox[2], w)
       /\ c.crop => Covers(c.width, trims,
                           Begins(c.width, c.xoffset, r.crop[1], r.crop[3], full[1]),
                           Lasts(c.width, c.xoffset, r.crop[1], r.crop[3], full[1]), unit[1], ox[2], w)
  <2>1. AxisSuits(c.crop, c.width, Begins(c.width, c.xoffset, r.crop[1], r.crop[3], full[1]),
                  Lasts(c.width, c.xoffset, r.crop[1], r.crop[3], full[1]), full[1], unit[1],
                  trims, tr, ox[2], w)
    <3>1. AxisAsked(c.crop, c.width, c.xoffset, r.crop[1], r.crop[3], full[1], trims, tr)
      BY <1>3, <1>5 DEF AxisAsked
    <3> QED BY <3>1, <1>1, <1>4, <1>6, <1>8, AxisGranted, Zenon
  <2> QED BY <2>1, Zenon DEF AxisSuits
<1>12. /\ GrantedAxis(tb, unit[2], full[2], oy[2], h)
       /\ c.crop => Covers(c.height, trims,
                           Begins(c.height, c.yoffset, r.crop[2], r.crop[4], full[2]),
                           Lasts(c.height, c.yoffset, r.crop[2], r.crop[4], full[2]), unit[2], oy[2], h)
  <2>1. AxisSuits(c.crop, c.height, Begins(c.height, c.yoffset, r.crop[2], r.crop[4], full[2]),
                  Lasts(c.height, c.yoffset, r.crop[2], r.crop[4], full[2]), full[2], unit[2],
                  trims, tb, oy[2], h)
    <3>1. AxisAsked(c.crop, c.height, c.yoffset, r.crop[2], r.crop[4], full[2], trims, tb)
      BY <1>3, <1>5 DEF AxisAsked
    <3> QED BY <3>1, <1>1, <1>4, <1>7, <1>9, AxisGranted, Zenon
  <2> QED BY <2>1, Zenon DEF AxisSuits
<1>13. Granted(f, r, slow, inf)
  <2>1. ws = needs_workspace(r.transform, inf.x, inf.y, slow)
    BY <1>10 DEF ws
  <2>2. GrantedAxis(tr, unit[1], full[1], inf.x, inf.w) /\ GrantedAxis(tb, unit[2], full[2], inf.y, inf.h)
    BY <1>10, <1>11, <1>12
  <2> QED BY <2>1, <2>2, <1>10, Zenon DEF Granted, tr, tb, unit, full, n
<1>14. c.crop => ShowsBoth(f, r, c, inf)
  BY <1>10, <1>11, <1>12, Zenon DEF ShowsBoth, trims, unit, full
<1> QED BY <1>10, <1>13, <1>14 DEF Answer

(* What a request comes to. *)
LEMMA RequestIs ==
  ASSUME NEW f, IsFrame(f), NEW r, IsRequest(r), NEW slow,
         NEW c, c = jtransform_parse_crop_spec(r.spec), IsCrop(c),
         NEW inf, inf = jtransform_request_workspace(f, r, slow)
  PROVE  /\ inf.ret \in {"requested", "imperfect", "JERR_BAD_CROP_SPEC"}
         /\ inf.ret = "requested" => Answer(f, r, slow, c, inf)
<1> DEFINE unit == iMCU(f, r)
           full == Transformed(f, r)
           n == Components(f, r)
           u == IF n = 1 THEN <<BlockSide, BlockSide>>
                         ELSE <<MaxH(f.samp) * BlockSide, MaxV(f.samp) * BlockSide>>
           imperfect == r.edge = "perfect" /\ ~jtransform_perfect_transform(f.w, f.h, u[1], u[2], r.transform)
           unfit == c.crop /\ ~CropFits(c, r, full)
           given == Workspace(r, n, CropX(c, r, unit, full), CropY(c, r, unit, full), unit, full, slow)
<1>1. inf = IF imperfect THEN [ret |-> "imperfect"]
            ELSE IF unfit THEN [ret |-> "JERR_BAD_CROP_SPEC"] ELSE given
  BY DEF jtransform_request_workspace, RequestCropped
<1>2. CASE imperfect
  <2> HIDE DEF imperfect, unfit, given
  <2>1. inf.ret = "imperfect"
    BY <1>1, <1>2
  <2> QED BY <2>1
<1>3. CASE ~imperfect /\ unfit
  <2> HIDE DEF imperfect, unfit, given
  <2>1. inf.ret = "JERR_BAD_CROP_SPEC"
    BY <1>1, <1>3
  <2> QED BY <2>1
<1>4. CASE ~imperfect /\ ~unfit
  <2>1. inf = given
    <3> HIDE DEF imperfect, unfit, given
    <3> QED BY <1>1, <1>4
  <2>2. CropAllowed(f, r, c)
    BY <1>4 DEF CropAllowed
  <2>3. PerfectIfAsked(f, r)
    <3> SUFFICES ASSUME r.edge = "perfect" PROVE Perfect(r, unit, full)
      BY DEF PerfectIfAsked
    <3>1. jtransform_perfect_transform(f.w, f.h, u[1], u[2], r.transform)
      BY <1>4, Zenon
    <3>2. /\ u[1] = (IF n = 1 THEN BlockSide ELSE MaxH(f.samp) * BlockSide)
          /\ u[2] = (IF n = 1 THEN BlockSide ELSE MaxV(f.samp) * BlockSide)
      OBVIOUS
    <3> HIDE DEF u
    <3> QED BY <3>1, <3>2, PerfectIs
  <2> HIDE DEF imperfect, unfit, u
  <2>4. inf.ret = "requested" /\ Answer(f, r, slow, c, inf)
    BY <2>1, <2>2, <2>3, WorkspaceGrants, Zenon
  <2> QED BY <2>4
<1> QED BY <1>2, <1>3, <1>4

(* The form in which the region is asked about. *)
LEMMA ShowsIs ==
  ASSUME NEW r, NEW kind, NEW offsetKind, NEW size, NEW offset, NEW f, NEW u, NEW at, NEW out,
         Covers(kind, Trims(r), Begins(kind, offsetKind, size, offset, f),
                Lasts(kind, offsetKind, size, offset, f), u, at, out)
  PROVE  Shows(r, kind, offsetKind, size, offset, f, u, at, out)
<1> DEFINE z == IF offsetKind = "unset" THEN 0 ELSE offset
           l == IF kind = "unset" THEN f - z ELSE size
           b == IF offsetKind = "neg" THEN f - l - z ELSE z
           o == CASE offsetKind = "unset" -> 0 [] offsetKind = "neg" -> f - l - offset [] OTHER -> offset
           fits == z < f /\ 0 < l /\ l <= f /\ z <= f - l
<1>1. Extent(kind, offsetKind, size, offset, f) = [ok |-> fits, at |-> b, size |-> l]
  BY DEF Extent
<1>2. b = o
  OBVIOUS
<1> HIDE DEF b, l, fits, o, z
<1>3. Begins(kind, offsetKind, size, offset, f) = b /\ Lasts(kind, offsetKind, size, offset, f) = l
  BY <1>1 DEF Begins, Lasts
<1>4. Covers(kind, Trims(r), o, l, u, at, out)
  BY <1>2, <1>3
<1> QED BY <1>4 DEF Shows, Covers, Trims, o, l, z

(***************************************************************************)
(* The frame of the destination, and what of the source it shows.          *)
(***************************************************************************)
LEMMA PaddedHas ==
  ASSUME NEW f, IsFrame(f), NEW c \in DOMAIN f.samp,
         NEW x \in 0..BlocksWide(f, c) - 1, NEW y \in 0..BlocksHigh(f, c) - 1
  PROVE  <<x, y>> \in Padded(f, c)
<1>1. /\ f.samp[c][1] \in 1..4 /\ f.samp[c][2] \in 1..4 /\ f.w \in Nat /\ f.h \in Nat
      /\ MaxH(f.samp) \in 1..4 /\ MaxV(f.samp) \in 1..4
  BY MaxIs DEF IsFrame, Sampling, Factors, LargestH, LargestV
<1> DEFINE k == f.samp[c][1]
           l == f.samp[c][2]
           w == BlocksWide(f, c)
           h == BlocksHigh(f, c)
<1>2. w \in Nat /\ h \in Nat
  <2>1. /\ f.w * k \in Nat /\ f.h * l \in Nat
        /\ MaxH(f.samp) * BlockSide \in Nat \ {0} /\ MaxV(f.samp) * BlockSide \in Nat \ {0}
    BY <1>1, SMT DEF BlockSide
  <2> QED BY <2>1, CeilIs, Zenon DEF BlocksWide, BlocksHigh
<1>3. Padded(f, c) = (0..CeilDiv(w, k) * k - 1) \X (0..CeilDiv(h, l) * l - 1)
  BY DEF Padded
<1> HIDE DEF k, l, w, h
<1>4. CeilDiv(w, k) * k \in Int /\ w <= CeilDiv(w, k) * k
  <2>1. k \in Nat \ {0}
    BY <1>1 DEF k
  <2>2. CeilDiv(w, k) \in Nat /\ w <= k * CeilDiv(w, k)
    BY <2>1, <1>2, CeilIs
  <2> QED BY <2>1, <2>2, SMT
<1>5. CeilDiv(h, l) * l \in Int /\ h <= CeilDiv(h, l) * l
  <2>1. l \in Nat \ {0}
    BY <1>1 DEF l
  <2>2. CeilDiv(h, l) \in Nat /\ h <= l * CeilDiv(h, l)
    BY <2>1, <1>2, CeilIs
  <2> QED BY <2>1, <2>2, SMT
<1>6. x \in 0..w - 1 /\ y \in 0..h - 1
  BY DEF w, h
<1> DEFINE a == CeilDiv(w, k) * k
           b == CeilDiv(h, l) * l
<1>7. a \in Int /\ b \in Int /\ w <= a /\ h <= b
  BY <1>4, <1>5
<1> HIDE DEF a, b
<1>8. x \in 0..a - 1 /\ y \in 0..b - 1
  BY <1>2, <1>6, <1>7
<1> QED BY <1>3, <1>8 DEF a, b

(* A component of full resolution has the blocks of a lone one. *)
LEMMA LoneBlocks ==
  ASSUME NEW n \in Nat \ {0}, NEW m \in 1..4
  PROVE  CeilDiv(n * 1, 1 * 2) = CeilDiv(n * m, m * 2)
<1> DEFINE q == CeilDiv(n, 2)
<1>1. q \in Nat /\ n <= 2 * q /\ 2 * (q - 1) < n
  BY CeilIs
<1> HIDE DEF q
<1>2. n * m \in Nat /\ m * 2 \in Nat \ {0} /\ m \in Nat \ {0}
  BY SMT
<1>3. n * m <= (2 * q) * m /\ (2 * (q - 1)) * m < n * m
  BY <1>1, <1>2, TimesLess
<1>4. (2 * q) * m = (m * 2) * q /\ (2 * (q - 1)) * m = (m * 2) * (q - 1)
  BY <1>1, SMT
<1>5. CeilDiv(n * m, m * 2) = q
  <2>1. n * m <= (m * 2) * q /\ (m * 2) * (q - 1) < n * m
    BY <1>3, <1>4
  <2> QED BY <2>1, <1>1, <1>2, CeilTight
<1> QED BY <1>5 DEF q

\* Where block (x, y) of the transformed picture is in the picture.
Source(r, x, y) == IF r.transform \in Transposing THEN <<y, x>> ELSE <<x, y>>

(* The frame d is large enough for what the picture f becomes. *)
Destination(f, r, d) ==
  /\ Sampling(d.samp) /\ DOMAIN d.samp \subseteq DOMAIN f.samp
  /\ iMCU(f, r)[1] = 2 * MaxH(d.samp) /\ iMCU(f, r)[2] = 2 * MaxV(d.samp)
  /\ \A c \in DOMAIN d.samp :
       \A x \in 0..CeilDiv(Transformed(f, r)[1] * d.samp[c][1], MaxH(d.samp) * 2) - 1,
          y \in 0..CeilDiv(Transformed(f, r)[2] * d.samp[c][2], MaxV(d.samp) * 2) - 1 :
         Source(r, x, y) \in Padded(f, c)

\* A gray picture is one of full resolution.
GrayFits(f, r) == r.gray => f.samp[1] = <<MaxH(f.samp), MaxV(f.samp)>>

LEMMA LoneIsFull ==
  ASSUME NEW f, IsFrame(f), NEW r, IsRequest(r), GrayFits(f, r), Components(f, r) = 1
  PROVE  1 \in DOMAIN f.samp /\ f.samp[1][1] = MaxH(f.samp) /\ f.samp[1][2] = MaxV(f.samp)
<1>1. 1 \in DOMAIN f.samp
  BY DEF IsFrame
<1>2. CASE r.gray
  <2>1. f.samp[1] = <<MaxH(f.samp), MaxV(f.samp)>>
    BY <1>2 DEF GrayFits
  <2> QED BY <1>1, <2>1
<1>3. CASE ~r.gray
  <2>1. Len(f.samp) = 1
    BY <1>3 DEF Components
  <2>2. DOMAIN f.samp = {1}
    BY <2>1 DEF IsFrame
  <2>3. LargestH(f.samp, MaxH(f.samp)) /\ LargestV(f.samp, MaxV(f.samp))
    BY MaxIs DEF IsFrame
  <2> QED BY <2>2, <2>3 DEF LargestH, LargestV
<1> QED BY <1>2, <1>3

LEMMA DestinationIs ==
  ASSUME NEW f, IsFrame(f), NEW r, IsRequest(r), GrayFits(f, r), NEW inf, inf.n = Components(f, r),
         NEW d, d = jtransform_adjust_parameters(f, r, inf)
  PROVE  d.w = inf.w /\ d.h = inf.h /\ Destination(f, r, d)
<1> DEFINE lone == Components(f, r) = 1
           samp == IF lone THEN One ELSE f.samp
           turns == r.transform \in Transposing
           turned == transpose_critical_parameters(samp)
<1>1. /\ d.w = inf.w /\ d.h = inf.h /\ d.samp = IF turns THEN turned ELSE samp
  BY DEF jtransform_adjust_parameters, One
<1>2. Sampling(f.samp) /\ f.w \in Nat \ {0} /\ f.h \in Nat \ {0}
  BY DEF IsFrame
<1>3. /\ MaxH(f.samp) \in 1..4 /\ MaxV(f.samp) \in 1..4
      /\ \A c \in DOMAIN f.samp : f.samp[c][1] \in 1..4 /\ f.samp[c][2] \in 1..4
  BY <1>2, MaxIs DEF Sampling, Factors, LargestH, LargestV
<1>4. /\ Sampling(samp) /\ DOMAIN samp \subseteq DOMAIN f.samp
      /\ MaxH(samp) = (IF lone THEN 1 ELSE MaxH(f.samp)) /\ MaxV(samp) = (IF lone THEN 1 ELSE MaxV(f.samp))
  <2>1. CASE lone
    <3>1. 1 \in DOMAIN f.samp
      BY <2>1, LoneIsFull
    <3> QED BY <2>1, <3>1, OneIs
  <2>2. CASE ~lone
    BY <2>2, <1>2
  <2> QED BY <2>1, <2>2
<1> DEFINE W(c) == CeilDiv(f.w * samp[c][1], MaxH(samp) * 2)
           H(c) == CeilDiv(f.h * samp[c][2], MaxV(samp) * 2)
<1>5. ASSUME NEW c \in DOMAIN samp
      PROVE  W(c) = BlocksWide(f, c) /\ H(c) = BlocksHigh(f, c)
  <2>1. CASE lone
    <3>1. c = 1 /\ samp[c][1] = 1 /\ samp[c][2] = 1
      BY <2>1, OneIs
    <3>2. f.samp[1][1] = MaxH(f.samp) /\ f.samp[1][2] = MaxV(f.samp)
      BY <2>1, LoneIsFull
    <3>3. W(c) = CeilDiv(f.w * 1, 1 * 2) /\ H(c) = CeilDiv(f.h * 1, 1 * 2)
      BY <2>1, <1>4, <3>1
    <3>4. /\ BlocksWide(f, c) = CeilDiv(f.w * MaxH(f.samp), MaxH(f.samp) * 2)
          /\ BlocksHigh(f, c) = CeilDiv(f.h * MaxV(f.samp), MaxV(f.samp) * 2)
      BY <3>1, <3>2 DEF BlocksWide, BlocksHigh, BlockSide
    <3> HIDE DEF W, H
    <3> QED BY <3>3, <3>4, <1>2, <1>3, LoneBlocks
  <2>2. CASE ~lone
    BY <2>2 DEF BlocksWide, BlocksHigh, BlockSide
  <2> QED BY <2>1, <2>2
<1>6. ASSUME NEW c \in DOMAIN samp, NEW x \in 0..W(c) - 1, NEW y \in 0..H(c) - 1
      PROVE  <<x, y>> \in Padded(f, c)
  <2>1. x \in 0..BlocksWide(f, c) - 1 /\ y \in 0..BlocksHigh(f, c) - 1 /\ c \in DOMAIN f.samp
    <3> HIDE DEF W, H, samp
    <3> QED BY <1>4, <1>5, <1>6
  <2> QED BY <2>1, PaddedHas
<1>7. iMCU(f, r) = LET a == (IF lone THEN 1 ELSE MaxH(f.samp)) * 2
                       b == (IF lone THEN 1 ELSE MaxV(f.samp)) * 2
                   IN IF turns THEN <<b, a>> ELSE <<a, b>>
  BY DEF iMCU, BlockSide
<1>8. iMCU(f, r) = IF turns THEN <<MaxV(samp) * 2, MaxH(samp) * 2>> ELSE <<MaxH(samp) * 2, MaxV(samp) * 2>>
  <2> HIDE DEF lone, samp, turns
  <2> QED BY <1>4, <1>7
<1>9. Transformed(f, r) = IF turns THEN <<f.h, f.w>> ELSE <<f.w, f.h>>
  BY DEF Transformed
<1>10. MaxH(samp) \in 1..4 /\ MaxV(samp) \in 1..4
  BY <1>3, <1>4
<1> HIDE DEF lone, samp
<1>11. CASE ~turns
  <2>1. d.samp = samp /\ Transformed(f, r)[1] = f.w /\ Transformed(f, r)[2] = f.h
        /\ iMCU(f, r)[1] = 2 * MaxH(samp) /\ iMCU(f, r)[2] = 2 * MaxV(samp)
    BY <1>1, <1>8, <1>9, <1>10, <1>11
  <2>2. \A x, y : Source(r, x, y) = <<x, y>>
    BY <1>11 DEF Source
  <2> QED BY <1>1, <1>4, <1>6, <2>1, <2>2 DEF Destination
<1>12. CASE turns
  <2>1. /\ d.samp = turned /\ Transformed(f, r)[1] = f.h /\ Transformed(f, r)[2] = f.w
        /\ iMCU(f, r)[1] = 2 * MaxV(samp) /\ iMCU(f, r)[2] = 2 * MaxH(samp)
    BY <1>1, <1>8, <1>9, <1>10, <1>12
  <2>2. \A x, y : Source(r, x, y) = <<y, x>>
    BY <1>12 DEF Source
  <2>3. /\ Sampling(turned) /\ DOMAIN turned = DOMAIN samp
        /\ \A i \in DOMAIN samp : turned[i][1] = samp[i][2] /\ turned[i][2] = samp[i][1]
        /\ MaxH(turned) = MaxV(samp) /\ MaxV(turned) = MaxH(samp)
    BY <1>4, TransposedSampling
  <2> HIDE DEF turned
  <2> QED BY <1>1, <1>4, <1>6, <2>1, <2>2, <2>3 DEF Destination
<1> QED BY <1>11, <1>12

(***************************************************************************)
(* The blocks.                                                             *)
(***************************************************************************)
\* A block as it is in a picture, whatever its number.
IsBlock(b) == b[1] \in Int /\ b[2] = 1 /\ b[3] = 2 /\ b[4] = 4

LEMMA BlockIs ==
  ASSUME NEW f, IsFrame(f), NEW c \in DOMAIN f.samp, NEW x, NEW y, <<x, y>> \in Padded(f, c)
  PROVE  /\ <<x, y>> \in DOMAIN Picture(f).coefs[c] /\ IsBlock(Block(Picture(f).coefs[c], x, y))
<1> DEFINE a == Picture(f).coefs[c]
<1>1. a = [p \in Padded(f, c) |-> <<Number(c, p[1], p[2]), 1, 2, 4>>]
  BY DEF Picture
<1>2. x \in Int /\ y \in Int /\ c \in Int
  BY DEF Padded, IsFrame
<1>3. Number(c, x, y) \in Int
  BY <1>2 DEF Number
<1> HIDE DEF a
<1>4. DOMAIN a = Padded(f, c) /\ a[<<x, y>>] = <<Number(c, x, y), 1, 2, 4>>
  BY <1>1
<1>5. Block(a, x, y) = <<Number(c, x, y), 1, 2, 4>>
  BY <1>4 DEF Block
<1> QED BY <1>3, <1>4, <1>5 DEF IsBlock, a

CW(f, r, d, c) == CompWidth(Transformed(f, r)[1], d, c)
CH(f, r, d, c) == CompHeight(Transformed(f, r)[2], d, c)

\* Where block (x, y) of the transformed picture comes from, and the signs of its
\* odd columns and rows.
FromX(f, r, d, c, x) == IF r.transform \in MirrorsX /\ x < CW(f, r, d, c) THEN CW(f, r, d, c) - x - 1 ELSE x
FromY(f, r, d, c, y) == IF r.transform \in MirrorsY /\ y < CH(f, r, d, c) THEN CH(f, r, d, c) - y - 1 ELSE y
SignX(f, r, d, c, x) == IF r.transform \in MirrorsX /\ x < CW(f, r, d, c) THEN -1 ELSE 1
SignY(f, r, d, c, y) == IF r.transform \in MirrorsY /\ y < CH(f, r, d, c) THEN -1 ELSE 1

FromBlock(f, r, d, c, x, y) ==
  IF r.transform \in Transposing
  THEN Block(Picture(f).coefs[c], FromY(f, r, d, c, y), FromX(f, r, d, c, x))
  ELSE Block(Picture(f).coefs[c], FromX(f, r, d, c, x), FromY(f, r, d, c, y))

\* Along both axes: block (x, y) of component c is one of the transformed picture.
Within(f, r, d, c, x, y) ==
  /\ x \in 0..CeilDiv(Transformed(f, r)[1] * d.samp[c][1], MaxH(d.samp) * 2) - 1
  /\ y \in 0..CeilDiv(Transformed(f, r)[2] * d.samp[c][2], MaxV(d.samp) * 2) - 1

LEMMA FactorsAre ==
  ASSUME NEW f, NEW r, NEW d, Destination(f, r, d), NEW c \in DOMAIN d.samp
  PROVE  /\ d.samp[c][1] \in 1..4 /\ d.samp[c][2] \in 1..4
         /\ MaxH(d.samp) \in 1..4 /\ MaxV(d.samp) \in 1..4
         /\ Destination(f, r, d) /\ c \in DOMAIN f.samp
BY MaxIs DEF Destination, Sampling, Factors, LargestH, LargestV

LEMMA FromIs ==
  ASSUME NEW f, IsFrame(f), NEW r, IsRequest(r), NEW d, Destination(f, r, d), NEW c \in DOMAIN d.samp,
         NEW x, NEW y, Within(f, r, d, c, x, y)
  PROVE  /\ IsBlock(FromBlock(f, r, d, c, x, y))
         /\ Within(f, r, d, c, FromX(f, r, d, c, x), FromY(f, r, d, c, y))
<1>1. /\ d.samp[c][1] \in 1..4 /\ d.samp[c][2] \in 1..4 /\ c \in DOMAIN f.samp
      /\ MaxH(d.samp) \in 1..4 /\ MaxV(d.samp) \in 1..4
  BY FactorsAre
<1>2. Transformed(f, r)[1] \in Nat \ {0} /\ Transformed(f, r)[2] \in Nat \ {0}
  BY UnitIs
<1>3. /\ CW(f, r, d, c) = Mirrored(d.samp[c][1], MaxH(d.samp), Transformed(f, r)[1])
      /\ CH(f, r, d, c) = Mirrored(d.samp[c][2], MaxV(d.samp), Transformed(f, r)[2])
  BY DEF CW, CH, CompWidth, CompHeight, BlockSide, Mirrored
<1> DEFINE u == FromX(f, r, d, c, x)
           v == FromY(f, r, d, c, y)
<1>4. u \in 0..CeilDiv(Transformed(f, r)[1] * d.samp[c][1], MaxH(d.samp) * 2) - 1
  <2>1. CASE r.transform \in MirrorsX /\ x < CW(f, r, d, c)
    <3>1. u = CW(f, r, d, c) - x - 1
      BY <2>1 DEF FromX
    <3> QED BY <2>1, <3>1, <1>1, <1>2, <1>3, MirrorInside DEF Within
  <2>2. CASE ~(r.transform \in MirrorsX /\ x < CW(f, r, d, c))
    <3>1. u = x
      BY <2>2 DEF FromX
    <3> QED BY <3>1 DEF Within
  <2> QED BY <2>1, <2>2
<1>5. v \in 0..CeilDiv(Transformed(f, r)[2] * d.samp[c][2], MaxV(d.samp) * 2) - 1
  <2>1. CASE r.transform \in MirrorsY /\ y < CH(f, r, d, c)
    <3>1. v = CH(f, r, d, c) - y - 1
      BY <2>1 DEF FromY
    <3> QED BY <2>1, <3>1, <1>1, <1>2, <1>3, MirrorInside DEF Within
  <2>2. CASE ~(r.transform \in MirrorsY /\ y < CH(f, r, d, c))
    <3>1. v = y
      BY <2>2 DEF FromY
    <3> QED BY <3>1 DEF Within
  <2> QED BY <2>1, <2>2
<1> HIDE DEF u, v
<1>6. Source(r, u, v) \in Padded(f, c)
  BY <1>4, <1>5 DEF Destination
<1>7. IsBlock(IF r.transform \in Transposing THEN Block(Picture(f).coefs[c], v, u)
                                             ELSE Block(Picture(f).coefs[c], u, v))
  <2>1. CASE r.transform \in Transposing
    <3>1. <<v, u>> \in Padded(f, c)
      BY <1>6, <2>1 DEF Source
    <3>2. IsBlock(Block(Picture(f).coefs[c], v, u))
      BY <3>1, <1>1, BlockIs
    <3> QED BY <2>1, <3>2
  <2>2. CASE r.transform \notin Transposing
    <3>1. <<u, v>> \in Padded(f, c)
      BY <1>6, <2>2 DEF Source
    <3>2. IsBlock(Block(Picture(f).coefs[c], u, v))
      BY <3>1, <1>1, BlockIs
    <3> QED BY <2>2, <3>2
  <2> QED BY <2>1, <2>2
<1> QED BY <1>4, <1>5, <1>7 DEF u, v, FromBlock, Within

(* The axes of an output that was granted. *)
LEMMA AxesAre ==
  ASSUME NEW f, IsFrame(f), NEW r, IsRequest(r), NEW slow, NEW inf, Granted(f, r, slow, inf),
         NEW d, Destination(f, r, d), d.w = inf.w, d.h = inf.h, NEW c \in DOMAIN d.samp
  PROVE  /\ Axis(d.samp[c][1], MaxH(d.samp), Transformed(f, r)[1], d.w, inf.x)
         /\ Axis(d.samp[c][2], MaxV(d.samp), Transformed(f, r)[2], d.h, inf.y)
<1>1. /\ d.samp[c][1] \in 1..4 /\ d.samp[c][2] \in 1..4
      /\ MaxH(d.samp) \in 1..4 /\ MaxV(d.samp) \in 1..4
      /\ iMCU(f, r)[1] = 2 * MaxH(d.samp) /\ iMCU(f, r)[2] = 2 * MaxV(d.samp)
  BY FactorsAre DEF Destination
<1>2. Transformed(f, r)[1] \in Nat \ {0} /\ Transformed(f, r)[2] \in Nat \ {0}
  BY UnitIs
<1> QED BY <1>1, <1>2 DEF Granted, GrantedAxis, Axis

LEMMA ShownWithin ==
  ASSUME NEW f, IsFrame(f), NEW r, IsRequest(r), NEW slow, NEW inf, Granted(f, r, slow, inf),
         NEW d, Destination(f, r, d), d.w = inf.w, d.h = inf.h, NEW c \in DOMAIN d.samp,
         NEW p \in Shown(d, c)
  PROVE  Within(f, r, d, c, p[1] + inf.x * d.samp[c][1], p[2] + inf.y * d.samp[c][2])
<1>1. /\ Axis(d.samp[c][1], MaxH(d.samp), Transformed(f, r)[1], d.w, inf.x)
      /\ Axis(d.samp[c][2], MaxV(d.samp), Transformed(f, r)[2], d.h, inf.y)
  BY AxesAre
<1>2. /\ p[1] \in 0..CeilDiv(d.w * d.samp[c][1], MaxH(d.samp) * 2) - 1
      /\ p[2] \in 0..CeilDiv(d.h * d.samp[c][2], MaxV(d.samp) * 2) - 1
  BY DEF Shown, BlocksWide, BlocksHigh, BlockSide
<1> QED BY <1>1, <1>2, AxisInside DEF Within

\* v is the block b as the transformation turns it, sx and sy the signs of its odd
\* columns and rows.
IsTurned(r, v, b, sx, sy) ==
  /\ v[1] = b[1]
  /\ v[2] = sx * (IF r.transform \in Transposing THEN b[3] ELSE b[2])
  /\ v[3] = sy * (IF r.transform \in Transposing THEN b[2] ELSE b[3])
  /\ v[4] = (sx * sy) * b[4]

Placed(f, r, d, c, x, y, v) ==
  IsTurned(r, v, FromBlock(f, r, d, c, x, y), SignX(f, r, d, c, x), SignY(f, r, d, c, y))

LEMMA Turns ==
  ASSUME NEW r, NEW b, IsBlock(b)
  PROVE  /\ r.transform \notin Transposing =>
              /\ IsTurned(r, b, b, 1, 1) /\ IsTurned(r, OddColumns(b), b, -1, 1)
              /\ IsTurned(r, OddRows(b), b, 1, -1) /\ IsTurned(r, OddColumns(OddRows(b)), b, -1, -1)
         /\ r.transform \in Transposing =>
              /\ IsTurned(r, Transpose(b), b, 1, 1) /\ IsTurned(r, Transpose(OddRows(b)), b, -1, 1)
              /\ IsTurned(r, Transpose(OddColumns(b)), b, 1, -1)
              /\ IsTurned(r, Transpose(OddColumns(OddRows(b))), b, -1, -1)
<1>1. b[1] \in Int /\ b[2] = 1 /\ b[3] = 2 /\ b[4] = 4
  BY DEF IsBlock
<1>2. /\ OddColumns(b) = <<b[1], -1, 2, -4>> /\ OddRows(b) = <<b[1], 1, -2, -4>>
      /\ Transpose(b) = <<b[1], 2, 1, 4>>
  BY <1>1 DEF OddColumns, OddRows, Transpose
<1>3. /\ OddColumns(OddRows(b)) = <<b[1], -1, -2, 4>>
      /\ Transpose(OddRows(b)) = <<b[1], -2, 1, -4>>
      /\ Transpose(OddColumns(b)) = <<b[1], 2, -1, -4>>
  <2>1. OddRows(b)[1] = b[1] /\ OddRows(b)[2] = 1 /\ OddRows(b)[3] = -2 /\ OddRows(b)[4] = -4
    BY <1>2
  <2>2. OddColumns(b)[1] = b[1] /\ OddColumns(b)[2] = -1 /\ OddColumns(b)[3] = 2 /\ OddColumns(b)[4] = -4
    BY <1>2
  <2>3. -(-4) = 4
    <3>1. \A n \in Int : -(-n) = n
      OBVIOUS
    <3>2. 4 \in Int
      OBVIOUS
    <3> QED BY <3>1, <3>2, Zenon
  <2>4. OddColumns(OddRows(b)) = <<OddRows(b)[1], -OddRows(b)[2], OddRows(b)[3], -OddRows(b)[4]>>
    BY DEF OddColumns
  <2>5. OddColumns(OddRows(b)) = <<b[1], -1, -2, -(-4)>>
    BY <2>1, <2>4
  <2>6. /\ Transpose(OddRows(b)) = <<b[1], -2, 1, -4>>
        /\ Transpose(OddColumns(b)) = <<b[1], 2, -1, -4>>
    BY <2>1, <2>2 DEF Transpose
  <2> QED BY <2>3, <2>5, <2>6
<1>4. Transpose(OddColumns(OddRows(b))) = <<b[1], -2, -1, 4>>
  BY <1>3 DEF Transpose
<1>5. CASE r.transform \in Transposing
  BY <1>1, <1>2, <1>3, <1>4, <1>5 DEF IsTurned
<1>6. CASE r.transform \notin Transposing
  BY <1>1, <1>2, <1>3, <1>6 DEF IsTurned
<1> QED BY <1>5, <1>6

(* Block p of the workspace is block (x, y) of the transformed picture. *)
Executed(f, r, d, c, p, xo, yo, x, y) ==
  /\ p \in Shown(d, c) /\ x = p[1] + xo * d.samp[c][1] /\ y = p[2] + yo * d.samp[c][2]
  /\ Within(f, r, d, c, x, y)

LEMMA Executes ==
  ASSUME NEW f, IsFrame(f), NEW r, IsRequest(r), NEW d, Destination(f, r, d), NEW c \in DOMAIN d.samp,
         NEW p, NEW xo, NEW yo, NEW x, NEW y, Executed(f, r, d, c, p, xo, yo, x, y),
         NEW coefs, coefs = jtransform_execute_transform(Picture(f), d, r.transform, xo, yo)
  PROVE  p \in DOMAIN coefs[c] /\ Placed(f, r, d, c, x, y, coefs[c][p])
<1> DEFINE a == Picture(f).coefs[c]
           cw == CW(f, r, d, c)
           ch == CH(f, r, d, c)
           b == FromBlock(f, r, d, c, x, y)
<1>1. IsBlock(b)
  BY FromIs DEF Executed
<1>2. cw \in Int /\ ch \in Int /\ x \in Int /\ y \in Int
  <2>1. /\ d.samp[c][1] \in 1..4 /\ d.samp[c][2] \in 1..4
        /\ MaxH(d.samp) \in 1..4 /\ MaxV(d.samp) \in 1..4
    BY FactorsAre
  <2>2. Transformed(f, r)[1] \in Nat \ {0} /\ Transformed(f, r)[2] \in Nat \ {0}
    BY UnitIs
  <2>3. /\ cw = Mirrored(d.samp[c][1], MaxH(d.samp), Transformed(f, r)[1])
        /\ ch = Mirrored(d.samp[c][2], MaxV(d.samp), Transformed(f, r)[2])
    BY DEF CW, CH, CompWidth, CompHeight, BlockSide, Mirrored
  <2>4. /\ Mirrored(d.samp[c][1], MaxH(d.samp), Transformed(f, r)[1]) \in Nat
        /\ Mirrored(d.samp[c][2], MaxV(d.samp), Transformed(f, r)[2]) \in Nat
    BY <2>1, <2>2, MirroredIs, Zenon
  <2>5. cw \in Nat /\ ch \in Nat
    BY <2>3, <2>4, Zenon
  <2> QED BY <2>5 DEF Executed, Within
<1>3. Picture(f).w = f.w /\ Picture(f).h = f.h
  BY DEF Picture
<1>4. p \in Shown(d, c) /\ x = p[1] + xo * d.samp[c][1] /\ y = p[2] + yo * d.samp[c][2]
  BY DEF Executed
<1>5. /\ b = IF r.transform \in Transposing
              THEN Block(a, FromY(f, r, d, c, y), FromX(f, r, d, c, x))
              ELSE Block(a, FromX(f, r, d, c, x), FromY(f, r, d, c, y))
      /\ Placed(f, r, d, c, x, y, coefs[c][p]) <=>
           IsTurned(r, coefs[c][p], b, SignX(f, r, d, c, x), SignY(f, r, d, c, y))
  BY DEF FromBlock, Placed
<1>6. CASE r.transform = "none"
  <2>1. /\ Transformed(f, r)[1] = f.w /\ Transformed(f, r)[2] = f.h
        /\ r.transform \notin Transposing
        /\ r.transform \notin MirrorsX /\ r.transform \notin MirrorsY
    BY <1>6 DEF Transformed, Transposing, MirrorsX, MirrorsY
  <2>2. coefs = do_crop(Picture(f), d, xo, yo)
    BY <1>6 DEF jtransform_execute_transform
  <2>4. /\ DOMAIN coefs[c] = Shown(d, c)
        /\ coefs[c][p] = Block(a, x, y)
    <3> HIDE DEF a, cw, ch
    <3> QED BY <2>2, <1>4 DEF do_crop, Fill, a
  <2> HIDE DEF cw, ch, a, b
  <2>5. p \in DOMAIN coefs[c] /\ Placed(f, r, d, c, x, y, coefs[c][p])
    <3>1. /\ FromX(f, r, d, c, x) = x /\ FromY(f, r, d, c, y) = y
          /\ SignX(f, r, d, c, x) = 1 /\ SignY(f, r, d, c, y) = 1
      BY <2>1 DEF FromX, FromY, SignX, SignY, cw, ch
    <3>2. b = Block(a, x, y)
      BY <3>1, <1>5, <2>1
    <3>3. coefs[c][p] = b
      BY <3>2, <2>4, <1>2
    <3>4. IsTurned(r, coefs[c][p], b, 1, 1)
      BY <3>3, <2>1, <1>1, Turns
    <3> QED BY <3>1, <3>4, <2>4, <1>4, <1>5
  <2> QED BY <2>5
<1>7. CASE r.transform = "flip_h"
  <2>1. /\ Transformed(f, r)[1] = f.w /\ Transformed(f, r)[2] = f.h
        /\ r.transform \notin Transposing
        /\ r.transform \in MirrorsX /\ r.transform \notin MirrorsY
    BY <1>7 DEF Transformed, Transposing, MirrorsX, MirrorsY
  <2>2. coefs = do_flip_h(Picture(f), d, xo, yo)
    BY <1>7 DEF jtransform_execute_transform
  <2>3. cw = CompWidth(Picture(f).w, d, c)
    BY <2>1, <1>3 DEF CW, CH
  <2>4. /\ DOMAIN coefs[c] = Shown(d, c)
        /\ coefs[c][p] = IF x < cw THEN OddColumns(Block(a, cw - x - 1, y)) ELSE Block(a, x, y)
    <3> HIDE DEF a, cw, ch
    <3> QED BY <2>2, <2>3, <1>4 DEF do_flip_h, Fill, a
  <2> HIDE DEF cw, ch, a, b
  <2>5. CASE x < cw
    <3>1. /\ FromX(f, r, d, c, x) = cw - x - 1 /\ FromY(f, r, d, c, y) = y
          /\ SignX(f, r, d, c, x) = -1 /\ SignY(f, r, d, c, y) = 1
      BY <2>1, <2>5 DEF FromX, FromY, SignX, SignY, cw, ch
    <3>2. b = Block(a, cw - x - 1, y)
      BY <3>1, <1>5, <2>1
    <3>3. coefs[c][p] = OddColumns(b)
      BY <3>2, <2>4, <1>2, <2>5
    <3>4. IsTurned(r, coefs[c][p], b, -1, 1)
      BY <3>3, <2>1, <1>1, Turns
    <3> QED BY <3>1, <3>4, <2>4, <1>4, <1>5
  <2>6. CASE ~(x < cw)
    <3>1. /\ FromX(f, r, d, c, x) = x /\ FromY(f, r, d, c, y) = y
          /\ SignX(f, r, d, c, x) = 1 /\ SignY(f, r, d, c, y) = 1
      BY <2>1, <2>6 DEF FromX, FromY, SignX, SignY, cw, ch
    <3>2. b = Block(a, x, y)
      BY <3>1, <1>5, <2>1
    <3>3. coefs[c][p] = b
      BY <3>2, <2>4, <1>2, <2>6
    <3>4. IsTurned(r, coefs[c][p], b, 1, 1)
      BY <3>3, <2>1, <1>1, Turns
    <3> QED BY <3>1, <3>4, <2>4, <1>4, <1>5
  <2> QED BY <2>5, <2>6
<1>8. CASE r.transform = "flip_v"
  <2>1. /\ Transformed(f, r)[1] = f.w /\ Transformed(f, r)[2] = f.h
        /\ r.transform \notin Transposing
        /\ r.transform \notin MirrorsX /\ r.transform \in MirrorsY
    BY <1>8 DEF Transformed, Transposing, MirrorsX, MirrorsY
  <2>2. coefs = do_flip_v(Picture(f), d, xo, yo)
    BY <1>8 DEF jtransform_execute_transform
  <2>3. ch = CompHeight(Picture(f).h, d, c)
    BY <2>1, <1>3 DEF CW, CH
  <2>4. /\ DOMAIN coefs[c] = Shown(d, c)
        /\ coefs[c][p] = IF y < ch THEN OddRows(Block(a, x, ch - y - 1)) ELSE Block(a, x, y)
    <3> HIDE DEF a, cw, ch
    <3> QED BY <2>2, <2>3, <1>4 DEF do_flip_v, Fill, a
  <2> HIDE DEF cw, ch, a, b
  <2>5. CASE y < ch
    <3>1. /\ FromX(f, r, d, c, x) = x /\ FromY(f, r, d, c, y) = ch - y - 1
          /\ SignX(f, r, d, c, x) = 1 /\ SignY(f, r, d, c, y) = -1
      BY <2>1, <2>5 DEF FromX, FromY, SignX, SignY, cw, ch
    <3>2. b = Block(a, x, ch - y - 1)
      BY <3>1, <1>5, <2>1
    <3>3. coefs[c][p] = OddRows(b)
      BY <3>2, <2>4, <1>2, <2>5
    <3>4. IsTurned(r, coefs[c][p], b, 1, -1)
      BY <3>3, <2>1, <1>1, Turns
    <3> QED BY <3>1, <3>4, <2>4, <1>4, <1>5
  <2>6. CASE ~(y < ch)
    <3>1. /\ FromX(f, r, d, c, x) = x /\ FromY(f, r, d, c, y) = y
          /\ SignX(f, r, d, c, x) = 1 /\ SignY(f, r, d, c, y) = 1
      BY <2>1, <2>6 DEF FromX, FromY, SignX, SignY, cw, ch
    <3>2. b = Block(a, x, y)
      BY <3>1, <1>5, <2>1
    <3>3. coefs[c][p] = b
      BY <3>2, <2>4, <1>2, <2>6
    <3>4. IsTurned(r, coefs[c][p], b, 1, 1)
      BY <3>3, <2>1, <1>1, Turns
    <3> QED BY <3>1, <3>4, <2>4, <1>4, <1>5
  <2> QED BY <2>5, <2>6
<1>9. CASE r.transform = "transpose"
  <2>1. /\ Transformed(f, r)[1] = f.h /\ Transformed(f, r)[2] = f.w
        /\ r.transform \in Transposing
        /\ r.transform \notin MirrorsX /\ r.transform \notin MirrorsY
    BY <1>9 DEF Transformed, Transposing, MirrorsX, MirrorsY
  <2>2. coefs = do_transpose(Picture(f), d, xo, yo)
    BY <1>9 DEF jtransform_execute_transform
  <2>4. /\ DOMAIN coefs[c] = Shown(d, c)
        /\ coefs[c][p] = Transpose(Block(a, y, x))
    <3> HIDE DEF a, cw, ch
    <3> QED BY <2>2, <1>4 DEF do_transpose, Fill, a
  <2> HIDE DEF cw, ch, a, b
  <2>5. p \in DOMAIN coefs[c] /\ Placed(f, r, d, c, x, y, coefs[c][p])
    <3>1. /\ FromX(f, r, d, c, x) = x /\ FromY(f, r, d, c, y) = y
          /\ SignX(f, r, d, c, x) = 1 /\ SignY(f, r, d, c, y) = 1
      BY <2>1 DEF FromX, FromY, SignX, SignY, cw, ch
    <3>2. b = Block(a, y, x)
      BY <3>1, <1>5, <2>1
    <3>3. coefs[c][p] = Transpose(b)
      BY <3>2, <2>4, <1>2
    <3>4. IsTurned(r, coefs[c][p], b, 1, 1)
      BY <3>3, <2>1, <1>1, Turns
    <3> QED BY <3>1, <3>4, <2>4, <1>4, <1>5
  <2> QED BY <2>5
<1>10. CASE r.transform = "rot_90"
  <2>1. /\ Transformed(f, r)[1] = f.h /\ Transformed(f, r)[2] = f.w
        /\ r.transform \in Transposing
        /\ r.transform \in MirrorsX /\ r.transform \notin MirrorsY
    BY <1>10 DEF Transformed, Transposing, MirrorsX, MirrorsY
  <2>2. coefs = do_rot_90(Picture(f), d, xo, yo)
    BY <1>10 DEF jtransform_execute_transform
  <2>3. cw = CompWidth(Picture(f).h, d, c)
    BY <2>1, <1>3 DEF CW, CH
  <2>4. /\ DOMAIN coefs[c] = Shown(d, c)
        /\ coefs[c][p] = IF x < cw THEN Transpose(OddRows(Block(a, y, cw - x - 1))) ELSE Transpose(Block(a, y, x))
    <3> HIDE DEF a, cw, ch
    <3> QED BY <2>2, <2>3, <1>4 DEF do_rot_90, Fill, a
  <2> HIDE DEF cw, ch, a, b
  <2>5. CASE x < cw
    <3>1. /\ FromX(f, r, d, c, x) = cw - x - 1 /\ FromY(f, r, d, c, y) = y
          /\ SignX(f, r, d, c, x) = -1 /\ SignY(f, r, d, c, y) = 1
      BY <2>1, <2>5 DEF FromX, FromY, SignX, SignY, cw, ch
    <3>2. b = Block(a, y, cw - x - 1)
      BY <3>1, <1>5, <2>1
    <3>3. coefs[c][p] = Transpose(OddRows(b))
      BY <3>2, <2>4, <1>2, <2>5
    <3>4. IsTurned(r, coefs[c][p], b, -1, 1)
      BY <3>3, <2>1, <1>1, Turns
    <3> QED BY <3>1, <3>4, <2>4, <1>4, <1>5
  <2>6. CASE ~(x < cw)
    <3>1. /\ FromX(f, r, d, c, x) = x /\ FromY(f, r, d, c, y) = y
          /\ SignX(f, r, d, c, x) = 1 /\ SignY(f, r, d, c, y) = 1
      BY <2>1, <2>6 DEF FromX, FromY, SignX, SignY, cw, ch
    <3>2. b = Block(a, y, x)
      BY <3>1, <1>5, <2>1
    <3>3. coefs[c][p] = Transpose(b)
      BY <3>2, <2>4, <1>2, <2>6
    <3>4. IsTurned(r, coefs[c][p], b, 1, 1)
      BY <3>3, <2>1, <1>1, Turns
    <3> QED BY <3>1, <3>4, <2>4, <1>4, <1>5
  <2> QED BY <2>5, <2>6
<1>11. CASE r.transform = "rot_270"
  <2>1. /\ Transformed(f, r)[1] = f.h /\ Transformed(f, r)[2] = f.w
        /\ r.transform \in Transposing
        /\ r.transform \notin MirrorsX /\ r.transform \in MirrorsY
    BY <1>11 DEF Transformed, Transposing, MirrorsX, MirrorsY
  <2>2. coefs = do_rot_270(Picture(f), d, xo, yo)
    BY <1>11 DEF jtransform_execute_transform
  <2>3. ch = CompHeight(Picture(f).w, d, c)
    BY <2>1, <1>3 DEF CW, CH
  <2>4. /\ DOMAIN coefs[c] = Shown(d, c)
        /\ coefs[c][p] = IF y < ch THEN Transpose(OddColumns(Block(a, ch - y - 1, x))) ELSE Transpose(Block(a, y, x))
    <3> HIDE DEF a, cw, ch
    <3> QED BY <2>2, <2>3, <1>4 DEF do_rot_270, Fill, a
  <2> HIDE DEF cw, ch, a, b
  <2>5. CASE y < ch
    <3>1. /\ FromX(f, r, d, c, x) = x /\ FromY(f, r, d, c, y) = ch - y - 1
          /\ SignX(f, r, d, c, x) = 1 /\ SignY(f, r, d, c, y) = -1
      BY <2>1, <2>5 DEF FromX, FromY, SignX, SignY, cw, ch
    <3>2. b = Block(a, ch - y - 1, x)
      BY <3>1, <1>5, <2>1
    <3>3. coefs[c][p] = Transpose(OddColumns(b))
      BY <3>2, <2>4, <1>2, <2>5
    <3>4. IsTurned(r, coefs[c][p], b, 1, -1)
      BY <3>3, <2>1, <1>1, Turns
    <3> QED BY <3>1, <3>4, <2>4, <1>4, <1>5
  <2>6. CASE ~(y < ch)
    <3>1. /\ FromX(f, r, d, c, x) = x /\ FromY(f, r, d, c, y) = y
          /\ SignX(f, r, d, c, x) = 1 /\ SignY(f, r, d, c, y) = 1
      BY <2>1, <2>6 DEF FromX, FromY, SignX, SignY, cw, ch
    <3>2. b = Block(a, y, x)
      BY <3>1, <1>5, <2>1
    <3>3. coefs[c][p] = Transpose(b)
      BY <3>2, <2>4, <1>2, <2>6
    <3>4. IsTurned(r, coefs[c][p], b, 1, 1)
      BY <3>3, <2>1, <1>1, Turns
    <3> QED BY <3>1, <3>4, <2>4, <1>4, <1>5
  <2> QED BY <2>5, <2>6
<1>12. CASE r.transform = "rot_180"
  <2>1. /\ Transformed(f, r)[1] = f.w /\ Transformed(f, r)[2] = f.h
        /\ r.transform \notin Transposing
        /\ r.transform \in MirrorsX /\ r.transform \in MirrorsY
    BY <1>12 DEF Transformed, Transposing, MirrorsX, MirrorsY
  <2>2. coefs = do_rot_180(Picture(f), d, xo, yo)
    BY <1>12 DEF jtransform_execute_transform
  <2>3. cw = CompWidth(Picture(f).w, d, c) /\ ch = CompHeight(Picture(f).h, d, c)
    BY <2>1, <1>3 DEF CW, CH
  <2>4. /\ DOMAIN coefs[c] = Shown(d, c)
        /\ coefs[c][p] = CASE x < cw /\ y < ch -> OddColumns(OddRows(Block(a, cw - x - 1, ch - y - 1)))
                          [] x >= cw /\ y < ch -> OddRows(Block(a, x, ch - y - 1))
                          [] x < cw /\ y >= ch -> OddColumns(Block(a, cw - x - 1, y))
                          [] OTHER -> Block(a, x, y)
    <3> HIDE DEF a, cw, ch
    <3> QED BY <2>2, <2>3, <1>4 DEF do_rot_180, Fill, a
  <2> HIDE DEF cw, ch, a, b
  <2>5. CASE x < cw /\ y < ch
    <3>1. /\ FromX(f, r, d, c, x) = cw - x - 1 /\ FromY(f, r, d, c, y) = ch - y - 1
          /\ SignX(f, r, d, c, x) = -1 /\ SignY(f, r, d, c, y) = -1
      BY <2>1, <2>5 DEF FromX, FromY, SignX, SignY, cw, ch
    <3>2. b = Block(a, cw - x - 1, ch - y - 1)
      BY <3>1, <1>5, <2>1
    <3>3. coefs[c][p] = OddColumns(OddRows(b))
      BY <3>2, <2>4, <1>2, <2>5
    <3>4. IsTurned(r, coefs[c][p], b, -1, -1)
      BY <3>3, <2>1, <1>1, Turns
    <3> QED BY <3>1, <3>4, <2>4, <1>4, <1>5
  <2>6. CASE ~(x < cw) /\ y < ch
    <3>1. /\ FromX(f, r, d, c, x) = x /\ FromY(f, r, d, c, y) = ch - y - 1
          /\ SignX(f, r, d, c, x) = 1 /\ SignY(f, r, d, c, y) = -1
      BY <2>1, <2>6 DEF FromX, FromY, SignX, SignY, cw, ch
    <3>2. b = Block(a, x, ch - y - 1)
      BY <3>1, <1>5, <2>1
    <3>3. coefs[c][p] = OddRows(b)
      BY <3>2, <2>4, <1>2, <2>6
    <3>4. IsTurned(r, coefs[c][p], b, 1, -1)
      BY <3>3, <2>1, <1>1, Turns
    <3> QED BY <3>1, <3>4, <2>4, <1>4, <1>5
  <2>7. CASE x < cw /\ ~(y < ch)
    <3>1. /\ FromX(f, r, d, c, x) = cw - x - 1 /\ FromY(f, r, d, c, y) = y
          /\ SignX(f, r, d, c, x) = -1 /\ SignY(f, r, d, c, y) = 1
      BY <2>1, <2>7 DEF FromX, FromY, SignX, SignY, cw, ch
    <3>2. b = Block(a, cw - x - 1, y)
      BY <3>1, <1>5, <2>1
    <3>3. coefs[c][p] = OddColumns(b)
      BY <3>2, <2>4, <1>2, <2>7
    <3>4. IsTurned(r, coefs[c][p], b, -1, 1)
      BY <3>3, <2>1, <1>1, Turns
    <3> QED BY <3>1, <3>4, <2>4, <1>4, <1>5
  <2>8. CASE ~(x < cw) /\ ~(y < ch)
    <3>1. /\ FromX(f, r, d, c, x) = x /\ FromY(f, r, d, c, y) = y
          /\ SignX(f, r, d, c, x) = 1 /\ SignY(f, r, d, c, y) = 1
      BY <2>1, <2>8 DEF FromX, FromY, SignX, SignY, cw, ch
    <3>2. b = Block(a, x, y)
      BY <3>1, <1>5, <2>1
    <3>3. coefs[c][p] = b
      BY <3>2, <2>4, <1>2, <2>8
    <3>4. IsTurned(r, coefs[c][p], b, 1, 1)
      BY <3>3, <2>1, <1>1, Turns
    <3> QED BY <3>1, <3>4, <2>4, <1>4, <1>5
  <2> QED BY <2>5, <2>6, <2>7, <2>8
<1>13. CASE r.transform = "transverse"
  <2>1. /\ Transformed(f, r)[1] = f.h /\ Transformed(f, r)[2] = f.w
        /\ r.transform \in Transposing
        /\ r.transform \in MirrorsX /\ r.transform \in MirrorsY
    BY <1>13 DEF Transformed, Transposing, MirrorsX, MirrorsY
  <2>2. coefs = do_transverse(Picture(f), d, xo, yo)
    BY <1>13 DEF jtransform_execute_transform
  <2>3. cw = CompWidth(Picture(f).h, d, c) /\ ch = CompHeight(Picture(f).w, d, c)
    BY <2>1, <1>3 DEF CW, CH
  <2>4. /\ DOMAIN coefs[c] = Shown(d, c)
        /\ coefs[c][p] = CASE x < cw /\ y < ch -> Transpose(OddColumns(OddRows(Block(a, ch - y - 1, cw - x - 1))))
                          [] x >= cw /\ y < ch -> Transpose(OddColumns(Block(a, ch - y - 1, x)))
                          [] x < cw /\ y >= ch -> Transpose(OddRows(Block(a, y, cw - x - 1)))
                          [] OTHER -> Transpose(Block(a, y, x))
    <3> HIDE DEF a, cw, ch
    <3> QED BY <2>2, <2>3, <1>4 DEF do_transverse, Fill, a
  <2> HIDE DEF cw, ch, a, b
  <2>5. CASE x < cw /\ y < ch
    <3>1. /\ FromX(f, r, d, c, x) = cw - x - 1 /\ FromY(f, r, d, c, y) = ch - y - 1
          /\ SignX(f, r, d, c, x) = -1 /\ SignY(f, r, d, c, y) = -1
      BY <2>1, <2>5 DEF FromX, FromY, SignX, SignY, cw, ch
    <3>2. b = Block(a, ch - y - 1, cw - x - 1)
      BY <3>1, <1>5, <2>1
    <3>3. coefs[c][p] = Transpose(OddColumns(OddRows(b)))
      BY <3>2, <2>4, <1>2, <2>5
    <3>4. IsTurned(r, coefs[c][p], b, -1, -1)
      BY <3>3, <2>1, <1>1, Turns
    <3> QED BY <3>1, <3>4, <2>4, <1>4, <1>5
  <2>6. CASE ~(x < cw) /\ y < ch
    <3>1. /\ FromX(f, r, d, c, x) = x /\ FromY(f, r, d, c, y) = ch - y - 1
          /\ SignX(f, r, d, c, x) = 1 /\ SignY(f, r, d, c, y) = -1
      BY <2>1, <2>6 DEF FromX, FromY, SignX, SignY, cw, ch
    <3>2. b = Block(a, ch - y - 1, x)
      BY <3>1, <1>5, <2>1
    <3>3. coefs[c][p] = Transpose(OddColumns(b))
      BY <3>2, <2>4, <1>2, <2>6
    <3>4. IsTurned(r, coefs[c][p], b, 1, -1)
      BY <3>3, <2>1, <1>1, Turns
    <3> QED BY <3>1, <3>4, <2>4, <1>4, <1>5
  <2>7. CASE x < cw /\ ~(y < ch)
    <3>1. /\ FromX(f, r, d, c, x) = cw - x - 1 /\ FromY(f, r, d, c, y) = y
          /\ SignX(f, r, d, c, x) = -1 /\ SignY(f, r, d, c, y) = 1
      BY <2>1, <2>7 DEF FromX, FromY, SignX, SignY, cw, ch
    <3>2. b = Block(a, y, cw - x - 1)
      BY <3>1, <1>5, <2>1
    <3>3. coefs[c][p] = Transpose(OddRows(b))
      BY <3>2, <2>4, <1>2, <2>7
    <3>4. IsTurned(r, coefs[c][p], b, -1, 1)
      BY <3>3, <2>1, <1>1, Turns
    <3> QED BY <3>1, <3>4, <2>4, <1>4, <1>5
  <2>8. CASE ~(x < cw) /\ ~(y < ch)
    <3>1. /\ FromX(f, r, d, c, x) = x /\ FromY(f, r, d, c, y) = y
          /\ SignX(f, r, d, c, x) = 1 /\ SignY(f, r, d, c, y) = 1
      BY <2>1, <2>8 DEF FromX, FromY, SignX, SignY, cw, ch
    <3>2. b = Block(a, y, x)
      BY <3>1, <1>5, <2>1
    <3>3. coefs[c][p] = Transpose(b)
      BY <3>2, <2>4, <1>2, <2>8
    <3>4. IsTurned(r, coefs[c][p], b, 1, 1)
      BY <3>3, <2>1, <1>1, Turns
    <3> QED BY <3>1, <3>4, <2>4, <1>4, <1>5
  <2> QED BY <2>5, <2>6, <2>7, <2>8
<1> QED BY <1>6, <1>7, <1>8, <1>9, <1>10, <1>11, <1>12, <1>13 DEF IsRequest, Transforms

(***************************************************************************)
(* What is written, with a workspace or without.                           *)
(***************************************************************************)
\* All blocks that the frame shows.
AllPlaced(f, r, d, inf, coefs) ==
  \A c \in DOMAIN d.samp : \A p \in Shown(d, c) :
    /\ p \in DOMAIN coefs[c]
    /\ Placed(f, r, d, c, p[1] + inf.x * d.samp[c][1], p[2] + inf.y * d.samp[c][2], coefs[c][p])

(* A transformation that mirrors no rows nor turns takes blocks from where  *)
(* the picture has them.                                                   *)
LEMMA DirectIs ==
  ASSUME NEW f, IsFrame(f), NEW r, IsRequest(r), r.transform \in {"none", "flip_h"},
         NEW d, Destination(f, r, d), NEW c \in DOMAIN d.samp,
         NEW x, NEW y, Within(f, r, d, c, x, y)
  PROVE  /\ <<x, y>> \in Padded(f, c) /\ <<FromX(f, r, d, c, x), y>> \in Padded(f, c)
         /\ FromY(f, r, d, c, y) = y /\ c \in DOMAIN f.samp
         /\ FromBlock(f, r, d, c, x, y) = Picture(f).coefs[c][<<FromX(f, r, d, c, x), y>>]
         /\ DOMAIN Picture(f).coefs[c] = Padded(f, c)
<1>1. r.transform \notin Transposing /\ r.transform \notin MirrorsY
  BY DEF Transposing, MirrorsY
<1>2. \A u, v : Source(r, u, v) = <<u, v>>
  BY <1>1 DEF Source
<1>3. FromY(f, r, d, c, y) = y
  BY <1>1 DEF FromY
<1> DEFINE u == FromX(f, r, d, c, x)
<1>4. Within(f, r, d, c, u, y)
  BY <1>3, FromIs
<1> HIDE DEF u
<1>5. c \in DOMAIN f.samp
  BY DEF Destination
<1>6. <<x, y>> \in Padded(f, c) /\ <<u, y>> \in Padded(f, c)
  BY <1>2, <1>4 DEF Destination, Within
<1>7. DOMAIN Picture(f).coefs[c] = Padded(f, c)
  BY <1>5 DEF Picture
<1>8. FromBlock(f, r, d, c, x, y) = Block(Picture(f).coefs[c], u, y)
  BY <1>1, <1>3 DEF FromBlock, u
<1>9. Block(Picture(f).coefs[c], u, y) = Picture(f).coefs[c][<<u, y>>]
  BY <1>6, <1>7 DEF Block
<1> QED BY <1>3, <1>5, <1>6, <1>7, <1>8, <1>9 DEF u

LEMMA FlipInPlace ==
  ASSUME NEW f, IsFrame(f), NEW r, IsRequest(r), r.transform = "flip_h",
         NEW d, Destination(f, r, d), NEW c \in DOMAIN d.samp,
         d.h \in Nat \ {0}, NEW p, NEW xo, NEW x, NEW y, Executed(f, r, d, c, p, xo, 0, x, y),
         NEW coefs, coefs = do_flip_h_no_crop(Picture(f), d, xo)
  PROVE  p \in DOMAIN coefs[c] /\ Placed(f, r, d, c, x, y, coefs[c][p])
<1> DEFINE a == Picture(f).coefs[c]
           cw == CompWidth(Picture(f).w, d, c)
           flipped == [q \in DOMAIN a |-> IF q[2] < BlocksHigh(d, c) /\ q[1] < cw
                                         THEN OddColumns(a[<<cw - q[1] - 1, q[2]>>]) ELSE a[q]]
           b == FromBlock(f, r, d, c, x, y)
           u == FromX(f, r, d, c, x)
<1>1. /\ d.samp[c][1] \in 1..4 /\ d.samp[c][2] \in 1..4
      /\ MaxH(d.samp) \in 1..4 /\ MaxV(d.samp) \in 1..4
  BY FactorsAre
<1>2. /\ p \in Shown(d, c) /\ x = p[1] + xo * d.samp[c][1] /\ y = p[2] + 0 * d.samp[c][2]
      /\ Within(f, r, d, c, x, y)
  BY DEF Executed
<1>3. y = p[2]
  <2>1. p[2] \in Int
    BY <1>2 DEF Shown
  <2> QED BY <1>1, <1>2, <2>1
<1>4. /\ r.transform \notin Transposing /\ r.transform \in MirrorsX /\ r.transform \notin MirrorsY
      /\ r.transform \in {"none", "flip_h"}
  BY DEF Transposing, MirrorsX, MirrorsY
<1>5. cw = CW(f, r, d, c)
  BY <1>4 DEF CW, Transformed, Picture
<1>6. IsBlock(b)
  BY <1>2, FromIs
<1>7. /\ <<x, y>> \in DOMAIN a /\ FromY(f, r, d, c, y) = y /\ b = a[<<u, y>>]
  BY <1>2, <1>4, DirectIs
<1>8. y < BlocksHigh(d, c)
  <2>1. d.h * d.samp[c][2] \in Nat /\ MaxV(d.samp) * BlockSide \in Nat \ {0}
    BY <1>1, SMT DEF BlockSide
  <2>2. BlocksHigh(d, c) \in Nat
    BY <2>1, CeilIs, Zenon DEF BlocksHigh
  <2>3. p[2] \in 0..BlocksHigh(d, c) - 1
    BY <1>2 DEF Shown
  <2> QED BY <2>2, <2>3, <1>3
<1>9. DOMAIN coefs[c] = Shown(d, c) /\ coefs[c][p] = Block(flipped, p[1] + xo * d.samp[c][1], p[2])
  BY <1>2 DEF do_flip_h_no_crop
<1> HIDE DEF a, cw, b, u
<1>10. Block(flipped, x, y) = IF x < cw THEN OddColumns(a[<<cw - x - 1, y>>]) ELSE a[<<x, y>>]
  <2>1. <<x, y>> \in DOMAIN flipped
    BY <1>7
  <2>2. flipped[<<x, y>>] = IF x < cw THEN OddColumns(a[<<cw - x - 1, y>>]) ELSE a[<<x, y>>]
    BY <1>7, <1>8
  <2> HIDE DEF flipped
  <2> QED BY <2>1, <2>2 DEF Block
<1> HIDE DEF flipped
<1>11. coefs[c][p] = IF x < cw THEN OddColumns(a[<<cw - x - 1, y>>]) ELSE a[<<x, y>>]
  BY <1>2, <1>3, <1>9, <1>10
<1>12. SignY(f, r, d, c, y) = 1
  BY <1>4 DEF SignY
<1>13. CASE x < cw
  <2>1. u = cw - x - 1 /\ SignX(f, r, d, c, x) = -1
    BY <1>4, <1>5, <1>13 DEF FromX, SignX, u
  <2>2. coefs[c][p] = OddColumns(b)
    BY <2>1, <1>7, <1>11, <1>13
  <2>3. IsTurned(r, coefs[c][p], b, -1, 1)
    BY <2>2, <1>4, <1>6, Turns
  <2> QED BY <2>1, <2>3, <1>2, <1>9, <1>12 DEF Placed, b
<1>14. CASE ~(x < cw)
  <2>1. u = x /\ SignX(f, r, d, c, x) = 1
    BY <1>4, <1>5, <1>14 DEF FromX, SignX, u
  <2>2. coefs[c][p] = b
    BY <2>1, <1>7, <1>11, <1>14
  <2>3. IsTurned(r, coefs[c][p], b, 1, 1)
    BY <2>2, <1>4, <1>6, Turns
  <2> QED BY <2>1, <2>3, <1>2, <1>9, <1>12 DEF Placed, b
<1> QED BY <1>13, <1>14

LEMMA CoefficientsPlaced ==
  ASSUME NEW f, IsFrame(f), source = Picture(f), NEW r, IsRequest(r), NEW slow, NEW inf, Granted(f, r, slow, inf),
         NEW d, Destination(f, r, d), d.w = inf.w, d.h = inf.h
  PROVE  AllPlaced(f, r, d, inf, Coefficients(d, r, inf))
<1> DEFINE coefs == Coefficients(d, r, inf)
<1>1. inf.workspace = needs_workspace(r.transform, inf.x, inf.y, slow) /\ inf.x \in Nat /\ inf.y \in Nat
      /\ d.h \in Nat \ {0}
  BY DEF Granted, GrantedAxis
<1> SUFFICES ASSUME NEW c \in DOMAIN d.samp, NEW p \in Shown(d, c)
             PROVE  /\ p \in DOMAIN coefs[c]
                    /\ Placed(f, r, d, c, p[1] + inf.x * d.samp[c][1], p[2] + inf.y * d.samp[c][2], coefs[c][p])
  BY DEF AllPlaced
<1> DEFINE x == p[1] + inf.x * d.samp[c][1]
           y == p[2] + inf.y * d.samp[c][2]
<1>2. Within(f, r, d, c, x, y)
  BY ShownWithin
<1>3. Executed(f, r, d, c, p, inf.x, inf.y, x, y)
  BY <1>2 DEF Executed
<1> HIDE DEF x, y
<1>4. CASE inf.workspace
  <2>1. coefs = jtransform_execute_transform(Picture(f), d, r.transform, inf.x, inf.y)
    BY <1>4 DEF Coefficients, Flips
  <2> HIDE DEF coefs
  <2>2. p \in DOMAIN coefs[c] /\ Placed(f, r, d, c, x, y, coefs[c][p])
    BY <2>1, <1>3, Executes, Zenon
  <2> QED BY <2>2 DEF x, y
<1>5. CASE ~inf.workspace /\ r.transform = "flip_h"
  <2>1. inf.y = 0
    BY <1>1, <1>5 DEF needs_workspace
  <2>2. coefs = do_flip_h_no_crop(Picture(f), d, inf.x)
    BY <1>5 DEF Coefficients, Flips
  <2> HIDE DEF coefs
  <2>3. p \in DOMAIN coefs[c] /\ Placed(f, r, d, c, x, y, coefs[c][p])
    <3>1. Executed(f, r, d, c, p, inf.x, 0, x, y)
      BY <1>3, <2>1
    <3> QED BY <3>1, <2>2, <1>1, <1>5, FlipInPlace, Zenon
  <2> QED BY <2>3 DEF x, y
<1>6. CASE ~inf.workspace /\ r.transform # "flip_h"
  <2>1. r.transform = "none" /\ inf.x = 0 /\ inf.y = 0
    BY <1>1, <1>6 DEF needs_workspace
  <2>2. coefs = [k \in DOMAIN d.samp |-> Picture(f).coefs[k]]
    BY <1>6 DEF Coefficients, Flips
  <2> HIDE DEF coefs
  <2>3. coefs[c] = Picture(f).coefs[c]
    BY <2>2
  <2>4. /\ r.transform \notin Transposing /\ r.transform \notin MirrorsX /\ r.transform \notin MirrorsY
        /\ r.transform \in {"none", "flip_h"}
    BY <2>1 DEF Transposing, MirrorsX, MirrorsY
  <2>5. /\ FromX(f, r, d, c, x) = x /\ SignX(f, r, d, c, x) = 1 /\ SignY(f, r, d, c, y) = 1
    BY <2>4 DEF FromX, SignX, SignY
  <2>6. p = <<x, y>>
    <3>1. d.samp[c][1] \in 1..4 /\ d.samp[c][2] \in 1..4
      BY FactorsAre
    <3>2. p = <<p[1], p[2]>> /\ p[1] \in Int /\ p[2] \in Int
      BY DEF Shown
    <3>3. x = p[1] + 0 * d.samp[c][1] /\ y = p[2] + 0 * d.samp[c][2]
      BY <2>1 DEF x, y
    <3>4. x = p[1] /\ y = p[2]
      BY <3>1, <3>2, <3>3
    <3> QED BY <3>2, <3>4
  <2>7. /\ <<x, y>> \in DOMAIN Picture(f).coefs[c]
        /\ FromBlock(f, r, d, c, x, y) = Picture(f).coefs[c][<<x, y>>]
    BY <1>2, <2>4, <2>5, DirectIs
  <2>8. IsBlock(FromBlock(f, r, d, c, x, y))
    BY <1>2, FromIs
  <2>9. IsTurned(r, coefs[c][p], FromBlock(f, r, d, c, x, y), 1, 1)
    BY <2>3, <2>4, <2>6, <2>7, <2>8, Turns
  <2>10. p \in DOMAIN coefs[c] /\ Placed(f, r, d, c, x, y, coefs[c][p])
    BY <2>3, <2>5, <2>6, <2>7, <2>9 DEF Placed
  <2> QED BY <2>10 DEF x, y
<1> QED BY <1>4, <1>5, <1>6

(***************************************************************************)
(* An output: its blocks and its samples.                                  *)
(***************************************************************************)
Made(f, r, slow, inf, o) ==
  /\ Granted(f, r, slow, inf) /\ Destination(f, r, o) /\ o.w = inf.w /\ o.h = inf.h
  /\ AllPlaced(f, r, o, inf, o.coefs)

\* Only the frame of an output says where its blocks come from.
LEMMA SameFrame ==
  ASSUME NEW f, NEW r, NEW inf, NEW d, NEW coefs, NEW o, o.w = d.w, o.h = d.h, o.samp = d.samp, o.coefs = coefs,
         Destination(f, r, d), AllPlaced(f, r, d, inf, coefs)
  PROVE  Destination(f, r, o) /\ AllPlaced(f, r, o, inf, o.coefs)
<1>1. Destination(f, r, o)
  BY DEF Destination
<1>2. \A c : Shown(o, c) = Shown(d, c)
  BY DEF Shown, BlocksWide, BlocksHigh
<1>3. \A c : CW(f, r, o, c) = CW(f, r, d, c) /\ CH(f, r, o, c) = CH(f, r, d, c)
  BY DEF CW, CH, CompWidth, CompHeight
<1>4. \A c, x : FromX(f, r, o, c, x) = FromX(f, r, d, c, x) /\ SignX(f, r, o, c, x) = SignX(f, r, d, c, x)
  BY <1>3 DEF FromX, SignX
<1>5. \A c, y : FromY(f, r, o, c, y) = FromY(f, r, d, c, y) /\ SignY(f, r, o, c, y) = SignY(f, r, d, c, y)
  BY <1>3 DEF FromY, SignY
<1>6. \A c, x, y : FromBlock(f, r, o, c, x, y) = FromBlock(f, r, d, c, x, y)
  BY <1>4, <1>5, Zenon DEF FromBlock
<1>7. \A c, x, y, v : Placed(f, r, o, c, x, y, v) <=> Placed(f, r, d, c, x, y, v)
  BY <1>4, <1>5, <1>6, Zenon DEF Placed
<1> QED BY <1>1, <1>2, <1>7, Zenon DEF AllPlaced

LEMMA SignsAre ==
  ASSUME NEW f, NEW r, NEW d, NEW c, NEW x, NEW y
  PROVE  SignX(f, r, d, c, x) \in {-1, 1} /\ SignY(f, r, d, c, y) \in {-1, 1}
BY DEF SignX, SignY

LEMMA NoneStray ==
  ASSUME NEW f, IsFrame(f), NEW r, IsRequest(r), NEW slow, NEW inf, NEW o, Made(f, r, slow, inf, o),
         NEW c \in DOMAIN o.samp, NEW p \in Shown(o, c)
  PROVE  p \in DOMAIN o.coefs[c] /\ o.coefs[c][p] # Stray
<1> DEFINE x == p[1] + inf.x * o.samp[c][1]
           y == p[2] + inf.y * o.samp[c][2]
           b == FromBlock(f, r, o, c, x, y)
           v == o.coefs[c][p]
           sx == SignX(f, r, o, c, x)
           sy == SignY(f, r, o, c, y)
<1>1. p \in DOMAIN o.coefs[c] /\ Placed(f, r, o, c, x, y, v)
  BY DEF Made, AllPlaced
<1>2. Within(f, r, o, c, x, y)
  BY ShownWithin DEF Made
<1>3. IsBlock(b)
  <2> HIDE DEF x, y
  <2> QED BY <1>2, FromIs DEF Made
<1>4. IsTurned(r, v, b, sx, sy)
  BY <1>1 DEF Placed
<1>5. sx \in {-1, 1}
  BY SignsAre
<1> HIDE DEF x, y, b, v, sx, sy
<1>6. v[2] # 0
  BY <1>3, <1>4, <1>5 DEF IsTurned, IsBlock
<1>7. v # Stray
  BY <1>6 DEF Stray
<1> QED BY <1>1, <1>7 DEF v

(* One axis of the samples: mirrored about the whole units, or not.        *)
Parity(x) == IF x % 2 = 1 THEN -1 ELSE 1

LEMMA ParityIs ==
  ASSUME NEW x \in Nat, NEW y \in Nat
  PROVE  /\ Parity(x) \in {-1, 1}
         /\ x % 2 = y % 2 => Parity(x) = Parity(y)
         /\ x % 2 = 1 - (y % 2) => Parity(x) = -1 * Parity(y)
<1>1. x % 2 \in {0, 1} /\ y % 2 \in {0, 1}
  <2>1. x \in Int /\ y \in Int /\ 2 \in Nat \ {0}
    OBVIOUS
  <2>2. x % 2 \in 0..(2 - 1) /\ y % 2 \in 0..(2 - 1)
    BY <2>1, Division
  <2> QED BY <2>2
<1> DEFINE a == x % 2
           b == y % 2
<1> HIDE DEF a, b
<1>2. a \in {0, 1} /\ b \in {0, 1}
  BY <1>1 DEF a, b
<1>3. Parity(x) = (IF a = 1 THEN -1 ELSE 1) /\ Parity(y) = (IF b = 1 THEN -1 ELSE 1)
  BY DEF Parity, a, b
<1>4. /\ Parity(x) \in {-1, 1}
      /\ a = b => Parity(x) = Parity(y)
      /\ a = 1 - b => Parity(x) = -1 * Parity(y)
  BY <1>2, <1>3
<1> QED BY <1>4 DEF a, b

\* x is a sample of the output and z the one of the picture: they are in blocks
\* p and q, and t is the sign between them.
Moves(k, m, n, o, x, z, p, q, t) ==
  /\ p = x \div 2 /\ p \in 0..CeilDiv(n * k, m * 2) - 1
  /\ z \in Nat /\ z \div 2 = q
  /\ Parity(x) \in {-1, 1} /\ Parity(z) = t * Parity(x)

LEMMA AxisStays ==
  ASSUME NEW k, NEW m, NEW full, NEW n, NEW o, Axis(k, m, full, n, o),
         NEW x \in 0..CeilDiv(n * k, m) - 1
  PROVE  Moves(k, m, n, o, x, x + o * k * 2, x \div 2, x \div 2 + o * k, 1)
<1>1. /\ x \div 2 \in 0..CeilDiv(n * k, m * 2) - 1
      /\ (x + o * k * 2) \div 2 = x \div 2 + o * k
      /\ (x + o * k * 2) % 2 = x % 2
      /\ x + o * k * 2 \in Nat
  BY SampleInside
<1>2. x \in Nat
  <2>1. n * k \in Nat /\ m \in Nat \ {0}
    BY SMT DEF Axis
  <2>2. CeilDiv(n * k, m) \in Nat
    BY <2>1, CeilIs, Zenon
  <2> QED BY <2>2
<1> DEFINE z == x + o * k * 2
<1>3. z \in Nat /\ z % 2 = x % 2
  BY <1>1
<1> HIDE DEF z
<1>4. Parity(z) = Parity(x) /\ Parity(x) \in {-1, 1}
  BY <1>2, <1>3, ParityIs
<1>5. Parity(z) = 1 * Parity(x)
  BY <1>4
<1> QED BY <1>1, <1>4, <1>5 DEF Moves, z

LEMMA AxisMirrors ==
  ASSUME NEW k, NEW m, NEW full, NEW n, NEW o, Axis(k, m, full, n, o),
         o * (2 * m) + n <= (full \div (2 * m)) * (2 * m),
         NEW x \in 0..CeilDiv(n * k, m) - 1,
         NEW w, w = 2 * Mirrored(k, m, full)
  PROVE  /\ x \div 2 + o * k < Mirrored(k, m, full)
         /\ Moves(k, m, n, o, x, w - 1 - (x + o * k * 2), x \div 2,
                  Mirrored(k, m, full) - (x \div 2 + o * k) - 1, -1)
<1>1. /\ x \div 2 \in 0..CeilDiv(n * k, m * 2) - 1
      /\ (x + o * k * 2) \div 2 = x \div 2 + o * k
      /\ (x + o * k * 2) % 2 = x % 2
      /\ x + o * k * 2 \in Nat
      /\ m * (x + o * k * 2) < (o * (2 * m) + n) * k
  BY SampleInside
<1>2. x \in Nat
  <2>1. n * k \in Nat /\ m \in Nat \ {0}
    BY SMT DEF Axis
  <2>2. CeilDiv(n * k, m) \in Nat
    BY <2>1, CeilIs, Zenon
  <2> QED BY <2>2
<1> DEFINE y == x + o * k * 2
           b == Mirrored(k, m, full)
           z == w - 1 - y
<1>3. y \in Nat /\ y \div 2 = x \div 2 + o * k /\ y % 2 = x % 2 /\ m * y < (o * (2 * m) + n) * k
  BY <1>1
<1> HIDE DEF y
<1>4. b \in Nat
  BY MirroredIs DEF Axis
<1>5. y < 2 * b
  BY <1>3, WholeMirrored
<1> HIDE DEF b
<1>6. /\ y \div 2 < b /\ 2 * b - 1 - y \in Nat
      /\ (2 * b - 1 - y) \div 2 = b - y \div 2 - 1
      /\ (2 * b - 1 - y) % 2 = 1 - (y % 2)
  BY <1>3, <1>4, <1>5, MirrorSample
<1>7. z = 2 * b - 1 - y
  BY DEF b
<1> HIDE DEF z
<1>8. z \in Nat /\ z \div 2 = b - y \div 2 - 1 /\ z % 2 = 1 - (x % 2)
  BY <1>3, <1>6, <1>7
<1>9. Parity(z) = -1 * Parity(x) /\ Parity(x) \in {-1, 1}
  BY <1>2, <1>8, ParityIs
<1>10. b - y \div 2 - 1 = b - (x \div 2 + o * k) - 1
  BY <1>3
<1> QED BY <1>1, <1>3, <1>6, <1>8, <1>9, <1>10 DEF Moves, z, y, b

(* Where mirroring is exact, the output ends with the whole units, and so   *)
(* does the part of the picture that is mirrored.                          *)
LEMMA ExactWhole ==
  ASSUME NEW r, NEW u \in Nat \ {0}, NEW full \in Nat \ {0}, NEW at \in Nat, NEW out \in Nat \ {0}, at * u + out <= full,
         \/ full % u = 0
         \/ r.edge = "trim" /\ at * u + out <= (full \div u) * u
  PROVE  /\ at * u + out <= (full \div u) * u
         /\ (IF r.edge = "trim" THEN WholeUnits(full, u) ELSE full) = (full \div u) * u
<1> DEFINE q == (full \div u) * u
<1>1. WholeUnits(full, u) = q
  BY DEF WholeUnits
<1>2. full % u = 0 => full = q
  <2> SUFFICES ASSUME full % u = 0 PROVE full = q
    OBVIOUS
  <2>1. full \div u \in Int /\ full = u * (full \div u)
    BY WholeQuotient
  <2> DEFINE d == full \div u
  <2> HIDE DEF d
  <2>2. d \in Int /\ full = u * d
    BY <2>1 DEF d
  <2>3. full = d * u
    BY <2>2
  <2> QED BY <2>3 DEF d
<1> HIDE DEF q
<1>3. CASE full % u = 0
  BY <1>1, <1>2, <1>3
<1>4. CASE r.edge = "trim" /\ at * u + out <= q
  <2>1. at * u + out <= q
    BY <1>4
  <2>2. (IF r.edge = "trim" THEN WholeUnits(full, u) ELSE full) = q
    BY <1>1, <1>4
  <2> QED BY <2>1, <2>2 DEF q
<1> QED BY <1>3, <1>4 DEF q

ExactX(r, o, unit, full) ==
  \/ r.transform \notin MirrorsX \/ full[1] % unit[1] = 0
  \/ r.edge = "perfect" \/ (r.edge = "trim" /\ o.w >= unit[1])
ExactY(r, o, unit, full) ==
  \/ r.transform \notin MirrorsY \/ full[2] % unit[2] = 0
  \/ r.edge = "perfect" \/ (r.edge = "trim" /\ o.h >= unit[2])

\* How many samples long the axes are about which samples are mirrored.
LengthX(r, o, c, unit, full) ==
  ((IF r.edge = "trim" THEN WholeUnits(full[1], unit[1]) ELSE full[1]) * o.samp[c][1]) \div MaxH(o.samp)
LengthY(r, o, c, unit, full) ==
  ((IF r.edge = "trim" THEN WholeUnits(full[2], unit[2]) ELSE full[2]) * o.samp[c][2]) \div MaxV(o.samp)

LEMMA MovedX ==
  ASSUME NEW f, IsFrame(f), NEW r, IsRequest(r), NEW slow, NEW inf, NEW o, Made(f, r, slow, inf, o),
         ExactX(r, o, iMCU(f, r), Transformed(f, r)), NEW c \in DOMAIN o.samp,
         NEW x \in 0..CeilDiv(o.w * o.samp[c][1], MaxH(o.samp)) - 1,
         NEW z, z = (IF r.transform \in MirrorsX
                     THEN LengthX(r, o, c, iMCU(f, r), Transformed(f, r)) - 1 - (x + inf.x * o.samp[c][1] * 2)
                     ELSE x + inf.x * o.samp[c][1] * 2)
  PROVE  Moves(o.samp[c][1], MaxH(o.samp), o.w, inf.x, x, z, x \div 2,
               FromX(f, r, o, c, x \div 2 + inf.x * o.samp[c][1]),
               SignX(f, r, o, c, x \div 2 + inf.x * o.samp[c][1]))
<1> DEFINE k == o.samp[c][1]
           m == MaxH(o.samp)
           full == Transformed(f, r)[1]
           n == o.w
           at == inf.x
           u == iMCU(f, r)[1]
           p == x \div 2 + at * k
           cw == CW(f, r, o, c)
<1>1. Axis(k, m, full, n, at)
  BY AxesAre DEF Made
<1>2. u = 2 * m /\ n = inf.w /\ m \in 1..4 /\ k \in 1..4 /\ full \in Nat \ {0}
  <2>1. Destination(f, r, o) /\ n = inf.w
    BY DEF Made
  <2>2. u = 2 * m
    BY <2>1 DEF Destination
  <2> QED BY <2>1, <2>2, <1>1 DEF Axis
<1>3. cw = Mirrored(k, m, full)
  BY DEF CW, CompWidth, Mirrored, BlockSide
<1>4. /\ FromX(f, r, o, c, p) = (IF r.transform \in MirrorsX /\ p < cw THEN cw - p - 1 ELSE p)
      /\ SignX(f, r, o, c, p) = (IF r.transform \in MirrorsX /\ p < cw THEN -1 ELSE 1)
  BY DEF FromX, SignX
<1>5. CASE r.transform \notin MirrorsX
  <2>1. FromX(f, r, o, c, p) = p /\ SignX(f, r, o, c, p) = 1 /\ z = x + at * k * 2
    BY <1>4, <1>5
  <2> HIDE DEF k, m, full, n, at
  <2>2. Moves(k, m, n, at, x, x + at * k * 2, x \div 2, x \div 2 + at * k, 1)
    BY <1>1, AxisStays DEF n, k, m
  <2> QED BY <2>1, <2>2 DEF k, m, n, at
<1>6. CASE r.transform \in MirrorsX
  <2>1. \/ full % u = 0
        \/ r.edge = "trim" /\ n >= u
    <3>1. r.edge = "perfect" => full % u = 0
      BY <1>6 DEF Made, Granted, PerfectIfAsked, Perfect
    <3> QED BY <3>1, <1>6, Zenon DEF ExactX
  <2>2. r.edge = "trim" /\ n >= u => at * u + n <= (full \div u) * u
    <3>1. GrantedAxis(TrimsW(r), u, full, at, n)
      BY DEF Made, Granted
    <3>2. r.edge = "trim" => TrimsW(r)
      BY <1>6 DEF TrimsW, TrimsRight, MirrorsX
    <3> QED BY <3>1, <3>2 DEF GrantedAxis
  <2>3. at \in Nat /\ n \in Nat \ {0} /\ u \in Nat \ {0} /\ at * u + n <= full
    BY <1>1, <1>2 DEF Axis
  <2>4. LengthX(r, o, c, iMCU(f, r), Transformed(f, r))
         = ((IF r.edge = "trim" THEN WholeUnits(full, u) ELSE full) * k) \div m
    BY DEF LengthX
  <2>5. z = LengthX(r, o, c, iMCU(f, r), Transformed(f, r)) - 1 - (x + at * k * 2)
    BY <1>6
  <2> HIDE DEF k, m, full, n, at, u, cw, p
  <2>6. /\ at * u + n <= (full \div u) * u
        /\ (IF r.edge = "trim" THEN WholeUnits(full, u) ELSE full) = (full \div u) * u
    <3>1. full % u = 0 \/ (r.edge = "trim" /\ at * u + n <= (full \div u) * u)
      BY <2>1, <2>2
    <3> QED BY <3>1, <2>3, <1>2, ExactWhole
  <2>7. LengthX(r, o, c, iMCU(f, r), Transformed(f, r)) = 2 * Mirrored(k, m, full)
    <3>1. (((full \div (2 * m)) * (2 * m)) * k) \div m = 2 * Mirrored(k, m, full)
      BY <1>2, WholeSamples
    <3> QED BY <3>1, <2>4, <2>6, <1>2
  <2> DEFINE w == 2 * Mirrored(k, m, full)
  <2>8. /\ x \div 2 + at * k < Mirrored(k, m, full)
        /\ Moves(k, m, n, at, x, w - 1 - (x + at * k * 2), x \div 2,
                 Mirrored(k, m, full) - (x \div 2 + at * k) - 1, -1)
    <3>1. at * (2 * m) + n <= (full \div (2 * m)) * (2 * m)
      BY <2>6, <1>2
    <3>2. x \in 0..CeilDiv(n * k, m) - 1
      BY DEF n, k, m
    <3> QED BY <3>1, <3>2, <1>1, AxisMirrors
  <2>9. p = x \div 2 + at * k
    BY DEF p
  <2>10. FromX(f, r, o, c, p) = Mirrored(k, m, full) - (x \div 2 + at * k) - 1 /\ SignX(f, r, o, c, p) = -1
    BY <1>3, <1>4, <1>6, <2>8, <2>9
  <2>11. z = w - 1 - (x + at * k * 2)
    BY <2>5, <2>7
  <2>12. Moves(k, m, n, at, x, z, x \div 2, FromX(f, r, o, c, p), SignX(f, r, o, c, p))
    BY <2>8, <2>10, <2>11
  <2> QED BY <2>12 DEF p, k, m, n, at
<1> QED BY <1>5, <1>6

LEMMA MovedY ==
  ASSUME NEW f, IsFrame(f), NEW r, IsRequest(r), NEW slow, NEW inf, NEW o, Made(f, r, slow, inf, o),
         ExactY(r, o, iMCU(f, r), Transformed(f, r)), NEW c \in DOMAIN o.samp,
         NEW x \in 0..CeilDiv(o.h * o.samp[c][2], MaxV(o.samp)) - 1,
         NEW z, z = (IF r.transform \in MirrorsY
                     THEN LengthY(r, o, c, iMCU(f, r), Transformed(f, r)) - 1 - (x + inf.y * o.samp[c][2] * 2)
                     ELSE x + inf.y * o.samp[c][2] * 2)
  PROVE  Moves(o.samp[c][2], MaxV(o.samp), o.h, inf.y, x, z, x \div 2,
               FromY(f, r, o, c, x \div 2 + inf.y * o.samp[c][2]),
               SignY(f, r, o, c, x \div 2 + inf.y * o.samp[c][2]))
<1> DEFINE k == o.samp[c][2]
           m == MaxV(o.samp)
           full == Transformed(f, r)[2]
           n == o.h
           at == inf.y
           u == iMCU(f, r)[2]
           p == x \div 2 + at * k
           cw == CH(f, r, o, c)
<1>1. Axis(k, m, full, n, at)
  BY AxesAre DEF Made
<1>2. u = 2 * m /\ n = inf.h /\ m \in 1..4 /\ k \in 1..4 /\ full \in Nat \ {0}
  <2>1. Destination(f, r, o) /\ n = inf.h
    BY DEF Made
  <2>2. u = 2 * m
    BY <2>1 DEF Destination
  <2> QED BY <2>1, <2>2, <1>1 DEF Axis
<1>3. cw = Mirrored(k, m, full)
  BY DEF CH, CompHeight, Mirrored, BlockSide
<1>4. /\ FromY(f, r, o, c, p) = (IF r.transform \in MirrorsY /\ p < cw THEN cw - p - 1 ELSE p)
      /\ SignY(f, r, o, c, p) = (IF r.transform \in MirrorsY /\ p < cw THEN -1 ELSE 1)
  BY DEF FromY, SignY
<1>5. CASE r.transform \notin MirrorsY
  <2>1. FromY(f, r, o, c, p) = p /\ SignY(f, r, o, c, p) = 1 /\ z = x + at * k * 2
    BY <1>4, <1>5
  <2> HIDE DEF k, m, full, n, at
  <2>2. Moves(k, m, n, at, x, x + at * k * 2, x \div 2, x \div 2 + at * k, 1)
    BY <1>1, AxisStays DEF n, k, m
  <2> QED BY <2>1, <2>2 DEF k, m, n, at
<1>6. CASE r.transform \in MirrorsY
  <2>1. \/ full % u = 0
        \/ r.edge = "trim" /\ n >= u
    <3>1. r.edge = "perfect" => full % u = 0
      BY <1>6 DEF Made, Granted, PerfectIfAsked, Perfect
    <3> QED BY <3>1, <1>6, Zenon DEF ExactY
  <2>2. r.edge = "trim" /\ n >= u => at * u + n <= (full \div u) * u
    <3>1. GrantedAxis(TrimsH(r), u, full, at, n)
      BY DEF Made, Granted
    <3>2. r.edge = "trim" => TrimsH(r)
      BY <1>6 DEF TrimsH, TrimsBottom, MirrorsY
    <3> QED BY <3>1, <3>2 DEF GrantedAxis
  <2>3. at \in Nat /\ n \in Nat \ {0} /\ u \in Nat \ {0} /\ at * u + n <= full
    BY <1>1, <1>2 DEF Axis
  <2>4. LengthY(r, o, c, iMCU(f, r), Transformed(f, r))
         = ((IF r.edge = "trim" THEN WholeUnits(full, u) ELSE full) * k) \div m
    BY DEF LengthY
  <2>5. z = LengthY(r, o, c, iMCU(f, r), Transformed(f, r)) - 1 - (x + at * k * 2)
    BY <1>6
  <2> HIDE DEF k, m, full, n, at, u, cw, p
  <2>6. /\ at * u + n <= (full \div u) * u
        /\ (IF r.edge = "trim" THEN WholeUnits(full, u) ELSE full) = (full \div u) * u
    <3>1. full % u = 0 \/ (r.edge = "trim" /\ at * u + n <= (full \div u) * u)
      BY <2>1, <2>2
    <3> QED BY <3>1, <2>3, <1>2, ExactWhole
  <2>7. LengthY(r, o, c, iMCU(f, r), Transformed(f, r)) = 2 * Mirrored(k, m, full)
    <3>1. (((full \div (2 * m)) * (2 * m)) * k) \div m = 2 * Mirrored(k, m, full)
      BY <1>2, WholeSamples
    <3> QED BY <3>1, <2>4, <2>6, <1>2
  <2> DEFINE w == 2 * Mirrored(k, m, full)
  <2>8. /\ x \div 2 + at * k < Mirrored(k, m, full)
        /\ Moves(k, m, n, at, x, w - 1 - (x + at * k * 2), x \div 2,
                 Mirrored(k, m, full) - (x \div 2 + at * k) - 1, -1)
    <3>1. at * (2 * m) + n <= (full \div (2 * m)) * (2 * m)
      BY <2>6, <1>2
    <3>2. x \in 0..CeilDiv(n * k, m) - 1
      BY DEF n, k, m
    <3> QED BY <3>1, <3>2, <1>1, AxisMirrors
  <2>9. p = x \div 2 + at * k
    BY DEF p
  <2>10. FromY(f, r, o, c, p) = Mirrored(k, m, full) - (x \div 2 + at * k) - 1 /\ SignY(f, r, o, c, p) = -1
    BY <1>3, <1>4, <1>6, <2>8, <2>9
  <2>11. z = w - 1 - (x + at * k * 2)
    BY <2>5, <2>7
  <2>12. Moves(k, m, n, at, x, z, x \div 2, FromY(f, r, o, c, p), SignY(f, r, o, c, p))
    BY <2>8, <2>10, <2>11
  <2> QED BY <2>12 DEF p, k, m, n, at
<1> QED BY <1>5, <1>6

(* A sample of a block, sx and sy the signs of its place in the block.      *)
SampleAt(b, sx, sy) == b[1] + sx * b[2] + sy * b[3] + sx * sy * b[4]

LEMMA SampleIs ==
  ASSUME NEW coefs, NEW c, NEW x, NEW y
  PROVE  Sample(coefs, c, x, y) = SampleAt(Block(coefs[c], x \div 2, y \div 2), Parity(x), Parity(y))
BY DEF Sample, SampleAt, Parity, BlockSide

LEMMA TurnedSample ==
  ASSUME NEW r, NEW b, IsBlock(b), NEW v, NEW tx \in {-1, 1}, NEW ty \in {-1, 1}, IsTurned(r, v, b, tx, ty),
         NEW sx \in {-1, 1}, NEW sy \in {-1, 1}, NEW zx, NEW zy, zx = tx * sx, zy = ty * sy
  PROVE  /\ r.transform \in Transposing => SampleAt(v, sx, sy) = SampleAt(b, zy, zx)
         /\ r.transform \notin Transposing => SampleAt(v, sx, sy) = SampleAt(b, zx, zy)
<1>1. b[1] \in Int /\ b[2] = 1 /\ b[3] = 2 /\ b[4] = 4
  BY DEF IsBlock
<1>2. CASE r.transform \in Transposing
  <2>1. v[1] = b[1] /\ v[2] = tx * 2 /\ v[3] = ty * 1 /\ v[4] = (tx * ty) * 4
    BY <1>1, <1>2 DEF IsTurned
  <2>2. SampleAt(v, sx, sy) = b[1] + sx * (tx * 2) + sy * (ty * 1) + sx * sy * ((tx * ty) * 4)
    BY <2>1 DEF SampleAt
  <2>3. SampleAt(b, zy, zx) = b[1] + (ty * sy) * 1 + (tx * sx) * 2 + (ty * sy) * (tx * sx) * 4
    BY <1>1 DEF SampleAt
  <2>4. tx = 1 \/ tx = -1
    OBVIOUS
  <2>5. ty = 1 \/ ty = -1
    OBVIOUS
  <2>6. sx = 1 \/ sx = -1
    OBVIOUS
  <2>7. sy = 1 \/ sy = -1
    OBVIOUS
  <2> QED BY <1>1, <1>2, <2>2, <2>3, <2>4, <2>5, <2>6, <2>7
<1>3. CASE r.transform \notin Transposing
  <2>1. v[1] = b[1] /\ v[2] = tx * 1 /\ v[3] = ty * 2 /\ v[4] = (tx * ty) * 4
    BY <1>1, <1>3 DEF IsTurned
  <2>2. SampleAt(v, sx, sy) = b[1] + sx * (tx * 1) + sy * (ty * 2) + sx * sy * ((tx * ty) * 4)
    BY <2>1 DEF SampleAt
  <2>3. SampleAt(b, zx, zy) = b[1] + (tx * sx) * 1 + (ty * sy) * 2 + (tx * sx) * (ty * sy) * 4
    BY <1>1 DEF SampleAt
  <2> QED BY <1>1, <1>3, <2>2, <2>3
<1> QED BY <1>2, <1>3

LEMMA SampleMoved ==
  ASSUME NEW f, IsFrame(f), NEW r, IsRequest(r), NEW slow, NEW inf, NEW o, Made(f, r, slow, inf, o),
         ExactX(r, o, iMCU(f, r), Transformed(f, r)), ExactY(r, o, iMCU(f, r), Transformed(f, r)),
         NEW c \in DOMAIN o.samp, NEW x \in 0..WideOf(o, c) - 1, NEW y \in 0..HighOf(o, c) - 1,
         NEW from,
         from = Origin(r.transform, LengthX(r, o, c, iMCU(f, r), Transformed(f, r)),
                       LengthY(r, o, c, iMCU(f, r), Transformed(f, r)),
                       x + inf.x * o.samp[c][1] * BlockSide, y + inf.y * o.samp[c][2] * BlockSide)
  PROVE  Sample(o.coefs, c, x, y) = Sample(Picture(f).coefs, c, from[1], from[2])
<1> DEFINE k == o.samp[c][1]
           l == o.samp[c][2]
           zx == IF r.transform \in MirrorsX
                 THEN LengthX(r, o, c, iMCU(f, r), Transformed(f, r)) - 1 - (x + inf.x * k * 2)
                 ELSE x + inf.x * k * 2
           zy == IF r.transform \in MirrorsY
                 THEN LengthY(r, o, c, iMCU(f, r), Transformed(f, r)) - 1 - (y + inf.y * l * 2)
                 ELSE y + inf.y * l * 2
           px == x \div 2
           py == y \div 2
           bx == px + inf.x * k
           by == py + inf.y * l
           fx == FromX(f, r, o, c, bx)
           fy == FromY(f, r, o, c, by)
           tx == SignX(f, r, o, c, bx)
           ty == SignY(f, r, o, c, by)
           b == FromBlock(f, r, o, c, bx, by)
           v == o.coefs[c][<<px, py>>]
<1>1. from = IF r.transform \in Transposing THEN <<zy, zx>> ELSE <<zx, zy>>
  BY DEF Origin, BlockSide
<1>2. Moves(k, MaxH(o.samp), o.w, inf.x, x, zx, px, fx, tx)
  <2>1. x \in 0..CeilDiv(o.w * o.samp[c][1], MaxH(o.samp)) - 1
    BY DEF WideOf
  <2> QED BY <2>1, MovedX, Zenon
<1>3. Moves(l, MaxV(o.samp), o.h, inf.y, y, zy, py, fy, ty)
  <2>1. y \in 0..CeilDiv(o.h * o.samp[c][2], MaxV(o.samp)) - 1
    BY DEF HighOf
  <2> QED BY <2>1, MovedY, Zenon
<1> HIDE DEF zx, zy, fx, fy, tx, ty, b, v
<1>4. /\ px \in 0..CeilDiv(o.w * k, MaxH(o.samp) * 2) - 1
      /\ py \in 0..CeilDiv(o.h * l, MaxV(o.samp) * 2) - 1
      /\ zx \div 2 = fx /\ zy \div 2 = fy
      /\ Parity(x) \in {-1, 1} /\ Parity(y) \in {-1, 1}
      /\ Parity(zx) = tx * Parity(x) /\ Parity(zy) = ty * Parity(y)
  BY <1>2, <1>3 DEF Moves
<1>5. <<px, py>> \in Shown(o, c)
  <2> HIDE DEF px, py
  <2> QED BY <1>4 DEF Shown, BlocksWide, BlocksHigh, BlockSide
<1>6. /\ <<px, py>> \in DOMAIN o.coefs[c] /\ Placed(f, r, o, c, bx, by, v) /\ Within(f, r, o, c, bx, by)
  <2>1. <<px, py>>[1] = px /\ <<px, py>>[2] = py
    OBVIOUS
  <2>2. /\ <<px, py>> \in DOMAIN o.coefs[c]
        /\ Placed(f, r, o, c, <<px, py>>[1] + inf.x * k, <<px, py>>[2] + inf.y * l, v)
    BY <1>5 DEF Made, AllPlaced, v
  <2>3. Within(f, r, o, c, <<px, py>>[1] + inf.x * k, <<px, py>>[2] + inf.y * l)
    BY <1>5, ShownWithin DEF Made
  <2> QED BY <2>1, <2>2, <2>3
<1>7. IsTurned(r, v, b, tx, ty)
  BY <1>6 DEF Placed, b, tx, ty
<1>8. IsBlock(b)
  <2> HIDE DEF bx, by
  <2> QED BY <1>6, FromIs DEF Made, b
<1>9. tx \in {-1, 1} /\ ty \in {-1, 1}
  BY SignsAre DEF tx, ty
<1>10. Sample(o.coefs, c, x, y) = SampleAt(v, Parity(x), Parity(y))
  <2>1. Block(o.coefs[c], px, py) = v
    BY <1>6 DEF Block, v
  <2> QED BY <2>1, SampleIs
<1>11. /\ r.transform \in Transposing => SampleAt(v, Parity(x), Parity(y)) = SampleAt(b, Parity(zy), Parity(zx))
       /\ r.transform \notin Transposing => SampleAt(v, Parity(x), Parity(y)) = SampleAt(b, Parity(zx), Parity(zy))
  BY <1>4, <1>7, <1>8, <1>9, TurnedSample
<1>12. b = IF r.transform \in Transposing THEN Block(Picture(f).coefs[c], fy, fx)
                                         ELSE Block(Picture(f).coefs[c], fx, fy)
  BY DEF b, FromBlock, fx, fy
<1> HIDE DEF px, py, bx, by, k, l
<1>13. CASE r.transform \in Transposing
  <2>1. from[1] = zy /\ from[2] = zx
    BY <1>1, <1>13
  <2>2. Sample(Picture(f).coefs, c, zy, zx) = SampleAt(Block(Picture(f).coefs[c], fy, fx), Parity(zy), Parity(zx))
    BY <1>4, SampleIs
  <2> QED BY <2>1, <2>2, <1>10, <1>11, <1>12, <1>13
<1>14. CASE r.transform \notin Transposing
  <2>1. from[1] = zx /\ from[2] = zy
    BY <1>1, <1>14
  <2>2. Sample(Picture(f).coefs, c, zx, zy) = SampleAt(Block(Picture(f).coefs[c], fx, fy), Parity(zx), Parity(zy))
    BY <1>4, SampleIs
  <2> QED BY <2>1, <2>2, <1>10, <1>11, <1>12, <1>14
<1> QED BY <1>13, <1>14

(***************************************************************************)
(* Crop specifications.                                                    *)
(***************************************************************************)
Tokens == {"n", "f", "x", "+", "-", "?"}
Signs == {"+", "-"}

\* Where the parser is after the width, the height and each of the offsets.
Ends(s, w, h, x, y) ==
  /\ w = (IF At(s, 1) # "n" THEN 1 ELSE IF At(s, 2) = "f" THEN 3 ELSE 2)
  /\ h = (IF At(s, w) # "x" THEN w ELSE IF At(s, w + 2) = "f" THEN w + 3 ELSE w + 2)
  /\ x = (IF At(s, h) \in Signs THEN h + 2 ELSE h)
  /\ y = (IF At(s, x) \in Signs THEN x + 2 ELSE x)

Accepted(s, w, h, x, y) ==
  /\ At(s, w) = "x" => At(s, w + 1) = "n"
  /\ At(s, h) \in Signs => At(s, h + 1) = "n"
  /\ At(s, x) \in Signs => At(s, x + 1) = "n"
  /\ At(s, y) = "end"

LEMMA SizeIs ==
  ASSUME NEW s, NEW i
  PROVE  Size(s, i)[2] = IF At(s, i + 1) = "f" THEN i + 2 ELSE i + 1
BY DEF Size

LEMMA ParseIs ==
  ASSUME NEW s, NEW c, c = jtransform_parse_crop_spec(s)
  PROVE  \E w, h, x, y \in Nat \ {0} :
           Ends(s, w, h, x, y) /\ c.crop \in BOOLEAN /\ (c.crop <=> Accepted(s, w, h, x, y))
<1> DEFINE w == IF At(s, 1) = "n" THEN Size(s, 1) ELSE <<"unset", 1>>
           hasH == At(s, w[2]) = "x"
           h == IF hasH THEN Size(s, w[2] + 1) ELSE <<"unset", w[2]>>
           hasX == At(s, h[2]) \in {"+", "-"}
           x == IF hasX THEN <<Sign(At(s, h[2])), h[2] + 2>> ELSE <<"unset", h[2]>>
           hasY == At(s, x[2]) \in {"+", "-"}
           y == IF hasY THEN <<Sign(At(s, x[2])), x[2] + 2>> ELSE <<"unset", x[2]>>
           refused == \/ hasH /\ At(s, w[2] + 1) # "n"
                      \/ hasX /\ At(s, h[2] + 1) # "n"
                      \/ hasY /\ At(s, x[2] + 1) # "n"
                      \/ At(s, y[2]) # "end"
<1>1. c = IF refused THEN UnsetCrop
          ELSE [crop |-> TRUE, width |-> w[1], height |-> h[1], xoffset |-> x[1], yoffset |-> y[1]]
  BY DEF jtransform_parse_crop_spec
<1>2. w[2] = (IF At(s, 1) # "n" THEN 1 ELSE IF At(s, 2) = "f" THEN 3 ELSE 2)
  <2>1. Size(s, 1)[2] = IF At(s, 1 + 1) = "f" THEN 1 + 2 ELSE 1 + 1
    BY SizeIs
  <2>2. 1 + 1 = 2 /\ 1 + 2 = 3
    OBVIOUS
  <2> QED BY <2>1, <2>2
<1> HIDE DEF w
<1>3. w[2] \in Nat \ {0}
  BY <1>2
<1>4. h[2] = (IF At(s, w[2]) # "x" THEN w[2] ELSE IF At(s, w[2] + 2) = "f" THEN w[2] + 3 ELSE w[2] + 2)
  <2>1. Size(s, w[2] + 1)[2] = IF At(s, (w[2] + 1) + 1) = "f" THEN (w[2] + 1) + 2 ELSE (w[2] + 1) + 1
    BY SizeIs
  <2>2. (w[2] + 1) + 1 = w[2] + 2 /\ (w[2] + 1) + 2 = w[2] + 3
    BY <1>3
  <2>3. CASE hasH
    BY <2>1, <2>2, <2>3
  <2>4. CASE ~hasH
    BY <2>4
  <2> QED BY <2>3, <2>4
<1> HIDE DEF h
<1>5. h[2] \in Nat \ {0}
  BY <1>3, <1>4
<1>6. x[2] = (IF At(s, h[2]) \in Signs THEN h[2] + 2 ELSE h[2])
  BY DEF Signs
<1> HIDE DEF x
<1>7. x[2] \in Nat \ {0}
  BY <1>5, <1>6
<1>8. y[2] = (IF At(s, x[2]) \in Signs THEN x[2] + 2 ELSE x[2])
  BY DEF Signs
<1> HIDE DEF y
<1>9. y[2] \in Nat \ {0}
  BY <1>7, <1>8
<1>10. Ends(s, w[2], h[2], x[2], y[2])
  BY <1>2, <1>4, <1>6, <1>8, Zenon DEF Ends
<1>11. ~refused <=> Accepted(s, w[2], h[2], x[2], y[2])
  BY Zenon DEF Accepted, Signs
<1> HIDE DEF refused
<1>12. refused => c.crop = FALSE
  <2> SUFFICES ASSUME refused PROVE c.crop = FALSE
    OBVIOUS
  <2>1. c = UnsetCrop
    BY <1>1
  <2> QED BY <2>1 DEF UnsetCrop
<1>13. ~refused => c.crop = TRUE
  <2> SUFFICES ASSUME ~refused PROVE c.crop = TRUE
    OBVIOUS
  <2>1. c = [crop |-> TRUE, width |-> w[1], height |-> h[1], xoffset |-> x[1], yoffset |-> y[1]]
    BY <1>1
  <2> QED BY <2>1
<1>14. c.crop \in BOOLEAN /\ (c.crop <=> Accepted(s, w[2], h[2], x[2], y[2]))
  BY <1>11, <1>12, <1>13, Zenon
<1> QED BY <1>3, <1>5, <1>7, <1>9, <1>10, <1>14, Zenon

\* The tokens of two pieces in a row.
LEMMA AtTwo ==
  ASSUME NEW a \in Seq(Tokens), NEW b \in Seq(Tokens), NEW i \in Nat \ {0}
  PROVE  At(a \o b, i) = IF i <= Len(a) THEN a[i] ELSE At(b, i - Len(a))
<1>1. Len(a) \in Nat /\ Len(b) \in Nat /\ Len(a \o b) = Len(a) + Len(b)
  OBVIOUS
<1>2. CASE i <= Len(a)
  <2>1. (a \o b)[i] = a[i]
    BY <1>2, <1>1
  <2> QED BY <2>1, <1>1, <1>2 DEF At
<1>3. CASE ~(i <= Len(a)) /\ i <= Len(a) + Len(b)
  <2>1. (a \o b)[i] = b[i - Len(a)]
    BY <1>3, <1>1
  <2>2. i - Len(a) <= Len(b)
    BY <1>3, <1>1
  <2> QED BY <2>1, <2>2, <1>1, <1>3 DEF At
<1>4. CASE ~(i <= Len(a)) /\ ~(i <= Len(a) + Len(b))
  <2>1. ~(i - Len(a) <= Len(b))
    BY <1>4, <1>1
  <2> QED BY <2>1, <1>1, <1>4 DEF At
<1> QED BY <1>2, <1>3, <1>4

LEMMA AtFour ==
  ASSUME NEW a \in Seq(Tokens), NEW b \in Seq(Tokens), NEW x \in Seq(Tokens), NEW y \in Seq(Tokens),
         NEW i \in Nat \ {0}
  PROVE  At(a \o b \o x \o y, i) =
           IF i <= Len(a) THEN a[i]
           ELSE IF i <= Len(a) + Len(b) THEN b[i - Len(a)]
           ELSE IF i <= Len(a) + Len(b) + Len(x) THEN x[i - (Len(a) + Len(b))]
           ELSE IF i <= Len(a) + Len(b) + Len(x) + Len(y) THEN y[i - (Len(a) + Len(b) + Len(x))]
           ELSE "end"
<1> DEFINE p == a \o b
           q == p \o x
           u == q \o y
<1>1. p \in Seq(Tokens)
  OBVIOUS
<1>2. At(p, i) = IF i <= Len(a) THEN a[i] ELSE At(b, i - Len(a))
  BY AtTwo
<1>3. Len(p) = Len(a) + Len(b)
  OBVIOUS
<1> HIDE DEF p
<1>4. q \in Seq(Tokens)
  BY <1>1
<1>5. At(q, i) = IF i <= Len(p) THEN At(p, i) ELSE At(x, i - Len(p))
  BY <1>1, AtTwo DEF At
<1>6. Len(q) = Len(p) + Len(x)
  BY <1>1
<1> HIDE DEF q
<1>7. At(u, i) = IF i <= Len(q) THEN At(q, i) ELSE At(y, i - Len(q))
  BY <1>4, AtTwo DEF At
<1> HIDE DEF u
<1>8. Len(a) \in Nat /\ Len(b) \in Nat /\ Len(x) \in Nat /\ Len(y) \in Nat
  OBVIOUS
<1>9. At(u, i) = (IF i <= Len(a) THEN a[i]
           ELSE IF i <= Len(a) + Len(b) THEN b[i - Len(a)]
           ELSE IF i <= Len(a) + Len(b) + Len(x) THEN x[i - (Len(a) + Len(b))]
           ELSE IF i <= Len(a) + Len(b) + Len(x) + Len(y) THEN y[i - (Len(a) + Len(b) + Len(x))]
           ELSE "end")
  <2> DEFINE A == Len(a)
             B == Len(b)
             X == Len(x)
             Y == Len(y)
  <2>1. At(b, i - A) = IF i - A <= B THEN b[i - A] ELSE "end"
    BY DEF At
  <2>2. At(x, i - (A + B)) = IF i - (A + B) <= X THEN x[i - (A + B)] ELSE "end"
    BY DEF At
  <2>3. At(y, i - (A + B + X)) = IF i - (A + B + X) <= Y THEN y[i - (A + B + X)] ELSE "end"
    BY DEF At
  <2>4. A \in Nat /\ B \in Nat /\ X \in Nat /\ Y \in Nat
    BY <1>8
  <2>5. Len(p) = A + B /\ Len(q) = A + B + X
    BY <1>3, <1>6
  <2> HIDE DEF A, B, X, Y
  <2>6. At(u, i) = IF i <= A + B + X THEN At(q, i) ELSE At(y, i - (A + B + X))
    BY <1>7, <2>5
  <2>7. At(q, i) = IF i <= A + B THEN At(p, i) ELSE At(x, i - (A + B))
    BY <1>5, <2>5
  <2>8. At(p, i) = IF i <= A THEN a[i] ELSE At(b, i - A)
    BY <1>2 DEF A
  <2>9. At(u, i) = (IF i <= A THEN a[i]
           ELSE IF i <= A + B THEN b[i - A]
           ELSE IF i <= A + B + X THEN x[i - (A + B)]
           ELSE IF i <= A + B + X + Y THEN y[i - (A + B + X)]
           ELSE "end")
    BY <2>1, <2>2, <2>3, <2>4, <2>6, <2>7, <2>8
  <2> QED BY <2>9 DEF A, B, X, Y
<1> QED BY <1>9 DEF u, q, p

(* A specification is known by its tokens. *)
LEMMA Joined ==
  ASSUME NEW s \in Seq(Tokens), NEW u \in Seq(Tokens),
         \A i \in 1..Len(u) : At(s, i) = u[i], At(s, Len(u) + 1) = "end"
  PROVE  s = u
<1>1. Len(s) \in Nat /\ Len(u) \in Nat /\ DOMAIN s = 1..Len(s) /\ DOMAIN u = 1..Len(u)
      /\ (\A i \in 1..Len(s) : s[i] \in Tokens) /\ (\A i \in 1..Len(u) : u[i] \in Tokens)
  OBVIOUS
<1>2. "end" \notin Tokens
  BY DEF Tokens
<1>3. Len(s) <= Len(u)
  <2> SUFFICES ASSUME Len(u) + 1 <= Len(s) PROVE FALSE
    BY <1>1
  <2>1. At(s, Len(u) + 1) = s[Len(u) + 1] /\ Len(u) + 1 \in 1..Len(s)
    BY <1>1 DEF At
  <2> QED BY <2>1, <1>1, <1>2
<1>4. Len(u) <= Len(s)
  <2> SUFFICES ASSUME ~(Len(u) <= Len(s)) PROVE FALSE
    OBVIOUS
  <2>1. At(s, Len(u)) = "end" /\ Len(u) \in 1..Len(u)
    BY <1>1 DEF At
  <2> QED BY <2>1, <1>1, <1>2
<1>5. Len(s) = Len(u)
  <2> DEFINE S == Len(s)
             U == Len(u)
  <2>1. S \in Nat /\ U \in Nat /\ S <= U /\ U <= S
    BY <1>1, <1>3, <1>4, Zenon
  <2> HIDE DEF S, U
  <2>2. S = U
    BY <2>1
  <2> QED BY <2>2 DEF S, U
<1>6. \A i \in 1..Len(s) : s[i] = u[i]
  BY <1>1, <1>5 DEF At
<1> QED BY <1>1, <1>5, <1>6

\* The pieces of a specification, by their tokens.
Widths == {<<>>, <<"n">>, <<"n", "f">>}
Heights == {<<>>, <<"x", "n">>, <<"x", "n", "f">>}
Offsets == Optional({<<"+", "n">>, <<"-", "n">>})

IsWidth(a, A) ==
  \/ A = 0
  \/ A = 1 /\ a[1] = "n"
  \/ A = 2 /\ a[1] = "n" /\ a[2] = "f"
IsHeight(b, B) ==
  \/ B = 0
  \/ B = 2 /\ b[1] = "x" /\ b[2] = "n"
  \/ B = 3 /\ b[1] = "x" /\ b[2] = "n" /\ b[3] = "f"
IsOffset(x, X) ==
  \/ X = 0
  \/ X = 2 /\ x[1] \in Signs /\ x[2] = "n"

LEMMA PiecesAre ==
  /\ \A a \in Widths : a \in Seq(Tokens) /\ IsWidth(a, Len(a))
  /\ \A b \in Heights : b \in Seq(Tokens) /\ IsHeight(b, Len(b))
  /\ \A x \in Offsets : x \in Seq(Tokens) /\ IsOffset(x, Len(x))
<1>1. \A a \in Widths : a \in Seq(Tokens) /\ IsWidth(a, Len(a))
  <2>1. <<>> \in Seq(Tokens) /\ Len(<<>>) = 0
    OBVIOUS
  <2>2. <<"n">> \in Seq(Tokens) /\ Len(<<"n">>) = 1 /\ <<"n">>[1] = "n"
    BY DEF Tokens
  <2>3. <<"n", "f">> \in Seq(Tokens) /\ Len(<<"n", "f">>) = 2 /\ <<"n", "f">>[1] = "n" /\ <<"n", "f">>[2] = "f"
    BY DEF Tokens
  <2> QED BY <2>1, <2>2, <2>3, Zenon DEF Widths, IsWidth
<1>2. \A b \in Heights : b \in Seq(Tokens) /\ IsHeight(b, Len(b))
  <2>1. <<>> \in Seq(Tokens) /\ Len(<<>>) = 0
    OBVIOUS
  <2>2. /\ <<"x", "n">> \in Seq(Tokens) /\ Len(<<"x", "n">>) = 2
        /\ <<"x", "n">>[1] = "x" /\ <<"x", "n">>[2] = "n"
    BY DEF Tokens
  <2>3. /\ <<"x", "n", "f">> \in Seq(Tokens) /\ Len(<<"x", "n", "f">>) = 3
        /\ <<"x", "n", "f">>[1] = "x" /\ <<"x", "n", "f">>[2] = "n" /\ <<"x", "n", "f">>[3] = "f"
    BY DEF Tokens
  <2> QED BY <2>1, <2>2, <2>3, Zenon DEF Heights, IsHeight
<1>3. \A x \in Offsets : x \in Seq(Tokens) /\ IsOffset(x, Len(x))
  <2>1. <<>> \in Seq(Tokens) /\ Len(<<>>) = 0
    OBVIOUS
  <2>2. \A t \in Signs : /\ <<t, "n">> \in Seq(Tokens) /\ Len(<<t, "n">>) = 2
                         /\ <<t, "n">>[1] = t /\ <<t, "n">>[2] = "n"
    BY DEF Tokens, Signs
  <2>3. "+" \in Signs /\ "-" \in Signs
    BY DEF Signs
  <2> QED BY <2>1, <2>2, <2>3, Zenon DEF Offsets, Optional, IsOffset
<1> QED BY <1>1, <1>2, <1>3

\* What is said by a piece of each set in a row.
Rows(A, B, X, Y) == {a \o b \o x \o y : a \in A, b \in B, x \in X, y \in Y}

LEMMA RowsAre ==
  ASSUME NEW u, NEW A, NEW B, NEW X, NEW Y
  PROVE  u \in Rows(A, B, X, Y) <=> \E a \in A, b \in B, x \in X, y \in Y : u = a \o b \o x \o y
BY SMTT(30) DEF Rows

Row(a, b, x, y) == a \o b \o x \o y

LEMMA LanguageIs ==
  ASSUME NEW u
  PROVE  u \in Language <=> \E a \in Widths, b \in Heights, x \in Offsets, y \in Offsets : u = Row(a, b, x, y)
<1>1. Language = Rows(Widths, Heights, Offsets, Offsets)
  BY DEF Rows, Language, Widths, Heights, Offsets
<1>2. u \in Rows(Widths, Heights, Offsets, Offsets)
        <=> \E a \in Widths, b \in Heights, x \in Offsets, y \in Offsets : u = a \o b \o x \o y
  BY RowsAre
<1> QED BY <1>1, <1>2, Zenon DEF Row

\* A piece that stands in the specification from k up to l.
Stands(s, k, l, p) ==
  /\ Len(p) = l - k
  /\ \A i \in 1..Len(p) : p[i] = At(s, k - 1 + i)

(* What the parser takes for the parts of a specification that it accepts. *)
LEMMA PiecesRead ==
  ASSUME NEW s \in Seq(Tokens), NEW w \in Nat \ {0}, NEW h \in Nat \ {0}, NEW x \in Nat \ {0}, NEW y \in Nat \ {0},
         Ends(s, w, h, x, y), Accepted(s, w, h, x, y)
  PROVE  \E a \in Widths, b \in Heights, p \in Offsets, q \in Offsets :
           Stands(s, 1, w, a) /\ Stands(s, w, h, b) /\ Stands(s, h, x, p) /\ Stands(s, x, y, q)
<1>1. \E a \in Widths : Stands(s, 1, w, a)
  <2>1. CASE At(s, 1) # "n"
    <3>1. w = 1
      BY <2>1 DEF Ends
    <3> QED BY <3>1 DEF Widths, Stands
  <2>2. CASE At(s, 1) = "n" /\ At(s, 2) # "f"
    <3>1. w = 2
      BY <2>2 DEF Ends
    <3>5. <<"n">> \in Widths
      BY DEF Widths
    <3>6. Stands(s, 1, w, <<"n">>)
      BY <3>1, <2>2 DEF Stands
    <3> QED BY <3>5, <3>6, Zenon
  <2>3. CASE At(s, 1) = "n" /\ At(s, 2) = "f"
    <3>1. w = 3
      BY <2>3 DEF Ends
    <3>5. <<"n", "f">> \in Widths
      BY DEF Widths
    <3>6. Stands(s, 1, w, <<"n", "f">>)
      BY <3>1, <2>3 DEF Stands
    <3> QED BY <3>5, <3>6, Zenon
  <2> QED BY <2>1, <2>2, <2>3
<1>2. \E b \in Heights : Stands(s, w, h, b)
  <2>1. CASE At(s, w) # "x"
    <3>1. h = w
      BY <2>1 DEF Ends
    <3> QED BY <3>1 DEF Heights, Stands
  <2>2. CASE At(s, w) = "x" /\ At(s, w + 2) # "f"
    <3>1. h = w + 2 /\ At(s, w + 1) = "n"
      BY <2>2 DEF Ends, Accepted
    <3>2. w - 1 + 1 = w /\ w - 1 + 2 = w + 1
      OBVIOUS
    <3>5. <<"x", "n">> \in Heights
      BY DEF Heights
    <3>6. Stands(s, w, h, <<"x", "n">>)
      BY <3>1, <3>2, <2>2 DEF Stands
    <3> QED BY <3>5, <3>6, Zenon
  <2>3. CASE At(s, w) = "x" /\ At(s, w + 2) = "f"
    <3>1. h = w + 3 /\ At(s, w + 1) = "n"
      BY <2>3 DEF Ends, Accepted
    <3>2. w - 1 + 1 = w /\ w - 1 + 2 = w + 1 /\ w - 1 + 3 = w + 2
      OBVIOUS
    <3>5. <<"x", "n", "f">> \in Heights
      BY DEF Heights
    <3>6. Stands(s, w, h, <<"x", "n", "f">>)
      BY <3>1, <3>2, <2>3 DEF Stands
    <3> QED BY <3>5, <3>6, Zenon
  <2> QED BY <2>1, <2>2, <2>3
<1>3. \A k, l \in Nat \ {0} :
        l = (IF At(s, k) \in Signs THEN k + 2 ELSE k) /\ (At(s, k) \in Signs => At(s, k + 1) = "n")
        => \E p \in Offsets : Stands(s, k, l, p)
  <2> TAKE k, l \in Nat \ {0}
  <2> HAVE l = (IF At(s, k) \in Signs THEN k + 2 ELSE k) /\ (At(s, k) \in Signs => At(s, k + 1) = "n")
  <2>1. CASE At(s, k) \notin Signs
    BY <2>1 DEF Offsets, Optional, Stands
  <2>2. CASE At(s, k) \in Signs
    <3>1. l = k + 2 /\ At(s, k + 1) = "n" /\ k - 1 + 1 = k /\ k - 1 + 2 = k + 1
      BY <2>2
    <3>2. <<At(s, k), "n">> \in Offsets
      BY <2>2 DEF Offsets, Optional, Signs
    <3>3. Stands(s, k, l, <<At(s, k), "n">>)
      BY <3>1 DEF Stands
    <3> QED BY <3>2, <3>3, Zenon
  <2> QED BY <2>1, <2>2
<1>4. \E p \in Offsets : Stands(s, h, x, p)
  BY <1>3, Zenon DEF Ends, Accepted
<1>5. \E q \in Offsets : Stands(s, x, y, q)
  <2>1. y = (IF At(s, x) \in Signs THEN x + 2 ELSE x) /\ (At(s, x) \in Signs => At(s, x + 1) = "n")
    BY DEF Ends, Accepted
  <2> QED BY <2>1, <1>3, Zenon
<1> QED BY <1>1, <1>2, <1>4, <1>5, Zenon

LEMMA AcceptedIsSpoken ==
  ASSUME NEW s \in Seq(Tokens), NEW w \in Nat \ {0}, NEW h \in Nat \ {0}, NEW x \in Nat \ {0}, NEW y \in Nat \ {0},
         Ends(s, w, h, x, y), Accepted(s, w, h, x, y)
  PROVE  s \in Language
<1>0. PICK a \in Widths, b \in Heights, p \in Offsets, q \in Offsets :
           Stands(s, 1, w, a) /\ Stands(s, w, h, b) /\ Stands(s, h, x, p) /\ Stands(s, x, y, q)
  BY PiecesRead, Zenon
<1>1. /\ Len(a) = w - 1 /\ \A i \in 1..Len(a) : a[i] = At(s, i)
      /\ Len(b) = h - w /\ \A i \in 1..Len(b) : b[i] = At(s, w - 1 + i)
      /\ Len(p) = x - h /\ \A i \in 1..Len(p) : p[i] = At(s, h - 1 + i)
      /\ Len(q) = y - x /\ \A i \in 1..Len(q) : q[i] = At(s, x - 1 + i)
  <2>1. \A i \in 1..Len(a) : 1 - 1 + i = i
    BY PiecesAre
  <2> QED BY <1>0, <2>1, Zenon DEF Stands
<1>2. a \in Seq(Tokens) /\ b \in Seq(Tokens) /\ p \in Seq(Tokens) /\ q \in Seq(Tokens)
  BY PiecesAre, Zenon
<1> DEFINE u == a \o b \o p \o q
<1>3. u \in Seq(Tokens) /\ Len(u) = Len(a) + Len(b) + Len(p) + Len(q)
  BY <1>2
<1>4. u \in Language
  BY LanguageIs, Zenon DEF Row
<1>5. \A i \in Nat \ {0} : At(u, i) =
           IF i <= Len(a) THEN a[i]
           ELSE IF i <= Len(a) + Len(b) THEN b[i - Len(a)]
           ELSE IF i <= Len(a) + Len(b) + Len(p) THEN p[i - (Len(a) + Len(b))]
           ELSE IF i <= Len(a) + Len(b) + Len(p) + Len(q) THEN q[i - (Len(a) + Len(b) + Len(p))]
           ELSE "end"
  <2> TAKE i \in Nat \ {0}
  <2> QED BY <1>2, AtFour
<1> HIDE DEF u
<1>6. /\ Len(a) \in Nat /\ Len(b) \in Nat /\ Len(p) \in Nat /\ Len(q) \in Nat
  BY <1>2
<1>7. Len(u) = y - 1
  BY <1>1, <1>3
<1>8. ASSUME NEW i \in 1..Len(u) PROVE At(s, i) = u[i]
  <2>1. u[i] = At(u, i) /\ i \in Nat \ {0} /\ i <= y - 1
    BY <1>7 DEF At
  <2>2. CASE i <= w - 1
    <3>1. At(u, i) = a[i] /\ i \in 1..Len(a)
      BY <2>1, <2>2, <1>1, <1>5
    <3> QED BY <2>1, <3>1, <1>1
  <2>3. CASE ~(i <= w - 1) /\ i <= h - 1
    <3>1. At(u, i) = b[i - (w - 1)]
      BY <2>1, <2>3, <1>1, <1>5, <1>6
    <3>2. i - (w - 1) \in 1..Len(b) /\ w - 1 + (i - (w - 1)) = i
      BY <2>1, <2>3, <1>1
    <3>3. b[i - (w - 1)] = At(s, w - 1 + (i - (w - 1)))
      BY <3>2, <1>1, Zenon
    <3> QED BY <2>1, <3>1, <3>2, <3>3
  <2>4. CASE ~(i <= w - 1) /\ ~(i <= h - 1) /\ i <= x - 1
    <3>1. At(u, i) = p[i - (h - 1)]
      BY <2>1, <2>4, <1>1, <1>5, <1>6
    <3>2. i - (h - 1) \in 1..Len(p) /\ h - 1 + (i - (h - 1)) = i
      BY <2>1, <2>4, <1>1
    <3>3. p[i - (h - 1)] = At(s, h - 1 + (i - (h - 1)))
      BY <3>2, <1>1, Zenon
    <3> QED BY <2>1, <3>1, <3>2, <3>3
  <2>5. CASE ~(i <= w - 1) /\ ~(i <= h - 1) /\ ~(i <= x - 1)
    <3>1. At(u, i) = q[i - (x - 1)]
      BY <2>1, <2>5, <1>1, <1>5, <1>6
    <3>2. i - (x - 1) \in 1..Len(q) /\ x - 1 + (i - (x - 1)) = i
      BY <2>1, <2>5, <1>1
    <3>3. q[i - (x - 1)] = At(s, x - 1 + (i - (x - 1)))
      BY <3>2, <1>1, Zenon
    <3> QED BY <2>1, <3>1, <3>2, <3>3
  <2> QED BY <2>2, <2>3, <2>4, <2>5
<1>9. At(s, Len(u) + 1) = "end"
  <2>1. Len(u) + 1 = y
    BY <1>7
  <2> QED BY <2>1 DEF Accepted
<1>10. s = u
  BY <1>3, <1>8, <1>9, Joined, Zenon
<1> QED BY <1>4, <1>10

(* What the parser finds in a specification of four pieces in a row; one    *)
(* offset is the first of the two.                                         *)
LEMMA SpokenIsAccepted ==
  ASSUME NEW a \in Widths, NEW b \in Heights, NEW p \in Offsets, NEW q \in Offsets, p = <<>> => q = <<>>,
         NEW w \in Nat \ {0}, NEW h \in Nat \ {0}, NEW x \in Nat \ {0}, NEW y \in Nat \ {0},
         Ends(a \o b \o p \o q, w, h, x, y)
  PROVE  Accepted(a \o b \o p \o q, w, h, x, y)
<1> DEFINE u == a \o b \o p \o q
           A == Len(a)
           B == Len(b)
           P == Len(p)
           Q == Len(q)
<1>1. a \in Seq(Tokens) /\ b \in Seq(Tokens) /\ p \in Seq(Tokens) /\ q \in Seq(Tokens)
  BY PiecesAre, Zenon
<1>2. IsWidth(a, A) /\ IsHeight(b, B) /\ IsOffset(p, P) /\ IsOffset(q, Q)
  BY PiecesAre, Zenon
<1>3. A \in Nat /\ B \in Nat /\ P \in Nat /\ Q \in Nat
  BY <1>1
<1>4. P = 0 => Q = 0
  BY <1>1
<1>5. \A i \in Nat \ {0} : At(u, i) =
           IF i <= A THEN a[i]
           ELSE IF i <= A + B THEN b[i - A]
           ELSE IF i <= A + B + P THEN p[i - (A + B)]
           ELSE IF i <= A + B + P + Q THEN q[i - (A + B + P)]
           ELSE "end"
  <2> TAKE i \in Nat \ {0}
  <2> QED BY <1>1, AtFour
<1>6. Ends(u, w, h, x, y)
  OBVIOUS
<1> HIDE DEF u, A, B, P, Q
\* The first token of what follows each piece.
<1>7. At(u, A + B + P + Q + 1) = "end"
  BY <1>3, <1>5
<1>8. /\ Q # 0 => At(u, A + B + P + 1) \in Signs /\ At(u, A + B + P + 1 + 1) = "n"
      /\ Q = 0 => At(u, A + B + P + 1) = "end"
  <2>1. CASE Q = 0
    BY <2>1, <1>3, <1>7
  <2>2. CASE Q # 0
    <3>1. Q = 2 /\ q[1] \in Signs /\ q[2] = "n"
      BY <2>2, <1>2 DEF IsOffset
    <3>2. At(u, A + B + P + 1) = q[1] /\ At(u, A + B + P + 1 + 1) = q[2]
      BY <3>1, <1>3, <1>5
    <3> QED BY <3>1, <3>2
  <2> QED BY <2>1, <2>2
<1>9. /\ P # 0 => At(u, A + B + 1) \in Signs /\ At(u, A + B + 1 + 1) = "n"
      /\ P = 0 => At(u, A + B + 1) = "end"
  <2>1. CASE P = 0
    <3>1. A + B + 1 = A + B + P + 1
      BY <2>1, <1>3
    <3> QED BY <2>1, <3>1, <1>4, <1>8
  <2>2. CASE P # 0
    <3>1. P = 2 /\ p[1] \in Signs /\ p[2] = "n"
      BY <2>2, <1>2 DEF IsOffset
    <3>2. At(u, A + B + 1) = p[1] /\ At(u, A + B + 1 + 1) = p[2]
      BY <3>1, <1>3, <1>5
    <3> QED BY <3>1, <3>2
  <2> QED BY <2>1, <2>2
<1>10. /\ B # 0 => /\ At(u, A + 1) = "x" /\ At(u, A + 1 + 1) = "n"
                   /\ B = (IF At(u, A + 1 + 2) = "f" THEN 3 ELSE 2)
       /\ B = 0 => At(u, A + 1) \in {"+", "-", "end"}
  <2>1. CASE B = 0
    <3>1. A + 1 = A + B + 1
      BY <2>1, <1>3
    <3>2. At(u, A + 1) \in {"+", "-", "end"}
      BY <3>1, <1>9 DEF Signs
    <3> QED BY <2>1, <3>2
  <2>2. CASE B = 2 /\ b[1] = "x" /\ b[2] = "n"
    <3>1. At(u, A + 1) = b[1] /\ At(u, A + 1 + 1) = b[2]
      BY <2>2, <1>3, <1>5
    <3>2. A + 1 + 2 = A + B + 1
      BY <2>2, <1>3
    <3>3. At(u, A + 1 + 2) # "f"
      BY <3>2, <1>9 DEF Signs
    <3> QED BY <2>2, <3>1, <3>3
  <2>3. CASE B = 3 /\ b[1] = "x" /\ b[2] = "n" /\ b[3] = "f"
    <3>1. At(u, A + 1) = b[1] /\ At(u, A + 1 + 1) = b[2] /\ At(u, A + 1 + 2) = b[3]
      BY <2>3, <1>3, <1>5
    <3> QED BY <2>3, <3>1
  <2> QED BY <2>1, <2>2, <2>3, <1>2 DEF IsHeight
<1>11. A = (IF At(u, 1) # "n" THEN 0 ELSE IF At(u, 2) = "f" THEN 2 ELSE 1)
  <2>1. At(u, A + 1) \notin {"n", "f"}
    BY <1>10
  <2>2. CASE A = 0
    BY <2>1, <2>2
  <2>3. CASE A = 1 /\ a[1] = "n"
    <3>1. At(u, 1) = a[1]
      BY <2>3, <1>3, <1>5
    <3>2. At(u, 2) # "f"
      BY <2>1, <2>3
    <3> QED BY <2>3, <3>1, <3>2
  <2>4. CASE A = 2 /\ a[1] = "n" /\ a[2] = "f"
    <3>1. At(u, 1) = a[1] /\ At(u, 2) = a[2]
      BY <2>4, <1>3, <1>5
    <3> QED BY <2>4, <3>1
  <2> QED BY <2>2, <2>3, <2>4, <1>2 DEF IsWidth
<1>12. w = A + 1
  BY <1>6, <1>11, <1>3 DEF Ends
<1>13. h = A + B + 1
  <2>1. h = (IF At(u, w) # "x" THEN w ELSE IF At(u, w + 2) = "f" THEN w + 3 ELSE w + 2)
    BY <1>6 DEF Ends
  <2> QED BY <2>1, <1>12, <1>10, <1>3
<1>14. x = A + B + P + 1
  <2>1. x = (IF At(u, h) \in Signs THEN h + 2 ELSE h)
    BY <1>6 DEF Ends
  <2>2. P = 0 \/ P = 2
    BY <1>2 DEF IsOffset
  <2>3. "end" \notin Signs
    BY DEF Signs
  <2> QED BY <2>1, <2>2, <2>3, <1>13, <1>9, <1>3
<1>15. y = A + B + P + Q + 1
  <2>1. y = (IF At(u, x) \in Signs THEN x + 2 ELSE x)
    BY <1>6 DEF Ends
  <2>2. Q = 0 \/ Q = 2
    BY <1>2 DEF IsOffset
  <2>3. "end" \notin Signs
    BY DEF Signs
  <2> QED BY <2>1, <2>2, <2>3, <1>14, <1>8, <1>3
<1>16. At(u, w) = "x" => At(u, w + 1) = "n"
  BY <1>10, <1>12
<1>17. At(u, h) \in Signs => At(u, h + 1) = "n"
  <2>1. "end" \notin Signs
    BY DEF Signs
  <2> QED BY <2>1, <1>9, <1>13
<1>18. At(u, x) \in Signs => At(u, x + 1) = "n"
  <2>1. "end" \notin Signs
    BY DEF Signs
  <2> QED BY <2>1, <1>8, <1>14
<1>19. At(u, y) = "end"
  BY <1>7, <1>15
<1>20. Accepted(u, w, h, x, y)
  BY <1>16, <1>17, <1>18, <1>19, Zenon DEF Accepted
<1> QED BY <1>20 DEF u

\* Only one of two offsets is the first of them.
LEMMA OneOffset ==
  ASSUME NEW a \in Widths, NEW b \in Heights, NEW p \in Offsets, NEW q \in Offsets
  PROVE  \E k \in Offsets, l \in Offsets : (k = <<>> => l = <<>>) /\ Row(a, b, p, q) = Row(a, b, k, l)
<1>1. CASE p = <<>> => q = <<>>
  BY <1>1, Zenon
<1>2. CASE p = <<>>
  <2>1. a \in Seq(Tokens) /\ b \in Seq(Tokens) /\ p \in Seq(Tokens) /\ q \in Seq(Tokens)
    BY PiecesAre, Zenon
  <2> DEFINE c == a \o b
             d == a \o b \o q
  <2>2. c \in Seq(Tokens) /\ d \in Seq(Tokens)
    BY <2>1
  <2>3. c \o <<>> = c /\ d \o <<>> = d
    BY <2>2, ConcatEmptySeq
  <2>4. a \o b \o p \o q = a \o b \o q \o p
    BY <1>2, <2>3
  <2> QED BY <1>2, <2>4, Zenon DEF Row
<1> QED BY <1>1, <1>2

(* A specification is accepted when it is in the language.                 *)
LEMMA UnderstoodIs ==
  ASSUME NEW s \in Seq(Tokens), NEW c, c = jtransform_parse_crop_spec(s)
  PROVE  c.crop \in BOOLEAN /\ (c.crop <=> s \in Language)
<1>1. PICK w \in Nat \ {0}, h \in Nat \ {0}, x \in Nat \ {0}, y \in Nat \ {0} :
        Ends(s, w, h, x, y) /\ c.crop \in BOOLEAN /\ (c.crop <=> Accepted(s, w, h, x, y))
  BY ParseIs, Zenon
<1>2. Accepted(s, w, h, x, y) => s \in Language
  BY <1>1, AcceptedIsSpoken, Zenon
<1>3. s \in Language => Accepted(s, w, h, x, y)
  <2> SUFFICES ASSUME s \in Language PROVE Accepted(s, w, h, x, y)
    OBVIOUS
  <2>1. PICK a \in Widths, b \in Heights, k \in Offsets, l \in Offsets : s = Row(a, b, k, l)
    BY LanguageIs, Zenon
  <2>2. PICK p \in Offsets, q \in Offsets : (p = <<>> => q = <<>>) /\ Row(a, b, k, l) = Row(a, b, p, q)
    BY OneOffset, Zenon
  <2>3. Ends(Row(a, b, p, q), w, h, x, y)
    BY <1>1, <2>1, <2>2, Zenon
  <2>4. Accepted(Row(a, b, p, q), w, h, x, y)
    BY <2>2, <2>3, SpokenIsAccepted DEF Row
  <2> QED BY <2>1, <2>2, <2>4, Zenon
<1> QED BY <1>1, <1>2, <1>3, Zenon

(***************************************************************************)
(* The invariant.  A session keeps, of every request, the answer it got,   *)
(* which depends on the frame of the picture and not on its coefficients;  *)
(* of every output, that its blocks come from where the request says; and, *)
(* as long as something is to be written, that the coefficients are still  *)
(* those that were read: only a flip that is alone in its session works in *)
(* place.                                                                  *)
(***************************************************************************)
IsSeq(s) == s \in Seq({s[i] : i \in DOMAIN s})

Answered(f, q, xs) ==
  /\ IsSeq(xs) /\ Len(xs) <= Len(q)
  /\ \A i \in 1..Len(xs) : xs[i] = jtransform_request_workspace(f, q[i], slow_hflip(q, i))

AllGranted(q, xs) == Len(xs) <= Len(q) /\ \A i \in 1..Len(xs) : xs[i].ret = "requested"

AllMade(f, q, xs, os) ==
  /\ IsSeq(os) /\ Len(os) <= Len(q)
  /\ \A i \in 1..Len(os) : Made(f, q[i], slow_hflip(q, i), xs[i], os[i])

Failures == {"imperfect", "JERR_BAD_CROP_SPEC", "JERR_CONVERSION_NOTIMPL"}

Working(f) ==
  /\ stage \in {"request", "transform", "written"} \cup Failures
  /\ asked \in Sessions /\ f \in Frames /\ Answered(f, asked, xinfo)
  /\ stage = "request" => outputs = <<>> /\ Len(xinfo) < Len(asked)
  /\ stage \in {"transform", "written"} => Len(xinfo) = Len(asked) /\ AllMade(f, asked, xinfo, outputs)
  /\ stage = "transform" => Len(outputs) < Len(asked)
  /\ stage \in {"request", "transform"} => source = Picture(f)
  /\ stage \in {"request", "transform", "written"} => AllGranted(asked, xinfo)

TransformInv ==
  \/ stage = "start" /\ xinfo = <<>> /\ outputs = <<>>
  \/ stage = "parsed" /\ asked \in Specs /\ xinfo = jtransform_parse_crop_spec(asked) /\ outputs = <<>>
  \/ Working(Original)

\* What the assumptions say of a picture and of a session.
LEMMA FramesAre ==
  ASSUME NEW f \in Frames
  PROVE  IsFrame(f) /\ f = [w |-> f.w, h |-> f.h, samp |-> f.samp]
<1>1. /\ f.w \in Nat \ {0} /\ f.h \in Nat \ {0} /\ f.samp \in Seq(Factors) \ {<<>>}
      /\ f = [w |-> f.w, h |-> f.h, samp |-> f.samp]
  BY FramesAssumption
<1>2. DOMAIN f.samp = 1..Len(f.samp) /\ Len(f.samp) \in Nat \ {0} /\ \A i \in DOMAIN f.samp : f.samp[i] \in Factors
  BY <1>1
<1>3. Sampling(f.samp)
  <2>1. 1 \in DOMAIN f.samp
    BY <1>2
  <2> QED BY <1>2, <2>1, Zenon DEF Sampling
<1> QED BY <1>1, <1>2, <1>3 DEF IsFrame

LEMMA SessionsAre ==
  ASSUME NEW q \in Sessions
  PROVE  /\ Len(q) \in Nat \ {0}
         /\ \A i \in 1..Len(q) : IsRequest(q[i]) /\ q[i].spec \in Seq(Tokens)
<1>1. q \in Seq(TransformRequests) /\ q # <<>>
  BY SessionsAssumption
<1>2. Len(q) \in Nat \ {0} /\ \A i \in 1..Len(q) : q[i] \in TransformRequests
  BY <1>1
<1>3. ASSUME NEW r \in TransformRequests PROVE IsRequest(r) /\ r.spec \in Seq(Tokens)
  BY DEF TransformRequests, IsRequest, Tokens
<1> QED BY <1>2, <1>3

LEMMA Appended ==
  ASSUME NEW s, IsSeq(s), NEW e
  PROVE  /\ IsSeq(Append(s, e)) /\ Len(s) \in Nat /\ Len(Append(s, e)) = Len(s) + 1
         /\ \A i \in 1..Len(s) : Append(s, e)[i] = s[i]
         /\ Append(s, e)[Len(s) + 1] = e
<1> DEFINE S == {s[i] : i \in DOMAIN s} \cup {e}
           t == Append(s, e)
           T == {t[i] : i \in DOMAIN t}
<1>1. s \in Seq({s[i] : i \in DOMAIN s})
  BY DEF IsSeq
<1>2. s \in Seq(S)
  BY <1>1
<1>3. e \in S
  OBVIOUS
<1> HIDE DEF S
<1>4. /\ t \in Seq(S) /\ Len(s) \in Nat /\ Len(t) = Len(s) + 1
      /\ \A i \in 1..Len(s) : t[i] = s[i]
      /\ t[Len(s) + 1] = e
  BY <1>2, <1>3
<1> HIDE DEF t
<1>5. \A i \in 1..Len(t) : t[i] \in T
  BY <1>4
<1> HIDE DEF T
<1>6. t \in Seq(T)
  BY <1>4, <1>5
<1> QED BY <1>4, <1>6 DEF IsSeq, t, T

\* Only the frame of a picture is asked for, never its coefficients.
LEMMA PictureIs ==
  ASSUME NEW f
  PROVE  /\ Picture(f).w = f.w /\ Picture(f).h = f.h /\ Picture(f).samp = f.samp
         /\ \A r, slow : jtransform_request_workspace(Picture(f), r, slow) = jtransform_request_workspace(f, r, slow)
         /\ \A r, inf : jtransform_adjust_parameters(Picture(f), r, inf) = jtransform_adjust_parameters(f, r, inf)
<1> DEFINE p == Picture(f)
<1>1. p.w = f.w /\ p.h = f.h /\ p.samp = f.samp
  BY DEF Picture
<1> HIDE DEF p
<1>2. ASSUME NEW r, NEW slow
      PROVE  jtransform_request_workspace(p, r, slow) = jtransform_request_workspace(f, r, slow)
  <2>1. Components(p, r) = Components(f, r)
    BY <1>1, Zenon DEF Components
  <2>2. iMCU(p, r) = iMCU(f, r)
    BY <1>1, <2>1, Zenon DEF iMCU
  <2>3. Transformed(p, r) = Transformed(f, r)
    BY <1>1, Zenon DEF Transformed
  <2> QED BY <1>1, <2>1, <2>2, <2>3, Zenon DEF jtransform_request_workspace, RequestCropped
<1>3. ASSUME NEW r, NEW inf
      PROVE  jtransform_adjust_parameters(p, r, inf) = jtransform_adjust_parameters(f, r, inf)
  BY <1>1, Zenon DEF jtransform_adjust_parameters
<1> QED BY <1>1, <1>2, <1>3, Zenon DEF p

\* The answer to request i of a session.
LEMMA AnswerIs ==
  ASSUME NEW f \in Frames, NEW q \in Sessions, NEW i \in 1..Len(q), NEW inf,
         inf = jtransform_request_workspace(f, q[i], slow_hflip(q, i))
  PROVE  /\ IsFrame(f) /\ IsRequest(q[i])
         /\ inf.ret \in {"requested", "imperfect", "JERR_BAD_CROP_SPEC"}
         /\ jtransform_parse_crop_spec(q[i].spec).crop \in BOOLEAN
         /\ inf.ret = "requested" =>
              Answer(f, q[i], slow_hflip(q, i), jtransform_parse_crop_spec(q[i].spec), inf)
<1>1. IsFrame(f) /\ IsRequest(q[i]) /\ q[i].spec \in Seq(Tokens)
  BY FramesAre, SessionsAre, Zenon
<1>2. IsCrop(jtransform_parse_crop_spec(q[i].spec))
  BY <1>1, UnderstoodIs, Zenon DEF IsCrop
<1>3. /\ inf.ret \in {"requested", "imperfect", "JERR_BAD_CROP_SPEC"}
      /\ inf.ret = "requested" =>
              Answer(f, q[i], slow_hflip(q, i), jtransform_parse_crop_spec(q[i].spec), inf)
  BY <1>1, <1>2, RequestIs
<1> QED BY <1>1, <1>2, <1>3, Zenon DEF IsCrop

LEMMA EmptyIsSeq == IsSeq(<<>>) /\ Len(<<>>) = 0
BY DEF IsSeq

LEMMA StartInv == TransformInit => TransformInv
BY DEF TransformInit, TransformInv

LEMMA ParseInv == TransformInv /\ ParseSpec => TransformInv'
<1> SUFFICES ASSUME TransformInv, ParseSpec PROVE TransformInv'
  OBVIOUS
<1>1. outputs = <<>>
  BY DEF TransformInv, ParseSpec, Working, Failures
<1>2. /\ stage' = "parsed" /\ asked' \in Specs /\ xinfo' = jtransform_parse_crop_spec(asked')
      /\ outputs' = outputs
  BY Zenon DEF ParseSpec
<1> QED BY <1>1, <1>2, Zenon DEF TransformInv

LEMMA OpenInv == TransformInv /\ Open => TransformInv'
<1> SUFFICES ASSUME TransformInv, Open PROVE TransformInv'
  OBVIOUS
<1>1. xinfo = <<>> /\ outputs = <<>>
  BY DEF TransformInv, Open, Working, Failures
<1>2. PICK f \in Frames : source' = Picture(f)
  BY DEF Open
<1>3. asked' \in Sessions /\ stage' = "request" /\ xinfo' = <<>> /\ outputs' = <<>>
  BY <1>1 DEF Open
<1>4. Original' = f
  <2>1. Original' = [w |-> f.w, h |-> f.h, samp |-> f.samp]
    BY <1>2, PictureIs, Zenon DEF Original
  <2> QED BY <2>1, FramesAre, Zenon
<1>5. Len(asked') \in Nat \ {0}
  BY <1>3, SessionsAre, Zenon
<1>6. Answered(f, asked', xinfo')
  BY <1>3, <1>5, EmptyIsSeq DEF Answered
<1>7. AllGranted(asked', xinfo')
  BY <1>3, <1>5, EmptyIsSeq DEF AllGranted
<1>8. Len(xinfo') < Len(asked')
  BY <1>3, <1>5, EmptyIsSeq
<1>9. Working(f)'
  BY <1>2, <1>3, <1>6, <1>7, <1>8 DEF Working
<1> QED BY <1>4, <1>9, Zenon DEF TransformInv

\* The frame that a session is about.
LEMMA OriginalIs ==
  ASSUME NEW f \in Frames, source = Picture(f)
  PROVE  Original = f
<1>1. Original = [w |-> f.w, h |-> f.h, samp |-> f.samp]
  BY PictureIs, Zenon DEF Original
<1> QED BY <1>1, FramesAre, Zenon

LEMMA RequestInv == TransformInv /\ Request => TransformInv'
<1> SUFFICES ASSUME TransformInv, Request PROVE TransformInv'
  OBVIOUS
<1>1. PICK f : f = Original /\ stage = "request" /\ Working(f)
  BY DEF TransformInv, Request
<1> DEFINE i == Len(xinfo) + 1
           inf == jtransform_request_workspace(source, asked[i], slow_hflip(asked, i))
<1>2. /\ asked \in Sessions /\ f \in Frames /\ Answered(f, asked, xinfo) /\ outputs = <<>>
      /\ Len(xinfo) < Len(asked) /\ source = Picture(f) /\ AllGranted(asked, xinfo)
  BY <1>1 DEF Working
<1>3. /\ xinfo' = Append(xinfo, inf)
      /\ stage' = CASE inf.ret # "requested" -> inf.ret
                    [] inf.ret = "requested" /\ i = Len(asked) -> "transform"
                    [] OTHER -> "request"
      /\ source' = source /\ asked' = asked /\ outputs' = outputs
  BY DEF Request, Requested
<1>4. inf = jtransform_request_workspace(f, asked[i], slow_hflip(asked, i))
  BY <1>2, PictureIs, Zenon
<1>5. Len(xinfo) \in Nat /\ Len(asked) \in Nat \ {0}
  BY <1>2, Appended, SessionsAre DEF Answered
<1>6. i \in 1..Len(asked)
  BY <1>2, <1>5
<1> HIDE DEF inf
<1>7. inf.ret \in {"requested", "imperfect", "JERR_BAD_CROP_SPEC"}
  BY <1>2, <1>4, <1>6, AnswerIs
<1>8. /\ IsSeq(xinfo') /\ Len(xinfo') = i
      /\ \A k \in 1..Len(xinfo) : xinfo'[k] = xinfo[k]
      /\ xinfo'[i] = inf
  BY <1>2, <1>3, Appended, Zenon DEF Answered
<1>9. \A k \in 1..i : k \in 1..Len(xinfo) \/ k = i
  BY <1>5
<1>10. Answered(f, asked', xinfo')
  <2>1. \A k \in 1..Len(xinfo') : xinfo'[k] = jtransform_request_workspace(f, asked[k], slow_hflip(asked, k))
    BY <1>2, <1>4, <1>8, <1>9, Zenon DEF Answered
  <2>2. Len(xinfo') <= Len(asked)
    BY <1>6, <1>8
  <2> QED BY <1>3, <1>8, <2>1, <2>2, Zenon DEF Answered
<1>11. source' = Picture(f) /\ asked' \in Sessions /\ outputs' = <<>>
  BY <1>2, <1>3
<1>12. inf.ret = "requested" => AllGranted(asked', xinfo')
  <2> SUFFICES ASSUME inf.ret = "requested" PROVE AllGranted(asked', xinfo')
    OBVIOUS
  <2>1. \A k \in 1..Len(xinfo') : xinfo'[k].ret = "requested"
    BY <1>2, <1>8, <1>9, Zenon DEF AllGranted
  <2>2. Len(xinfo') <= Len(asked)
    BY <1>6, <1>8
  <2> QED BY <1>3, <2>1, <2>2, Zenon DEF AllGranted
<1> HIDE DEF i
<1>13. Original' = f
  <2>1. Original' = Original
    BY <1>3, Zenon DEF Original
  <2> QED BY <1>1, <2>1, Zenon
<1>14. CASE inf.ret # "requested"
  <2>1. stage' \in Failures /\ stage' \notin {"request", "transform", "written"}
    BY <1>3, <1>7, <1>14 DEF Failures
  <2>2. Working(f)'
    BY <1>2, <1>10, <1>11, <2>1 DEF Working
  <2> QED BY <1>13, <2>2, Zenon DEF TransformInv
<1>15. CASE inf.ret = "requested" /\ i = Len(asked)
  <2>1. stage' = "transform"
    BY <1>3, <1>15
  <2>2. AllMade(f, asked', xinfo', outputs')
    BY <1>3, <1>5, <1>11, EmptyIsSeq DEF AllMade
  <2>3. Len(outputs') < Len(asked')
    BY <1>3, <1>5, <1>11, EmptyIsSeq
  <2>4. Len(xinfo') = Len(asked')
    BY <1>3, <1>8, <1>15
  <2>5. Working(f)'
    BY <1>2, <1>10, <1>11, <1>12, <1>15, <2>1, <2>2, <2>3, <2>4 DEF Working
  <2> QED BY <1>13, <2>5, Zenon DEF TransformInv
<1>16. CASE inf.ret = "requested" /\ i # Len(asked)
  <2>1. stage' = "request"
    BY <1>3, <1>16
  <2>2. Len(xinfo') < Len(asked')
    BY <1>3, <1>6, <1>8, <1>16
  <2>3. Working(f)'
    BY <1>2, <1>10, <1>11, <1>12, <1>16, <2>1, <2>2 DEF Working
  <2> QED BY <1>13, <2>3, Zenon DEF TransformInv
<1> QED BY <1>14, <1>15, <1>16

\* A flip works in place when it is the only request.
LEMMA FlipsAlone ==
  ASSUME NEW f, NEW q, NEW i, NEW inf, Granted(f, q[i], slow_hflip(q, i), inf), Flips(q[i], inf)
  PROVE  Len(q) = 1
<1>1. q[i].transform = "flip_h" /\ ~inf.workspace
  BY DEF Flips
<1>2. inf.workspace = (inf.y # 0 \/ slow_hflip(q, i))
  BY <1>1 DEF Granted, needs_workspace
<1>3. ~slow_hflip(q, i)
  BY <1>1, <1>2, Zenon
<1> QED BY <1>1, <1>3 DEF slow_hflip

LEMMA OutputMade ==
  ASSUME NEW f \in Frames, source = Picture(f), NEW q \in Sessions, NEW i \in 1..Len(q),
         NEW inf, inf = jtransform_request_workspace(f, q[i], slow_hflip(q, i)), inf.ret = "requested",
         GrayFits(f, q[i]),
         NEW d, d = jtransform_adjust_parameters(source, q[i], inf),
         NEW o, o = [w |-> d.w, h |-> d.h, samp |-> d.samp, coefs |-> Coefficients(d, q[i], inf)]
  PROVE  Made(f, q[i], slow_hflip(q, i), inf, o)
<1>1. IsFrame(f) /\ IsRequest(q[i]) /\ Granted(f, q[i], slow_hflip(q, i), inf)
  BY AnswerIs, Zenon DEF Answer
<1>2. inf.n = Components(f, q[i])
  BY <1>1 DEF Granted
<1>3. d = jtransform_adjust_parameters(f, q[i], inf)
  BY PictureIs, Zenon
<1>4. d.w = inf.w /\ d.h = inf.h /\ Destination(f, q[i], d)
  BY <1>1, <1>2, <1>3, DestinationIs
<1>5. AllPlaced(f, q[i], d, inf, Coefficients(d, q[i], inf))
  BY <1>1, <1>4, CoefficientsPlaced, Zenon
<1>6. o.w = d.w /\ o.h = d.h /\ o.samp = d.samp /\ o.coefs = Coefficients(d, q[i], inf)
  OBVIOUS
<1>7. Destination(f, q[i], o) /\ AllPlaced(f, q[i], o, inf, o.coefs)
  <2> DEFINE r == q[i]
             coefs == Coefficients(d, r, inf)
  <2>1. o.w = d.w /\ o.h = d.h /\ o.samp = d.samp /\ o.coefs = coefs
    BY <1>6
  <2>2. Destination(f, r, d) /\ AllPlaced(f, r, d, inf, coefs)
    BY <1>4, <1>5, Zenon
  <2> HIDE DEF r, coefs
  <2>3. Destination(f, r, o) /\ AllPlaced(f, r, o, inf, o.coefs)
    BY <2>1, <2>2, SameFrame
  <2> QED BY <2>3, Zenon DEF r
<1> QED BY <1>1, <1>4, <1>6, <1>7, Zenon DEF Made

\* A request with another one after it is not alone.
LEMMA MoreThanOne ==
  ASSUME NEW n \in Nat, NEW m \in Nat \ {0}, n < m, n + 1 # m
  PROVE  m # 1
OBVIOUS

LEMMA WriteInv == TransformInv /\ Transform => TransformInv'
<1> SUFFICES ASSUME TransformInv, Transform PROVE TransformInv'
  OBVIOUS
<1>1. PICK f : f = Original /\ stage = "transform" /\ Working(f)
  BY DEF TransformInv, Transform
<1> DEFINE i == Len(outputs) + 1
           r == asked[i]
           inf == xinfo[i]
           d == jtransform_adjust_parameters(source, r, inf)
           coefs == Coefficients(d, r, inf)
           o == [w |-> d.w, h |-> d.h, samp |-> d.samp, coefs |-> coefs]
           refused == r.gray /\ source.samp[1] # <<MaxH(source.samp), MaxV(source.samp)>>
<1>2. /\ asked \in Sessions /\ f \in Frames /\ Answered(f, asked, xinfo) /\ Len(xinfo) = Len(asked)
      /\ AllMade(f, asked, xinfo, outputs) /\ Len(outputs) < Len(asked)
      /\ source = Picture(f) /\ AllGranted(asked, xinfo)
  BY <1>1 DEF Working
<1>3. asked' = asked /\ xinfo' = xinfo
  BY DEF Transform
<1>4. IF refused THEN stage' = "JERR_CONVERSION_NOTIMPL" /\ source' = source /\ outputs' = outputs
                 ELSE Write(d, r, inf, coefs)
  BY Zenon DEF Transform, Adjusted
<1>5. Len(outputs) \in Nat /\ Len(asked) \in Nat \ {0}
  BY <1>2, Appended, SessionsAre DEF AllMade
<1>6. i \in 1..Len(asked) /\ i \in 1..Len(xinfo)
  BY <1>2, <1>5
<1>7. inf = jtransform_request_workspace(f, r, slow_hflip(asked, i)) /\ inf.ret = "requested"
  BY <1>2, <1>6, Zenon DEF Answered, AllGranted
<1>8. CASE refused
  <2>1. stage' = "JERR_CONVERSION_NOTIMPL" /\ source' = source /\ outputs' = outputs
    BY <1>4, <1>8, Zenon
  <2>2. stage' \in Failures /\ stage' \notin {"request", "transform", "written"}
    BY <2>1 DEF Failures
  <2>3. Original' = f
    BY <1>1, <2>1, Zenon DEF Original
  <2>4. Working(f)'
    BY <1>2, <1>3, <2>2 DEF Working
  <2> QED BY <2>3, <2>4, Zenon DEF TransformInv
<1>9. CASE ~refused
  <2>1. Write(d, r, inf, coefs)
    BY <1>4, <1>9, Zenon
  <2>2. GrayFits(f, r)
    <3>1. source.samp = f.samp
      BY <1>2, PictureIs, Zenon
    <3> QED BY <1>9, <3>1, Zenon DEF GrayFits
  <2>3. Made(f, r, slow_hflip(asked, i), inf, o)
    BY <1>2, <1>6, <1>7, <2>2, OutputMade, Zenon
  <2> HIDE DEF refused
  <2>4. /\ outputs' = Append(outputs, o)
        /\ stage' = IF i = Len(asked) THEN "written" ELSE "transform"
        /\ source' = IF ~Flips(r, inf) THEN source
                     ELSE [source EXCEPT !.coefs = [c \in DOMAIN @ |-> IF c \in DOMAIN coefs THEN coefs[c] ELSE @[c]]]
    BY <2>1, Zenon DEF Write
  <2> HIDE DEF o
  <2>5. /\ IsSeq(outputs') /\ Len(outputs') = i
        /\ \A k \in 1..Len(outputs) : outputs'[k] = outputs[k]
        /\ outputs'[i] = o
    BY <1>2, <2>4, Appended, Zenon DEF AllMade
  <2>6. \A k \in 1..i : k \in 1..Len(outputs) \/ k = i
    BY <1>5
  <2>7. AllMade(f, asked', xinfo', outputs')
    <3>1. \A k \in 1..Len(outputs') : Made(f, asked[k], slow_hflip(asked, k), xinfo[k], outputs'[k])
      BY <1>2, <2>3, <2>5, <2>6, Zenon DEF AllMade
    <3>2. Len(outputs') <= Len(asked)
      BY <1>6, <2>5
    <3> QED BY <1>3, <2>5, <3>1, <3>2, Zenon DEF AllMade
  <2>8. Original' = f
    <3>1. source.w = f.w /\ source.h = f.h /\ source.samp = f.samp
      BY <1>2, PictureIs, Zenon
    <3>2. source'.w = source.w /\ source'.h = source.h /\ source'.samp = source.samp
      <4>1. CASE ~Flips(r, inf)
        BY <2>4, <4>1
      <4>2. CASE Flips(r, inf)
        <5> DEFINE new == [c \in DOMAIN source.coefs |-> IF c \in DOMAIN coefs THEN coefs[c] ELSE source.coefs[c]]
        <5>1. source' = [source EXCEPT !.coefs = new]
          BY <2>4, <4>2, Zenon
        <5> HIDE DEF new
        <5>2. source = [w |-> f.w, h |-> f.h, samp |-> f.samp, coefs |-> source.coefs]
          BY <1>2 DEF Picture
        <5> QED BY <5>1, <5>2
      <4> QED BY <4>1, <4>2
    <3>3. Original' = Original
      BY <3>2, Zenon DEF Original
    <3> QED BY <1>1, <3>3, Zenon
  <2>9. Flips(r, inf) => Len(asked) = 1
    <3>1. Granted(f, r, slow_hflip(asked, i), inf)
      BY <2>3, Zenon DEF Made
    <3> QED BY <3>1, FlipsAlone, Zenon
  <2>10. stage' \in {"written", "transform"} /\ (stage' = "transform" => i < Len(asked) /\ source' = Picture(f))
    <3>1. CASE i = Len(asked)
      BY <2>4, <3>1
    <3>2. CASE i # Len(asked)
      <4>1. i < Len(asked)
        BY <1>6, <3>2
      <4>2. Len(asked) # 1
        BY <1>2, <1>5, <3>2, MoreThanOne
      <4>3. ~Flips(r, inf)
        BY <2>9, <4>2, Zenon
      <4> QED BY <1>2, <2>4, <3>2, <4>1, <4>3
    <3> QED BY <3>1, <3>2
  <2>11. Answered(f, asked', xinfo') /\ AllGranted(asked', xinfo') /\ asked' \in Sessions
         /\ Len(xinfo') = Len(asked')
    BY <1>2, <1>3, Zenon
  <2>12. stage' = "transform" => Len(outputs') < Len(asked')
    BY <1>3, <2>5, <2>10
  <2>13. Working(f)'
    BY <1>2, <2>7, <2>10, <2>11, <2>12 DEF Working
  <2> QED BY <2>8, <2>13, Zenon DEF TransformInv
<1> QED BY <1>8, <1>9

LEMMA ReturnInv == TransformReturn => TransformInv'
BY DEF TransformReturn, TransformInv

LEMMA StutterInv == TransformInv /\ UNCHANGED transformVars => TransformInv'
BY Zenon DEF TransformInv, Working, Original, transformVars

(***************************************************************************)
(* The invariant gives every part of the property.                         *)
(***************************************************************************)
\* The outputs that the property looks at, and what the invariant says of one.
LEMMA WorkIs ==
  ASSUME TransformInv, stage \notin {"start", "parsed"}
  PROVE  Original \in Frames /\ Working(Original)
BY DEF TransformInv, Working

LEMMA OutputIs ==
  ASSUME TransformInv, NEW i \in Outputs
  PROVE  /\ IsFrame(Original) /\ IsRequest(asked[i])
         /\ Made(Original, asked[i], slow_hflip(asked, i), xinfo[i], outputs[i])
<1>1. stage \in {"transform", "written"} /\ i \in DOMAIN outputs
  BY DEF Outputs
<1>2. /\ asked \in Sessions /\ Original \in Frames
      /\ AllMade(Original, asked, xinfo, outputs)
  BY <1>1, WorkIs DEF Working
<1>3. DOMAIN outputs = 1..Len(outputs) /\ Len(outputs) \in Nat /\ Len(outputs) <= Len(asked)
  BY <1>2 DEF AllMade, IsSeq
<1>4. Len(asked) \in Nat
  BY <1>2, SessionsAre
<1>5. i \in 1..Len(outputs) /\ i \in 1..Len(asked)
  BY <1>1, <1>3, <1>4
<1> QED BY <1>2, <1>5, FramesAre, SessionsAre, Zenon DEF AllMade

LEMMA ShowsRight == TransformInv => RegionIsShown
<1> SUFFICES ASSUME TransformInv, NEW i \in DOMAIN xinfo, stage \notin {"parsed", "start"}
             PROVE  ShowsRegion(asked[i], jtransform_parse_crop_spec(asked[i].spec),
                                Transformed(Original, asked[i]), iMCU(Original, asked[i]), xinfo[i])
  BY Zenon DEF RegionIsShown
<1> DEFINE r == asked[i]
           c == jtransform_parse_crop_spec(r.spec)
           f == Original
           inf == xinfo[i]
<1>1. asked \in Sessions /\ f \in Frames /\ Answered(f, asked, xinfo)
  BY WorkIs DEF Working
<1>2. DOMAIN xinfo = 1..Len(xinfo) /\ Len(xinfo) \in Nat /\ Len(xinfo) <= Len(asked)
  BY <1>1 DEF Answered, IsSeq
<1>3. Len(asked) \in Nat
  BY <1>1, SessionsAre
<1>4. i \in 1..Len(xinfo) /\ i \in 1..Len(asked)
  BY <1>2, <1>3
<1>5. inf = jtransform_request_workspace(f, r, slow_hflip(asked, i))
  BY <1>1, <1>4, Zenon DEF Answered
<1>6. inf.ret = "requested" => Answer(f, r, slow_hflip(asked, i), c, inf)
  BY <1>1, <1>4, <1>5, AnswerIs, Zenon
<1>7. c.crop /\ inf.ret = "requested" => ShowsBoth(f, r, c, inf)
  BY <1>6, Zenon DEF Answer
<1> HIDE DEF c, inf, f, r
<1>8. c.crop /\ inf.ret = "requested" =>
        /\ Shows(r, c.width, c.xoffset, r.crop[1], r.crop[3], Transformed(f, r)[1], iMCU(f, r)[1], inf.x, inf.w)
        /\ Shows(r, c.height, c.yoffset, r.crop[2], r.crop[4], Transformed(f, r)[2], iMCU(f, r)[2], inf.y, inf.h)
  BY <1>7, ShowsIs, Zenon DEF ShowsBoth
<1>9. ShowsRegion(r, c, Transformed(f, r), iMCU(f, r), inf)
  BY <1>8, Zenon DEF ShowsRegion
<1> QED BY <1>9, Zenon DEF c, inf, f, r

LEMMA StrayRight == TransformInv => NoStrayBlock
<1> SUFFICES ASSUME TransformInv, NEW i \in Outputs, NEW c \in DOMAIN outputs[i].samp, NEW p \in Shown(outputs[i], c)
             PROVE  p \in DOMAIN outputs[i].coefs[c] /\ outputs[i].coefs[c][p] # Stray
  BY Zenon DEF NoStrayBlock
<1> DEFINE o == outputs[i]
<1>1. /\ IsFrame(Original) /\ IsRequest(asked[i])
      /\ Made(Original, asked[i], slow_hflip(asked, i), xinfo[i], o)
  BY OutputIs, Zenon
<1> QED BY <1>1, NoneStray, Zenon

\* The samples of component c of an output are those of the picture.
Moved(f, r, unit, full, inf, o, c) ==
  \A x \in 0..WideOf(o, c) - 1, y \in 0..HighOf(o, c) - 1 :
    LET from == Origin(r.transform, LengthX(r, o, c, unit, full), LengthY(r, o, c, unit, full),
                       x + inf.x * o.samp[c][1] * BlockSide, y + inf.y * o.samp[c][2] * BlockSide)
    IN Sample(o.coefs, c, x, y) = Sample(Picture(f).coefs, c, from[1], from[2])

LEMMA MovesRight == TransformInv => SamplesAreMoved
<1> SUFFICES ASSUME TransformInv, NEW i \in Outputs,
                    ExactX(asked[i], outputs[i], iMCU(Original, asked[i]), Transformed(Original, asked[i])),
                    ExactY(asked[i], outputs[i], iMCU(Original, asked[i]), Transformed(Original, asked[i]))
             PROVE  \A c \in DOMAIN outputs[i].samp :
                      Moved(Original, asked[i], iMCU(Original, asked[i]), Transformed(Original, asked[i]),
                            xinfo[i], outputs[i], c)
  BY DEF SamplesAreMoved, ExactX, ExactY, LengthX, LengthY, Moved
<1> DEFINE f == Original
           r == asked[i]
           inf == xinfo[i]
           o == outputs[i]
           slow == slow_hflip(asked, i)
<1>1. IsFrame(f) /\ IsRequest(r) /\ Made(f, r, slow, inf, o)
  BY OutputIs, Zenon
<1>2. ExactX(r, o, iMCU(f, r), Transformed(f, r)) /\ ExactY(r, o, iMCU(f, r), Transformed(f, r))
  OBVIOUS
<1> SUFFICES ASSUME NEW c \in DOMAIN o.samp
             PROVE  Moved(f, r, iMCU(f, r), Transformed(f, r), inf, o, c)
  OBVIOUS
<1> HIDE DEF f, r, inf, o, slow
<1>3. ASSUME NEW x \in 0..WideOf(o, c) - 1, NEW y \in 0..HighOf(o, c) - 1, NEW from,
             from = Origin(r.transform, LengthX(r, o, c, iMCU(f, r), Transformed(f, r)),
                           LengthY(r, o, c, iMCU(f, r), Transformed(f, r)),
                           x + inf.x * o.samp[c][1] * BlockSide, y + inf.y * o.samp[c][2] * BlockSide)
      PROVE  Sample(o.coefs, c, x, y) = Sample(Picture(f).coefs, c, from[1], from[2])
  BY <1>1, <1>2, <1>3, SampleMoved
<1> QED BY <1>3, Zenon DEF Moved

LEMMA SpecsRight == TransformInv => SpecsAreUnderstood
<1> SUFFICES ASSUME TransformInv, stage = "parsed" PROVE xinfo.crop <=> asked \in Language
  BY DEF SpecsAreUnderstood
<1>1. asked \in Specs /\ xinfo = jtransform_parse_crop_spec(asked)
  BY DEF TransformInv, Working, Failures
<1>2. asked \in Seq(Tokens)
  BY <1>1, SpecsAssumption DEF Tokens
<1> QED BY <1>1, <1>2, UnderstoodIs, Zenon

LEMMA TypesRight == TransformInv => TransformTypeOK
<1> SUFFICES ASSUME TransformInv PROVE TransformTypeOK
  OBVIOUS
<1>1. stage \in {"start", "parsed", "request", "transform", "written", "imperfect",
               "JERR_BAD_CROP_SPEC", "JERR_CONVERSION_NOTIMPL"}
  BY DEF TransformInv, Working, Failures
<1>2. ASSUME stage \in {"transform", "written"}
      PROVE  /\ Len(xinfo) = Len(asked) /\ Len(outputs) <= Len(asked)
             /\ \A i \in DOMAIN xinfo : xinfo[i].w > 0 /\ xinfo[i].h > 0 /\ xinfo[i].x >= 0 /\ xinfo[i].y >= 0
  <2> DEFINE f == Original
  <2>1. /\ asked \in Sessions /\ f \in Frames /\ Answered(f, asked, xinfo) /\ AllGranted(asked, xinfo)
        /\ Len(xinfo) = Len(asked) /\ AllMade(f, asked, xinfo, outputs)
    BY <1>2, WorkIs DEF Working
  <2> HIDE DEF f
  <2>2. DOMAIN xinfo = 1..Len(xinfo)
    BY <2>1 DEF Answered, IsSeq
  <2>3. Len(outputs) <= Len(asked)
    BY <2>1, Zenon DEF AllMade
  <2>4. ASSUME NEW i \in DOMAIN xinfo
        PROVE  xinfo[i].w > 0 /\ xinfo[i].h > 0 /\ xinfo[i].x >= 0 /\ xinfo[i].y >= 0
    <3>1. /\ i \in 1..Len(asked) /\ xinfo[i].ret = "requested"
          /\ xinfo[i] = jtransform_request_workspace(f, asked[i], slow_hflip(asked, i))
      BY <2>1, <2>2, Zenon DEF Answered, AllGranted
    <3>2. Granted(f, asked[i], slow_hflip(asked, i), xinfo[i])
      BY <2>1, <3>1, AnswerIs, Zenon DEF Answer
    <3>3. xinfo[i].w \in Nat \ {0} /\ xinfo[i].h \in Nat \ {0} /\ xinfo[i].x \in Nat /\ xinfo[i].y \in Nat
      BY <3>2, Zenon DEF Granted, GrantedAxis
    <3> QED BY <3>3
  <2> QED BY <2>1, <2>3, <2>4, Zenon
<1> QED BY <1>1, <1>2, Zenon DEF TransformTypeOK

LEMMA InvGives == TransformInv => TransformRight
BY ShowsRight, StrayRight, MovesRight, SpecsRight, TypesRight, Zenon DEF TransformRight

(* Whatever the pictures, the sessions and the specifications are: every   *)
(* output of a lossless transformation shows, sample by sample, what was   *)
(* asked for, takes no block from outside the picture, covers the region   *)
(* that was to be cropped, and a specification is accepted when it is one  *)
(* of the language (transupp.c, jtransform_parse_crop_spec to              *)
(* jtransform_execute_transform).                                          *)
THEOREM TransformRightHolds == TransformSpec => []TransformRight
<1>1. TransformInit => TransformInv
  BY StartInv
<1>2. TransformInv /\ [TransformNext]_transformVars => TransformInv'
  <2> SUFFICES ASSUME TransformInv, [TransformNext]_transformVars PROVE TransformInv'
    OBVIOUS
  <2>1. CASE ParseSpec
    BY <2>1, ParseInv
  <2>2. CASE Open
    BY <2>2, OpenInv
  <2>3. CASE Request
    BY <2>3, RequestInv
  <2>4. CASE Transform
    BY <2>4, WriteInv
  <2>5. CASE TransformReturn
    BY <2>5, ReturnInv
  <2>6. CASE UNCHANGED transformVars
    BY <2>6, StutterInv
  <2> QED BY <2>1, <2>2, <2>3, <2>4, <2>5, <2>6 DEF TransformNext
<1>3. TransformInv => TransformRight
  BY InvGives
<1> QED BY <1>1, <1>2, <1>3, PTL DEF TransformSpec

=============================================================================

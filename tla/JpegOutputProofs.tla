-------------------------- MODULE JpegOutputProofs --------------------------
(***************************************************************************)
(* The rows of JpegOutput come in order.                                   *)
(***************************************************************************)
EXTENDS JpegOutput, NumberLemmas

(***************************************************************************)
(* What the set-up computes.                                               *)
(***************************************************************************)
IsLargest(samp, k, m) == /\ m \in 1..4 /\ \E i \in DOMAIN samp : samp[i][k] = m
                         /\ \A i \in DOMAIN samp : samp[i][k] <= m

LEMMA FlipLess ==
  ASSUME NEW a \in Int, NEW b \in Int, 4 - a <= 4 - b
  PROVE  b <= a
  OBVIOUS

LEMMA MaxIs ==
  ASSUME NEW samp \in Seq((1..4) \X (1..4)) \ {<<>>}, NEW k \in {1, 2}
  PROVE  IsLargest(samp, k, MaxOf(samp, k))
<1> DEFINE S == {4 - samp[i][k] : i \in DOMAIN samp}
<1>1. /\ DOMAIN samp = 1..Len(samp) /\ Len(samp) \in Nat \ {0}
      /\ \A i \in DOMAIN samp : samp[i] \in (1..4) \X (1..4)
  BY SeqDef, EmptySeq, SMT
<1>2. \A i \in DOMAIN samp : samp[i][k] \in 1..4
  BY <1>1
<1>3. S \in SUBSET Nat /\ S # {}
  <2>1. 1 \in DOMAIN samp
    BY <1>1
  <2> QED BY <1>2, <2>1
<1>4. PICK z \in S : \A p \in S : z <= p
  <2> HIDE DEF S
  <2> QED BY <1>3, HasLeast
<1>5. PICK i \in DOMAIN samp : z = 4 - samp[i][k]
  OBVIOUS
<1>6. \A j \in DOMAIN samp : samp[j][k] <= samp[i][k]
  <2> TAKE j \in DOMAIN samp
  <2>1. 4 - samp[j][k] \in S
    OBVIOUS
  <2>2. z <= 4 - samp[j][k]
    BY <1>4, <2>1
  <2>3. samp[j][k] \in Int /\ samp[i][k] \in Int
    BY <1>2
  <2> QED BY <2>2, <2>3, <1>5, Zenon, FlipLess
<1>7. IsLargest(samp, k, samp[i][k])
  BY <1>2, <1>5, <1>6 DEF IsLargest
<1> HIDE DEF S
<1>8. \E m \in 1..4 : (\E j \in DOMAIN samp : samp[j][k] = m) /\ \A j \in DOMAIN samp : samp[j][k] <= m
  BY <1>7 DEF IsLargest
<1> QED BY <1>8, Zenon DEF IsLargest, MaxOf

LEMMA ScaledBlock ==
  ASSUME NEW num \in Nat \ {0}, NEW denom \in Nat \ {0}
  PROVE  min_DCT_scaled_size(num, denom) \in 1..16
<1> DEFINE Fit(k) == num * DCTSIZE <= denom * k
           S == {k \in 1..15 : Fit(k)}
<1> SUFFICES ASSUME \E k \in 1..15 : Fit(k)
             PROVE  \E k \in 1..15 : Fit(k) /\ (k = 1 \/ num * DCTSIZE > denom * (k - 1))
  <2>1. CASE ~\E k \in 1..15 : Fit(k)
    BY <2>1 DEF min_DCT_scaled_size
  <2>2. CASE \E k \in 1..15 : Fit(k)
    <3>1. \E k \in 1..15 : Fit(k) /\ (k = 1 \/ num * DCTSIZE > denom * (k - 1))
      BY <2>2
    <3>2. min_DCT_scaled_size(num, denom)
            = CHOOSE k \in 1..15 : Fit(k) /\ (k = 1 \/ num * DCTSIZE > denom * (k - 1))
      BY <2>2 DEF min_DCT_scaled_size
    <3> HIDE DEF Fit
    <3>3. min_DCT_scaled_size(num, denom) \in 1..15
      BY <3>1, <3>2, Zenon
    <3> QED BY <3>3
  <2> QED BY <2>1, <2>2
<1>1. S \in SUBSET Nat /\ S # {}
  <2> HIDE DEF Fit
  <2> QED OBVIOUS
<1>2. PICK k \in S : \A p \in S : k <= p
  <2> HIDE DEF S
  <2> QED BY <1>1, HasLeast
<1>3. k \in 1..15 /\ Fit(k)
  <2> HIDE DEF Fit
  <2> QED BY <1>2
<1>4. k = 1 \/ k - 1 \notin S
  BY <1>2
<1>5. k = 1 \/ ~Fit(k - 1)
  BY <1>3, <1>4
<1>6. k = 1 \/ num * DCTSIZE > denom * (k - 1)
  <2>1. num * DCTSIZE \in Int /\ denom * (k - 1) \in Int
    BY <1>3 DEF DCTSIZE
  <2> QED BY <1>5, <2>1
<1> QED BY <1>3, <1>6, Zenon

LEMMA ComponentScaled ==
  ASSUME NEW samp, NEW c, NEW m \in 1..16
  PROVE  \E t \in {1, 2, 4, 8, 16} : DCT_scaled_size(samp, c, m) = t * m
<1> DEFINE fits(z) == /\ (MaxOf(samp, 1) * m) % (samp[c][1] * z * 2) = 0
                      /\ (MaxOf(samp, 2) * m) % (samp[c][2] * z * 2) = 0
           grows(z) == z < DCTSIZE /\ fits(z)
           D == {m, 2 * m, 4 * m, 8 * m, 16 * m}
           e3 == 8 * m
           e2 == IF grows(4 * m) THEN e3 ELSE 4 * m
           e1 == IF grows(2 * m) THEN e2 ELSE 2 * m
           e0 == IF grows(m) THEN e1 ELSE m
           g == [z \in D |-> CASE z = m -> e0 [] z = 2 * m -> e1 [] z = 4 * m -> e2 [] OTHER -> z]
           Is(f) == f = [z \in D |-> IF grows(z) THEN f[2 * z] ELSE z]
<1>1. ~grows(8 * m) /\ ~grows(16 * m)
  BY DEF DCTSIZE
<1> HIDE DEF grows
<1>2. Is(g)
  <2>1. /\ g[m] = e0 /\ g[2 * m] = e1 /\ g[4 * m] = e2 /\ g[8 * m] = 8 * m /\ g[16 * m] = 16 * m
    OBVIOUS
  <2>2. \A z \in D : g[z] = IF grows(z) THEN g[2 * z] ELSE z
    <3> TAKE z \in D
    <3>1. CASE z = m
      BY <2>1, <3>1
    <3>2. CASE z = 2 * m
      BY <2>1, <3>2
    <3>3. CASE z = 4 * m
      BY <2>1, <3>3
    <3>4. CASE z = 8 * m \/ z = 16 * m
      BY <2>1, <3>4, <1>1
    <3> QED BY <3>1, <3>2, <3>3, <3>4
  <2>3. g = [z \in D |-> g[z]]
    OBVIOUS
  <2> HIDE DEF g, D
  <2> QED BY <2>2, <2>3
<1> DEFINE size == CHOOSE f : Is(f)
<1>3. Is(size)
  <2> HIDE DEF Is, g
  <2> QED BY <1>2, Zenon
<1>4. DCT_scaled_size(samp, c, m) = size[m]
  BY Zenon DEF DCT_scaled_size, grows
<1> HIDE DEF size
<1>5. \A z \in D : size[z] = IF grows(z) THEN size[2 * z] ELSE z
  <2> HIDE DEF D
  <2> QED BY <1>3, Zenon
<1>6. /\ size[16 * m] = 16 * m /\ size[8 * m] = 8 * m
      /\ size[4 * m] = IF grows(4 * m) THEN size[2 * (4 * m)] ELSE 4 * m
      /\ size[2 * m] = IF grows(2 * m) THEN size[2 * (2 * m)] ELSE 2 * m
      /\ size[m] = IF grows(m) THEN size[2 * m] ELSE m
  BY <1>1, <1>5
<1>7. 2 * (4 * m) = 8 * m /\ 2 * (2 * m) = 4 * m /\ 1 * m = m
  OBVIOUS
<1>8. size[m] \in {m, 2 * m, 4 * m, 8 * m}
  BY <1>6, <1>7
<1> QED BY <1>4, <1>8, <1>7

(* Floors and ceilings.                                                    *)
(* If h things take t containers of H, h k things take between (t - 1) k    *)
(* and t k.                                                                *)
LEMMA CeilScaled ==
  ASSUME NEW h \in Nat \ {0}, NEW H \in Nat \ {0}, NEW k \in Nat \ {0}
  PROVE  /\ (CeilDiv(h, H) - 1) * k < CeilDiv(h * k, H)
         /\ CeilDiv(h * k, H) <= CeilDiv(h, H) * k
         /\ CeilDiv(h * k, H) \in Nat \ {0} /\ CeilDiv(h, H) \in Nat \ {0}
<1>1. h * k \in Nat \ {0}
  BY SMT
<1> DEFINE t == CeilDiv(h, H)
           d == CeilDiv(h * k, H)
<1>2. t \in Nat \ {0} /\ h <= H * t /\ H * (t - 1) < h
  BY CeilIs
<1>3. d \in Nat \ {0} /\ h * k <= H * d /\ H * (d - 1) < h * k
  BY <1>1, CeilIs
<1> HIDE DEF t, d
<1>4. (t - 1) * k < d
  <2>1. (H * (t - 1)) * k < h * k
    BY <1>2, TimesLess
  <2>2. (H * (t - 1)) * k = ((t - 1) * k) * H /\ H * d = d * H /\ (t - 1) * k \in Int
    BY <1>2, <1>3, Associate
  <2>3. ((t - 1) * k) * H < d * H
    BY <1>1, <1>2, <1>3, <2>1, <2>2
  <2> QED BY <2>2, <2>3, <1>3, TimesLess
<1>5. d <= t * k
  <2>1. h * k <= (H * t) * k
    BY <1>2, TimesLess
  <2>2. (H * t) * k = (t * k) * H /\ H * (d - 1) = (d - 1) * H /\ t * k \in Int
    BY <1>2, <1>3, Associate
  <2>3. (d - 1) * H < (t * k) * H
    BY <1>1, <1>2, <1>3, <2>1, <2>2
  <2>4. d - 1 < t * k
    BY <2>2, <2>3, <1>3, TimesLess
  <2> QED BY <2>2, <2>4, <1>3
<1> QED BY <1>2, <1>3, <1>4, <1>5 DEF t, d

(* The number of the row near an output row.                               *)
LEMMA NearIs ==
  ASSUME NEW maxv \in 1..4, NEW g \in 1..4, maxv % g = 0, NEW G \in Nat, NEW k \in 0..maxv - 1
  PROVE  ((maxv * G + k) * g) \div maxv = g * G + (k * g) \div maxv
<1>1. maxv * G + k \in Nat /\ (maxv * G + k) * g = maxv * (g * G) + k * g
  BY SMT
<1> DEFINE q == (k * g) \div maxv
<1>2. k * g \in Nat /\ q \in Nat /\ maxv * q <= k * g /\ k * g < maxv * q + maxv
  BY Division, SMT
<1> HIDE DEF q
<1>3. g * G \in Nat
  BY SMT
<1>4. (maxv * G + k) * g = maxv * (g * G) + k * g
  BY <1>1
<1> DEFINE p == g * G
           z == k * g
<1>6. p \in Nat /\ z \in Nat
  BY <1>2, <1>3
<1> HIDE DEF p, z
<1>5. p + q = (maxv * p + z) \div maxv
  <2>1. (p + q) * maxv = maxv * p + maxv * q /\ (p + q + 1) * maxv = maxv * p + maxv * q + maxv
    BY <1>2, <1>6
  <2>2. maxv * p \in Int /\ maxv * q \in Int
    BY <1>2, <1>6
  <2>3. maxv * q <= z /\ z < maxv * q + maxv
    BY <1>2 DEF z
  <2>4. (p + q) * maxv <= maxv * p + z /\ maxv * p + z < (p + q + 1) * maxv
    BY <2>1, <2>2, <2>3, <1>6
  <2> QED BY <2>2, <2>4, <1>2, <1>6, QuotientIs
<1> QED BY <1>4, <1>5 DEF p, z, q

(* Rows of a component and rows of the output, h pixels high.  A unit has  *)
(* m groups of maxv output rows, made from g rows of the component.        *)
Fitted(h, m, maxv, g, v, dct) ==
  /\ h \in Nat \ {0} /\ m \in 1..16 /\ maxv \in 1..4 /\ g \in 1..4 /\ v \in 1..4
  /\ dct \in Nat \ {0} /\ v * dct = g * m

LEMMA NearExists ==
  ASSUME NEW h, NEW m, NEW maxv, NEW g, NEW v, NEW dct, Fitted(h, m, maxv, g, v, dct),
         NEW n \in 0..CeilDiv(h * m, 8) - 1
  PROVE  (n * g) \div maxv < CeilDiv(h * (g * m), maxv * 8)
<1> USE DEF Fitted
<1> DEFINE hm == h * m
           r == (n * g) \div maxv
           d == CeilDiv(h * (g * m), maxv * 8)
<1>1. hm \in Nat
  BY SMT
<1>2. h * (g * m) = hm * g /\ h * (g * m) \in Nat
  BY SMT
<1>3. 8 * (CeilDiv(hm, 8) - 1) < hm /\ CeilDiv(hm, 8) \in Nat
  BY <1>1, CeilIs
<1>4. n \in Nat /\ 8 * n < hm
  BY <1>3, <1>1
<1>5. n * g \in Nat /\ r \in Nat /\ maxv * r <= n * g
  <2>1. n * g \in Nat /\ maxv \in Nat \ {0}
    BY <1>4
  <2> QED BY <2>1, FloorIs, Zenon
<1>6. d \in Nat /\ hm * g <= (maxv * 8) * d
  <2>1. maxv * 8 \in Nat \ {0}
    OBVIOUS
  <2> QED BY <1>2, <2>1, CeilIs
<1> HIDE DEF hm, r, d
<1>7. 8 * (n * g) < hm * g
  <2>1. (8 * n) * g < hm * g
    BY <1>1, <1>4, TimesLess
  <2> QED BY <2>1, <1>4
<1>8. 8 * (maxv * r) < 8 * (maxv * d)
  <2>1. hm * g \in Int /\ maxv * r \in Int /\ (maxv * 8) * d = 8 * (maxv * d) /\ maxv * d \in Int
    BY <1>1, <1>5, <1>6
  <2> QED BY <2>1, <1>5, <1>6, <1>7
<1>9. maxv * r \in Int /\ maxv * d \in Int
  BY <1>5, <1>6
<1>10. maxv * r < maxv * d
  BY <1>8, <1>9
<1> QED BY <1>10, <1>5, <1>6 DEF r, d

LEMMA GroupsAre ==
  ASSUME NEW h, NEW m, NEW maxv, NEW g, NEW v, NEW dct, Fitted(h, m, maxv, g, v, dct),
         NEW N, N = CeilDiv(CeilDiv(h * m, 8), maxv)
  PROVE  /\ (N - 1) * g < CeilDiv(h * (g * m), maxv * 8)
         /\ CeilDiv(h * (g * m), maxv * 8) <= N * g
<1> USE DEF Fitted
<1> DEFINE hm == h * m
           o == CeilDiv(hm, 8)
           d == CeilDiv(h * (g * m), maxv * 8)
<1>1. hm \in Nat \ {0}
  BY SMT
<1>2. h * (g * m) = hm * g /\ h * (g * m) \in Nat
  BY SMT
<1>3. o \in Nat /\ hm <= 8 * o /\ 8 * (o - 1) < hm
  BY <1>1, CeilIs
<1>4. N \in Nat /\ o <= maxv * N /\ maxv * (N - 1) < o
  <2>1. maxv \in Nat \ {0} /\ N = CeilDiv(o, maxv)
    OBVIOUS
  <2> HIDE DEF o
  <2> QED BY <1>3, <2>1, CeilIs
<1>5. d \in Nat /\ hm * g <= (maxv * 8) * d /\ (maxv * 8) * (d - 1) < hm * g
  <2>1. maxv * 8 \in Nat \ {0}
    OBVIOUS
  <2> QED BY <1>2, <2>1, CeilIs
<1> HIDE DEF hm, o, d
<1>6. maxv * N \in Int /\ maxv * (N - 1) \in Int /\ hm * g \in Int /\ maxv * d \in Int
  BY <1>1, <1>4, <1>5
<1>7. 8 * (maxv * (N - 1)) < hm /\ hm <= 8 * (maxv * N)
  BY <1>3, <1>4, <1>6, <1>1
<1>8. (8 * (maxv * (N - 1))) * g < hm * g /\ hm * g <= (8 * (maxv * N)) * g
  BY <1>1, <1>6, <1>7, TimesLess
<1>9. /\ (8 * (maxv * (N - 1))) * g = (maxv * 8) * ((N - 1) * g)
      /\ (8 * (maxv * N)) * g = (maxv * 8) * (N * g)
      /\ (N - 1) * g \in Int /\ N * g \in Int
  BY <1>4
<1>10. (maxv * 8) * ((N - 1) * g) < (maxv * 8) * d
  BY <1>5, <1>8, <1>9, <1>6
<1>11. (maxv * 8) * (d - 1) < (maxv * 8) * (N * g)
  BY <1>5, <1>8, <1>9, <1>6
<1>12. (N - 1) * g < d /\ d - 1 < N * g
  BY <1>10, <1>11, <1>9, <1>5
<1> QED BY <1>12, <1>9, <1>5 DEF d

LEMMA RowDelivered ==
  ASSUME NEW h, NEW m, NEW maxv, NEW g, NEW v, NEW dct, Fitted(h, m, maxv, g, v, dct),
         NEW u \in Nat, NEW i \in Nat, u * (g * m) + i < CeilDiv(h * (g * m), maxv * 8)
  PROVE  u * v + i \div dct < CeilDiv(h * v, maxv * 8)
<1> USE DEF Fitted
<1> DEFINE H == maxv * 8
           d == CeilDiv(h * (g * m), H)
           b == CeilDiv(h * v, H)
           q == i \div dct
           w == u * v + q
<1>1. h * (g * m) = (h * v) * dct /\ h * (g * m) \in Nat /\ h * v \in Nat /\ u * (g * m) = (u * v) * dct
      /\ u * (g * m) \in Nat
  <2>1. h * (v * dct) = (h * v) * dct /\ u * (v * dct) = (u * v) * dct
    BY Associate
  <2>2. g * m \in Nat
    BY SMT
  <2> QED BY <2>1, <2>2, SMT
<1>2. q \in Nat /\ dct * q <= i
  BY FloorIs
<1>0. H \in Nat \ {0}
  OBVIOUS
<1>3. d \in Nat /\ H * (d - 1) < h * (g * m)
  <2> HIDE DEF H
  <2> QED BY <1>0, <1>1, CeilIs
<1>4. b \in Nat /\ h * v <= H * b
  <2> HIDE DEF H
  <2> QED BY <1>0, <1>1, CeilIs
<1>5. w \in Nat /\ w * dct = (u * v) * dct + dct * q
  BY <1>2
<1> DEFINE hv == h * v
           x == u * (g * m) + i
<1>6. x \in Nat /\ x <= d - 1 /\ w * dct <= x
  BY <1>1, <1>2, <1>3, <1>5
<1>7. hv \in Nat /\ hv <= H * b /\ H * (d - 1) < hv * dct /\ H \in Nat \ {0}
  BY <1>1, <1>3, <1>4
<1> HIDE DEF H, d, b, q, w, hv, x
<1>8. H * (w * dct) <= H * (d - 1)
  <2>1. w * dct \in Int /\ w * dct <= d - 1
    BY <1>3, <1>5, <1>6
  <2> QED BY <2>1, <1>3, <1>7
<1>9. (H * w) * dct < hv * dct
  <2>1. H * (w * dct) = (H * w) * dct /\ (H * w) * dct \in Int /\ H * (d - 1) \in Int /\ hv * dct \in Int
    BY <1>3, <1>5, <1>7, Associate
  <2> QED BY <2>1, <1>7, <1>8
<1>10. H * w < hv /\ H * w \in Int
  BY <1>9, <1>5, <1>7, TimesLess
<1>11. H * w < H * b
  BY <1>4, <1>7, <1>10
<1> QED BY <1>11, <1>4, <1>5, <1>7 DEF w, q, b, H

Groups == CeilDiv(pic.output_height, pic.maxv)
Unit(c) == pic.rgroup[c] * pic.m \* rows of component c in a unit

MethodFits(c) ==
  /\ pic.method[c] \in {"fullsize", "h2v1", "h2v1_fancy", "h2v2", "h2v2_fancy", "int"}
  /\ pic.method[c] \in {"fullsize", "h2v1", "h2v1_fancy"} => pic.rgroup[c] = pic.maxv
  /\ pic.method[c] \in {"h2v2", "h2v2_fancy"} => 2 * pic.rgroup[c] = pic.maxv
  /\ pic.method[c] = "h2v2_fancy" /\ ~pic.merged => pic.context
  /\ pic.merged => pic.rgroup[c] \in {1, pic.maxv}

UnitsFit(c) ==
  /\ (pic.total_iMCU_rows - 1) * Unit(c) < pic.downsampled_height[c]
  /\ pic.downsampled_height[c] <= pic.total_iMCU_rows * Unit(c)
  /\ (Groups - 1) * pic.rgroup[c] < pic.downsampled_height[c]
  /\ pic.downsampled_height[c] <= Groups * pic.rgroup[c]

RowsComplete(c) ==
  /\ \A u, i \in Nat : u * Unit(c) + i < pic.downsampled_height[c]
                         => u * pic.v[c] + i \div pic.dct[c] < pic.height_in_blocks[c]
  /\ \A n \in 0..pic.output_height - 1 :
       (n * pic.rgroup[c]) \div pic.maxv < pic.downsampled_height[c]

CompTypeOK(c) ==
  /\ pic.rgroup[c] \in 1..4 /\ pic.maxv % pic.rgroup[c] = 0
  /\ pic.v[c] \in 1..4 /\ pic.dct[c] \in Nat \ {0} /\ pic.v[c] * pic.dct[c] = Unit(c)
  /\ pic.downsampled_height[c] \in Nat \ {0} /\ pic.height_in_blocks[c] \in Nat

PicTypeOK ==
  /\ pic.m \in 1..16 /\ pic.maxv \in 1..4 /\ 1 \in Comps
  /\ pic.merged \in BOOLEAN /\ pic.context \in BOOLEAN
  /\ pic.context => ~pic.merged /\ pic.m >= 2
  /\ pic.merged => pic.maxv <= 2
  /\ pic.quantize \in {"none", "one", "two"} /\ (pic.quantize = "two" => pic.maxv <= 2)
  /\ pic.output_height \in Nat \ {0} /\ pic.total_iMCU_rows \in Nat \ {0}

PicFacts ==
  /\ PicTypeOK
  /\ \A c \in Comps : CompTypeOK(c) /\ MethodFits(c) /\ UnitsFit(c) /\ RowsComplete(c)

LEMMA SetupIs ==
  ASSUME NEW p, NEW q, q = Setup(p)
  PROVE  LET m == min_DCT_scaled_size(p.num, p.denom)
             maxv == MaxOf(p.samp, 2)
         IN /\ q.m = m /\ q.maxv = maxv /\ DOMAIN q.dct = DOMAIN p.samp /\ q.quantize = p.quantize
            /\ q.merged = use_merged_upsample(p, m, q.dct)
            /\ q.context = (~q.merged /\ \E c \in DOMAIN p.samp : q.method[c] = "h2v2_fancy")
            /\ q.output_height = CeilDiv(p.h * m, 8) /\ q.total_iMCU_rows = CeilDiv(p.h, maxv * 8)
            /\ \A c \in DOMAIN p.samp :
                 /\ q.dct[c] = DCT_scaled_size(p.samp, c, m) /\ q.v[c] = p.samp[c][2]
                 /\ \E width : q.method[c] = Method(p, c, m, q.dct[c], width)
                 /\ q.height_in_blocks[c] = CeilDiv(p.h * p.samp[c][2], maxv * 8)
                 /\ q.downsampled_height[c] = CeilDiv(p.h * p.samp[c][2] * q.dct[c], maxv * 8)
                 /\ q.rgroup[c] = (p.samp[c][2] * q.dct[c]) \div m
<1> DEFINE m == min_DCT_scaled_size(p.num, p.denom)
           cs == DOMAIN p.samp
           maxh == MaxOf(p.samp, 1)
           maxv == MaxOf(p.samp, 2)
           dct == [c \in cs |-> DCT_scaled_size(p.samp, c, m)]
           merged == use_merged_upsample(p, m, dct)
           method == [c \in cs |-> Method(p, c, m, dct[c], CeilDiv(p.w * p.samp[c][1] * dct[c], maxh * DCTSIZE))]
<1>1. q = [m |-> m, maxv |-> maxv, dct |-> dct, merged |-> merged, method |-> method,
      v |-> [c \in cs |-> p.samp[c][2]], quantize |-> p.quantize,
      context |-> ~merged /\ \E c \in cs : method[c] = "h2v2_fancy",
      output_height |-> CeilDiv(p.h * m, DCTSIZE),
      total_iMCU_rows |-> CeilDiv(p.h, maxv * DCTSIZE),
      height_in_blocks |-> [c \in cs |-> CeilDiv(p.h * p.samp[c][2], maxv * DCTSIZE)],
      downsampled_height |-> [c \in cs |-> CeilDiv(p.h * p.samp[c][2] * dct[c], maxv * DCTSIZE)],
      rgroup |-> [c \in cs |-> (p.samp[c][2] * dct[c]) \div m]]
  BY Zenon DEF Setup
<1>2. DCTSIZE = 8
  BY DEF DCTSIZE
<1>3. \A c \in cs : \E width : method[c] = Method(p, c, m, dct[c], width)
  OBVIOUS
<1> HIDE DEF m, cs, maxh, maxv, merged, method
<1>4. /\ q.m = m /\ q.maxv = maxv /\ q.dct = dct /\ q.quantize = p.quantize
      /\ q.merged = merged /\ q.method = method
      /\ q.context = (~merged /\ \E c \in cs : method[c] = "h2v2_fancy")
      /\ q.output_height = CeilDiv(p.h * m, 8) /\ q.total_iMCU_rows = CeilDiv(p.h, maxv * 8)
      /\ q.v = [c \in cs |-> p.samp[c][2]]
      /\ q.height_in_blocks = [c \in cs |-> CeilDiv(p.h * p.samp[c][2], maxv * 8)]
      /\ q.downsampled_height = [c \in cs |-> CeilDiv(p.h * p.samp[c][2] * dct[c], maxv * 8)]
      /\ q.rgroup = [c \in cs |-> (p.samp[c][2] * dct[c]) \div m]
  <2> HIDE DEF dct
  <2> QED BY <1>1, <1>2
<1>5. DOMAIN dct = cs /\ \A c \in cs : dct[c] = DCT_scaled_size(p.samp, c, m)
  OBVIOUS
<1> HIDE DEF dct
<1>6. \A c \in cs :
        /\ q.v[c] = p.samp[c][2]
        /\ q.height_in_blocks[c] = CeilDiv(p.h * p.samp[c][2], maxv * 8)
        /\ q.downsampled_height[c] = CeilDiv(p.h * p.samp[c][2] * q.dct[c], maxv * 8)
        /\ q.rgroup[c] = (p.samp[c][2] * q.dct[c]) \div m
  BY <1>4, Zenon
<1>7. q.merged = use_merged_upsample(p, m, q.dct)
  BY <1>4 DEF merged
<1>8. q.context = (~q.merged /\ \E c \in DOMAIN p.samp : q.method[c] = "h2v2_fancy")
  BY <1>4 DEF cs
<1>9. \A c \in cs : q.dct[c] = DCT_scaled_size(p.samp, c, m)
                    /\ \E width : q.method[c] = Method(p, c, m, q.dct[c], width)
  BY <1>3, <1>4, <1>5
<1> QED BY <1>4, <1>5, <1>6, <1>7, <1>8, <1>9, Zenon DEF m, cs, maxv

\* A method f that was found for blocks of t * m lines, v of them in a unit.
Suits(f, v, t, m, maxv) ==
  LET n == v * t
  IN /\ (v * (t * m)) \div m = n /\ v * (t * m) = n * m
     /\ n \in 1..4 /\ maxv % n = 0
     /\ f \in {"fullsize", "h2v1", "h2v1_fancy", "h2v2", "h2v2_fancy", "int"}
     /\ f \in {"fullsize", "h2v1", "h2v1_fancy"} => n = maxv
     /\ f \in {"h2v2", "h2v2_fancy"} => 2 * n = maxv
     /\ f = "h2v2_fancy" => m > 1

LEMMA MethodIs ==
  ASSUME NEW p, NEW c, NEW m \in Nat \ {0}, NEW width, NEW t \in Nat \ {0},
         NEW v \in Nat \ {0}, p.samp[c][2] = v, MaxOf(p.samp, 2) \in 1..4,
         Method(p, c, m, t * m, width) # "JERR_FRACT_SAMPLE_NOTIMPL"
  PROVE  Suits(Method(p, c, m, t * m, width), v, t, m, MaxOf(p.samp, 2))
<1> DEFINE g == v * t
           maxv == MaxOf(p.samp, 2)
           hin == (p.samp[c][1] * (t * m)) \div m
           hout == MaxOf(p.samp, 1)
           fancy == p.fancy /\ m > 1 /\ width > 2
           method == Method(p, c, m, t * m, width)
<1>1. (v * (t * m)) \div m = g /\ v * (t * m) = g * m /\ g \in Nat \ {0}
  <2>1. v * (t * m) = g * m /\ g \in Nat \ {0}
    <3>1. t \in Int /\ v \in Int /\ m \in Int
      OBVIOUS
    <3>2. v * (t * m) = (v * t) * m
      BY <3>1, Associate
    <3> QED BY <3>2
  <2> HIDE DEF g
  <2>2. g * m \in Int /\ g * m <= g * m /\ g * m < (g + 1) * m
    BY <2>1, SMT
  <2>3. g = (g * m) \div m
    BY <2>1, <2>2, QuotientIs
  <2> QED BY <2>1, <2>3
<1>2. method = CASE hin = hout /\ g = maxv -> "fullsize"
       [] hin * 2 = hout /\ g = maxv -> IF fancy THEN "h2v1_fancy" ELSE "h2v1"
       [] hin * 2 = hout /\ g * 2 = maxv -> IF fancy THEN "h2v2_fancy" ELSE "h2v2"
       [] hin * 2 # hout /\ hout % hin = 0 /\ maxv % g = 0 -> "int"
       [] hin * 2 = hout /\ g # maxv /\ g * 2 # maxv /\ maxv % g = 0 -> "int"
       [] OTHER -> "JERR_FRACT_SAMPLE_NOTIMPL"
  BY <1>1, Zenon DEF Method
<1> HIDE DEF g, maxv, hin, hout, method
<1>3. maxv \in 1..4 /\ method # "JERR_FRACT_SAMPLE_NOTIMPL"
  BY DEF maxv, method
<1>4. \/ method = "fullsize" /\ g = maxv
      \/ method \in {"h2v1", "h2v1_fancy"} /\ g = maxv
      \/ method \in {"h2v2", "h2v2_fancy"} /\ g * 2 = maxv /\ (method = "h2v2_fancy" => m > 1)
      \/ method = "int" /\ maxv % g = 0
  <2> DEFINE two == hin * 2
             even == hout % hin = 0
  <2> HIDE DEF two, even
  <2>1. method = CASE hin = hout /\ g = maxv -> "fullsize"
       [] two = hout /\ g = maxv -> IF fancy THEN "h2v1_fancy" ELSE "h2v1"
       [] two = hout /\ g * 2 = maxv -> IF fancy THEN "h2v2_fancy" ELSE "h2v2"
       [] two # hout /\ even /\ maxv % g = 0 -> "int"
       [] two = hout /\ g # maxv /\ g * 2 # maxv /\ maxv % g = 0 -> "int"
       [] OTHER -> "JERR_FRACT_SAMPLE_NOTIMPL"
    BY <1>2 DEF two, even
  <2> QED BY <2>1, <1>3
<1>5. g \in 1..4 /\ maxv % g = 0
  BY <1>1, <1>3, <1>4
<1>6. g = v * t
  BY DEF g
<1>7. Suits(method, v, t, m, maxv)
  BY <1>1, <1>4, <1>5, <1>6, <1>3 DEF Suits
<1> QED BY <1>7, Zenon DEF maxv, method

(* Two passes of quantization are only right with strips of at most two    *)
(* rows: post_process_2pass compares what is left of the strip with what   *)
(* is left of the picture from the start of the strip, not from the row it *)
(* has come to (jdpostct.c:223).                                           *)
SmallStrips(p) == p.quantize = "two" => MaxOf(p.samp, 2) <= 2

LEMMA SetupFacts ==
  ASSUME NEW p \in PictureType, SmallStrips(p), pic = Setup(p),
         \A c \in Comps : pic.method[c] # "JERR_FRACT_SAMPLE_NOTIMPL"
  PROVE  PicFacts
<1> DEFINE h == p.h
           samp == p.samp
           m == min_DCT_scaled_size(p.num, p.denom)
           maxv == MaxOf(samp, 2)
           cs == DOMAIN samp
<1>1. /\ h \in Nat \ {0} /\ samp \in Seq((1..4) \X (1..4)) \ {<<>>} /\ p.num \in Nat \ {0}
      /\ p.denom \in Nat \ {0} /\ p.quantize \in {"none", "one", "two"}
  BY DEF PictureType
<1>2. cs = 1..Len(samp) /\ Len(samp) \in Nat \ {0} /\ \A c \in cs : samp[c] \in (1..4) \X (1..4)
  BY <1>1, SeqDef, EmptySeq, SMT
<1>3. 1 \in cs /\ \A c \in cs : samp[c][2] \in 1..4
  BY <1>2
<1>4. m \in 1..16
  BY <1>1, ScaledBlock
<1>5. IsLargest(samp, 2, maxv)
  BY <1>1, MaxIs
<1>6. maxv \in 1..4 /\ (p.quantize = "two" => maxv <= 2)
  BY <1>5 DEF IsLargest, SmallStrips
<1>7. /\ pic.m = m /\ pic.maxv = maxv /\ Comps = cs /\ pic.quantize = p.quantize
      /\ pic.merged = use_merged_upsample(p, m, pic.dct)
      /\ pic.context = (~pic.merged /\ \E c \in cs : pic.method[c] = "h2v2_fancy")
      /\ pic.output_height = CeilDiv(h * m, 8) /\ pic.total_iMCU_rows = CeilDiv(h, maxv * 8)
      /\ \A c \in cs :
           /\ pic.dct[c] = DCT_scaled_size(samp, c, m) /\ pic.v[c] = samp[c][2]
           /\ \E width : pic.method[c] = Method(p, c, m, pic.dct[c], width)
           /\ pic.height_in_blocks[c] = CeilDiv(h * samp[c][2], maxv * 8)
           /\ pic.downsampled_height[c] = CeilDiv(h * samp[c][2] * pic.dct[c], maxv * 8)
           /\ pic.rgroup[c] = (samp[c][2] * pic.dct[c]) \div m
  <2>1. pic = Setup(p)
    OBVIOUS
  <2> QED BY <2>1, SetupIs, Zenon DEF Comps
<1> HIDE DEF h, samp, m, maxv, cs
<1>8. ASSUME NEW c \in cs
      PROVE  \E t \in {1, 2, 4, 8, 16} :
               /\ pic.dct[c] = t * m /\ pic.rgroup[c] = samp[c][2] * t
               /\ pic.rgroup[c] \in 1..4 /\ pic.maxv % pic.rgroup[c] = 0
               /\ pic.v[c] * pic.dct[c] = pic.rgroup[c] * m
               /\ pic.method[c] \in {"fullsize", "h2v1", "h2v1_fancy", "h2v2", "h2v2_fancy", "int"}
               /\ pic.method[c] \in {"fullsize", "h2v1", "h2v1_fancy"} => pic.rgroup[c] = pic.maxv
               /\ pic.method[c] \in {"h2v2", "h2v2_fancy"} => 2 * pic.rgroup[c] = pic.maxv
               /\ pic.method[c] = "h2v2_fancy" => m > 1
  <2>1. PICK t \in {1, 2, 4, 8, 16} : pic.dct[c] = t * m
    BY <1>4, <1>7, ComponentScaled
  <2>2. PICK width : pic.method[c] = Method(p, c, m, pic.dct[c], width)
    BY <1>7
  <2> DEFINE v == samp[c][2]
  <2>3. v \in 1..4 /\ p.samp[c][2] = v /\ MaxOf(p.samp, 2) = maxv
    BY <1>3 DEF samp, maxv
  <2>4. Method(p, c, m, t * m, width) = pic.method[c] /\ pic.method[c] # "JERR_FRACT_SAMPLE_NOTIMPL"
    BY <2>1, <2>2, <1>7
  <2> DEFINE g == (v * (t * m)) \div m
             method == pic.method[c]
  <2>5. /\ g = v * t /\ g \in 1..4 /\ maxv % g = 0 /\ v * (t * m) = g * m
        /\ method \in {"fullsize", "h2v1", "h2v1_fancy", "h2v2", "h2v2_fancy", "int"}
        /\ method \in {"fullsize", "h2v1", "h2v1_fancy"} => g = maxv
        /\ method \in {"h2v2", "h2v2_fancy"} => 2 * g = maxv
        /\ method = "h2v2_fancy" => m > 1
    <3> HIDE DEF v
    <3>1. MaxOf(p.samp, 2) \in 1..4 /\ Method(p, c, m, t * m, width) # "JERR_FRACT_SAMPLE_NOTIMPL"
      BY <1>6, <2>3, <2>4, Zenon
    <3>2. v \in Nat \ {0} /\ p.samp[c][2] = v /\ m \in Nat \ {0} /\ t \in Nat \ {0}
      BY <1>4, <2>3
    <3>3. Suits(Method(p, c, m, t * m, width), v, t, m, MaxOf(p.samp, 2))
      BY <3>1, <3>2, MethodIs, Zenon
    <3>4. Suits(method, v, t, m, maxv)
      BY <2>3, <2>4, <3>3, Zenon
    <3> HIDE DEF method
    <3> QED BY <3>4 DEF Suits
  <2>6. pic.rgroup[c] = g /\ pic.v[c] = v /\ pic.maxv = maxv
    BY <1>7, <2>1
  <2> HIDE DEF g, v, method
  <2> QED BY <2>1, <2>5, <2>6, Zenon DEF v, method
<1>9. pic.merged => Len(samp) = 3 /\ samp[1][2] <= 2 /\ samp[2] = <<1, 1>> /\ samp[3] = <<1, 1>>
                    /\ \A c \in 1..3 : pic.dct[c] = m
  BY <1>7 DEF use_merged_upsample, samp
<1>10. pic.merged => maxv = samp[1][2] /\ \A c \in cs : samp[c][2] \in {1, maxv} /\ pic.dct[c] = m
  <2> SUFFICES ASSUME pic.merged
               PROVE  maxv = samp[1][2] /\ \A c \in cs : samp[c][2] \in {1, maxv} /\ pic.dct[c] = m
    OBVIOUS
  <2>1. cs = 1..3 /\ samp[2][2] = 1 /\ samp[3][2] = 1
    <3>1. cs = 1..Len(samp)
      BY <1>2, Zenon
    <3>2. Len(samp) = 3 /\ samp[2] = <<1, 1>> /\ samp[3] = <<1, 1>>
      BY <1>9, Zenon
    <3> QED BY <3>1, <3>2
  <2>2. \A c \in cs : c = 1 \/ samp[c][2] = 1
    BY <2>1
  <2>3. PICK i \in cs : samp[i][2] = maxv
    BY <1>5 DEF IsLargest, cs
  <2>4. samp[1][2] <= maxv /\ samp[1][2] \in 1..4
    BY <1>3, <1>5 DEF IsLargest, cs
  <2>5. maxv = samp[1][2]
    BY <2>2, <2>3, <2>4, <1>6
  <2> QED BY <2>1, <2>2, <2>5, <1>9
<1>11. PicTypeOK
  <2>1. pic.output_height \in Nat \ {0}
    <3>1. h * m \in Nat /\ h * m # 0
      BY <1>1, <1>4, SMT DEF h
    <3> QED BY <3>1, <1>7, CeilIs
  <2>2. pic.total_iMCU_rows \in Nat \ {0}
    <3>1. maxv * 8 \in Nat \ {0} /\ h \in Nat \ {0}
      BY <1>6, <1>1 DEF h
    <3>2. pic.total_iMCU_rows = CeilDiv(h, maxv * 8)
      BY <1>7, Zenon
    <3> DEFINE k == maxv * 8
    <3>3. k \in Nat \ {0} /\ pic.total_iMCU_rows = CeilDiv(h, k)
      BY <3>1, <3>2, Zenon
    <3> HIDE DEF k
    <3> QED BY <3>1, <3>3, CeilIs
  <2>3. pic.merged \in BOOLEAN /\ pic.context \in BOOLEAN /\ (pic.context => ~pic.merged)
    BY <1>7 DEF use_merged_upsample
  <2>4. pic.context => pic.m >= 2
    <3>1. pic.context => \E c \in cs : pic.method[c] = "h2v2_fancy"
      BY <1>7, Zenon
    <3>2. \A c \in cs : pic.method[c] = "h2v2_fancy" => m > 1
      BY <1>8, Zenon
    <3>3. pic.context => m > 1
      BY <3>1, <3>2, Zenon
    <3>4. pic.m = m
      BY <1>7, Zenon
    <3> QED BY <3>3, <3>4, <1>4
  <2>5. pic.merged => pic.maxv <= 2
    BY <1>7, <1>9, <1>10, <1>3
  <2> QED BY <2>1, <2>2, <2>3, <2>4, <2>5, <1>3, <1>4, <1>6, <1>7, <1>1 DEF PicTypeOK
<1>12. ASSUME NEW c \in Comps
       PROVE  CompTypeOK(c) /\ MethodFits(c) /\ UnitsFit(c) /\ RowsComplete(c)
  <2> DEFINE v == samp[c][2]
             g == pic.rgroup[c]
             dct == pic.dct[c]
             ds == pic.downsampled_height[c]
             hb == pic.height_in_blocks[c]
  <2>1. PICK t \in {1, 2, 4, 8, 16} :
               /\ dct = t * m /\ g = v * t
               /\ g \in 1..4 /\ pic.maxv % g = 0
               /\ pic.v[c] * dct = g * m
               /\ pic.method[c] \in {"fullsize", "h2v1", "h2v1_fancy", "h2v2", "h2v2_fancy", "int"}
               /\ pic.method[c] \in {"fullsize", "h2v1", "h2v1_fancy"} => g = pic.maxv
               /\ pic.method[c] \in {"h2v2", "h2v2_fancy"} => 2 * g = pic.maxv
               /\ pic.method[c] = "h2v2_fancy" => m > 1
    BY <1>7, <1>8
  <2>2. v \in 1..4 /\ pic.v[c] = v /\ pic.maxv = maxv /\ pic.m = m
    BY <1>3, <1>7
  <2>3. dct \in Nat \ {0}
    BY <2>1, <1>4
  <2>4. v * dct = g * m /\ g \in 1..4
    BY <2>1, <2>2
  <2>5. Fitted(h, m, maxv, g, v, dct)
    BY <1>1, <1>4, <1>6, <2>2, <2>3, <2>4 DEF Fitted, h
  <2> DEFINE gm == g * m
  <2>6. hb = CeilDiv(h * v, maxv * 8) /\ ds = CeilDiv(h * gm, maxv * 8)
    <3>1. h * v * dct = h * (v * dct)
      <4>1. h \in Int /\ v \in Int /\ dct \in Int
        <5>1. h \in Nat \ {0} /\ v \in 1..4 /\ dct \in Nat \ {0}
          BY <1>1, <2>2, <2>3, Zenon
        <5> HIDE DEF v, dct
        <5> QED BY <5>1
      <4> HIDE DEF v, dct
      <4> QED BY <4>1, Associate
    <3>2. hb = CeilDiv(h * v, maxv * 8) /\ ds = CeilDiv(h * v * dct, maxv * 8)
      BY <1>7, Zenon
    <3>3. v * dct = gm
      BY <2>4, Zenon
    <3> HIDE DEF v, dct, gm, hb, ds
    <3> QED BY <3>1, <3>2, <3>3, Zenon
  <2>7. pic.output_height = CeilDiv(h * m, 8) /\ pic.total_iMCU_rows = CeilDiv(h, maxv * 8)
    BY <1>7
  <2>8. Unit(c) = gm
    BY <2>2 DEF Unit
  <2>9. gm \in Nat \ {0} /\ maxv * 8 \in Nat \ {0} /\ h \in Nat \ {0} /\ h * v \in Nat
    <3>1. h \in Nat \ {0} /\ m \in 1..16 /\ maxv \in 1..4 /\ g \in 1..4 /\ v \in 1..4
      BY <1>1, <1>4, <1>6, <2>2, <2>4, Zenon
    <3> HIDE DEF g, v
    <3> QED BY <3>1
  <2> HIDE DEF v, g, dct, ds, hb
  <2>10. CompTypeOK(c)
    <3>1. ds \in Nat \ {0}
      <4> HIDE DEF gm
      <4> QED BY <2>6, <2>9, CeilScaled
    <3>2. hb \in Nat
      BY <2>6, <2>9, CeilIs
    <3> QED BY <3>1, <3>2, <2>1, <2>2, <2>3, <2>4, <2>8 DEF CompTypeOK, v, g, dct, ds, hb
  <2>11. MethodFits(c)
    <3>1. pic.method[c] = "h2v2_fancy" /\ ~pic.merged => pic.context
      BY <1>7
    <3>2. pic.merged => g \in {1, pic.maxv}
      <4> SUFFICES ASSUME pic.merged PROVE g \in {1, pic.maxv}
        OBVIOUS
      <4>1. v \in {1, maxv} /\ dct = m
        BY <1>10, <1>7 DEF v, dct
      <4>2. t = 1
        BY <4>1, <2>1, <1>4
      <4> QED BY <4>1, <4>2, <2>1, <2>2
    <3> QED BY <3>1, <3>2, <2>1 DEF MethodFits, g
  <2>12. UnitsFit(c)
    <3>1. (pic.total_iMCU_rows - 1) * gm < ds /\ ds <= pic.total_iMCU_rows * gm
      <4> HIDE DEF gm
      <4> QED BY <2>6, <2>7, <2>9, CeilScaled
    <3>2. Groups = CeilDiv(CeilDiv(h * m, 8), maxv)
      BY <2>2, <2>7 DEF Groups
    <3>3. (Groups - 1) * g < ds /\ ds <= Groups * g
      BY <2>5, <2>6, <3>2, GroupsAre, Zenon
    <3> QED BY <3>1, <3>3, <2>8 DEF UnitsFit, g, ds
  <2>13. RowsComplete(c)
    <3>1. ASSUME NEW u \in Nat, NEW i \in Nat, u * gm + i < ds PROVE u * v + i \div dct < hb
      BY <2>5, <2>6, <3>1, RowDelivered, Zenon
    <3>2. ASSUME NEW n \in 0..pic.output_height - 1 PROVE (n * g) \div maxv < ds
      BY <2>5, <2>6, <2>7, <3>2, NearExists, Zenon
    <3> HIDE DEF gm
    <3> QED BY <3>1, <3>2, <2>2, <2>8 DEF RowsComplete, v, g, dct, ds, hb
  <2> QED BY <2>10, <2>11, <2>12, <2>13
<1> QED BY <1>11, <1>12 DEF PicFacts

(***************************************************************************)
(* The inductive invariant.                                                *)
(***************************************************************************)
Fields ==
  {"mode", "full", "ctr", "avail", "imcu", "which", "state", "x", "next", "togo", "color", "from",
   "spare", "pstart", "pnext", "image", "counted", "moved", "buffer"}
IsState(r) == r = [f \in Fields |-> r[f]]

IdealRow(k) == [c \in Comps |-> Ideal(c, k)]
Part(n, k) == [i \in 1..k |-> IdealRow(n + i - 1)] \* k rows of the picture, from the n-th on

(* At position t of the current list is group G of the picture, with its   *)
(* neighbours if they are needed.                                          *)
Clamped(c, k) ==
  IF k < 0 THEN 0 ELSE IF k >= pic.downsampled_height[c] THEN pic.downsampled_height[c] - 1 ELSE k

ShowsGroup(r, c, t, G) ==
  LET g == pic.rgroup[c]
      ds == pic.downsampled_height[c]
  IN /\ \A d \in 0..g - 1 : g * G + d < ds => Row(r, c, g * t + d) = g * G + d
     /\ pic.context => \A d \in -1..g : g * G + d <= ds => Row(r, c, g * t + d) = Clamped(c, g * G + d)
Shows(r, t, G) == \A c \in Comps : ShowsGroup(r, c, t, G)

(* The upsampler works on group G and has handed on n rows.                *)
Handing(r, G, n) ==
  \/ r.next = pic.maxv /\ n = pic.maxv * G
  \/ /\ r.next \in 1..pic.maxv - 1 /\ n = pic.maxv * G + r.next /\ r.from = r.ctr
     /\ \A k \in r.next..pic.maxv - 1 : \A c \in Comps :
          pic.maxv * G + k < pic.output_height /\ pic.method[c] # "fullsize"
            => r.color[k][c] = Ideal(c, pic.maxv * G + k)

UpState(r, G, n) ==
  /\ ~pic.merged => Handing(r, G, n) /\ r.togo = pic.output_height - n
  /\ pic.merged /\ pic.maxv = 2 =>
       /\ r.togo = pic.output_height - n
       /\ \/ r.spare = <<>> /\ n = 2 * G
          \/ r.spare = <<IdealRow(n)>> /\ n = 2 * G + 1
  /\ pic.merged /\ pic.maxv = 1 => n = G

(* The rows in the buffers.                                                *)
Place(c, w, i) ==
  LET g == pic.rgroup[c]
  IN IF w = 1 /\ i >= Unit(c) THEN i - 2 * g
     ELSE IF w = 1 /\ i >= Unit(c) - 2 * g THEN i + 2 * g ELSE i

Held(r) == IF r.full THEN r.imcu - 1 ELSE r.imcu

Current(r, c) ==
  \A i \in 0..Unit(c) - 1 :
    (r.imcu - 1) * Unit(c) + i < pic.downsampled_height[c]
      => r.buffer[c][Place(c, r.which, i)] = (r.imcu - 1) * Unit(c) + i
Previous(r, c) ==
  \A i \in 0..2 * pic.rgroup[c] - 1 :
    r.buffer[c][Place(c, r.which, Unit(c) + i)] = Held(r) * Unit(c) - 2 * pic.rgroup[c] + i

(* The main controller without context.                                    *)
SimpleCurrent(r, c) ==
  \A i \in 0..Unit(c) - 1 :
    (r.imcu - 1) * Unit(c) + i < pic.downsampled_height[c]
      => r.buffer[c][i] = (r.imcu - 1) * Unit(c) + i
SimpleBuffers(r) == \A c \in Comps : DOMAIN r.buffer[c] = 0..Unit(c) - 1
SimpleInv(r, n) ==
  /\ r.which = 0 /\ r.x = simple_pointers /\ SimpleBuffers(r)
  /\ r.full => r.imcu > 0 /\ r.ctr < pic.m /\ \A c \in Comps : SimpleCurrent(r, c)
  /\ ~r.full => r.ctr = 0
  /\ UpState(r, Held(r) * pic.m + r.ctr, n)

(* And with context.                                                       *)
Buffers(r) == \A c \in Comps : DOMAIN r.buffer[c] = 0..Unit(c) + 2 * pic.rgroup[c] - 1
Wrapped == set_wraparound_pointers(make_funny_pointers)

(* A unit is in the list, above it the last groups of the unit before it.   *)
Listed(r) ==
  \/ r.imcu = 1 /\ r.which = 0 /\ r.x = make_funny_pointers
  \/ r.imcu > 1 /\ r.x = Wrapped /\ \A c \in Comps : Previous(r, c)
UnitRead(r) == r.full /\ r.imcu > 0 /\ Listed(r) /\ \A c \in Comps : Current(r, c)

Beginning(r, n) ==
  /\ r.state = "prepare" /\ ~r.full /\ r.imcu = 0 /\ r.which = 0 /\ r.x = make_funny_pointers
  /\ r.next = pic.maxv /\ UpState(r, 0, n)

Ready(r, n) == UnitRead(r) /\ r.next = pic.maxv /\ UpState(r, Held(r) * pic.m, n)
Waiting(r, n) == r.state = "prepare" /\ Ready(r, n)

InMiddle(r, n) ==
  /\ r.state = "process" /\ UnitRead(r) /\ r.imcu < pic.total_iMCU_rows
  /\ r.avail = pic.m - 1 /\ r.ctr < pic.m - 1
  /\ UpState(r, Held(r) * pic.m + r.ctr, n)

Postponed(r, n) ==
  /\ r.state = "postponed" /\ r.avail = pic.m + 2 /\ r.ctr = pic.m + 1 /\ r.x = Wrapped
  /\ Held(r) \in 1..pic.total_iMCU_rows - 1
  /\ \A c \in Comps : Previous(r, c) /\ (r.full => Current(r, c))
  /\ UpState(r, Held(r) * pic.m - 1, n)

LastGroups == Groups - (pic.total_iMCU_rows - 1) * pic.m
InLast(r, n) ==
  /\ r.state = "process" /\ r.full /\ r.imcu = pic.total_iMCU_rows
  /\ r.avail = LastGroups /\ r.ctr < r.avail
  /\ \A t \in 0..LastGroups - 1 : Shows(r, t, Held(r) * pic.m + t)
  /\ UpState(r, Held(r) * pic.m + r.ctr, n)

ContextInv(r, n) ==
  /\ Buffers(r)
  /\ \/ Beginning(r, n) \/ Waiting(r, n) \/ InMiddle(r, n) \/ Postponed(r, n) \/ InLast(r, n)

MainInv(r, n) == IF pic.context THEN ContextInv(r, n) ELSE SimpleInv(r, n)

(* The postprocessor.                                                      *)
Modes == IF pic.quantize = "two" THEN {"save_and_pass", "crank_dest"} ELSE {"pass_thru"}
Strips(r, n) == r.pstart \in Nat /\ r.pnext \in 0..pic.maxv - 1 /\ r.pstart + r.pnext = n
PostInv(r, n) ==
  /\ r.mode = "save_and_pass" => Strips(r, n) /\ r.image = Part(0, n) /\ r.counted = Part(0, n)
  /\ r.mode = "crank_dest" => /\ Strips(r, n) /\ r.image = Part(0, pic.output_height)
                              /\ r.counted = Part(0, pic.output_height)

StateTypeOK(r) ==
  /\ IsState(r) /\ r.full \in BOOLEAN /\ r.mode \in Modes
  /\ r.which \in 0..1 /\ r.state \in {"prepare", "process", "postponed"}
  /\ r.ctr \in 0..pic.m + 2 /\ r.imcu \in 0..pic.total_iMCU_rows
  /\ r.togo \in 0..pic.output_height /\ r.next \in 0..pic.maxv

OutputInv ==
  /\ PicFacts
  /\ StateTypeOK(s) /\ s.moved = TRUE
  /\ Len(done) \in 0..pic.output_height /\ done = Part(0, Len(done))
  /\ PostInv(s, Len(done))
  /\ s.mode # "crank_dest" /\ Len(done) < pic.output_height => MainInv(s, Len(done))

(***************************************************************************)
(* Parts of the picture.                                                   *)
(***************************************************************************)
LEMMA PartIs ==
  ASSUME NEW n \in Nat, NEW k \in Nat
  PROVE  /\ Part(n, k) \in Seq({IdealRow(j) : j \in Nat}) /\ Len(Part(n, k)) = k
         /\ \A i \in 1..k : Part(n, k)[i] = IdealRow(n + i - 1)
<1> DEFINE S == {IdealRow(j) : j \in Nat}
<1>1. \A i \in 1..k : IdealRow(n + i - 1) \in S
  <2> TAKE i \in 1..k
  <2>1. n + i - 1 \in Nat
    OBVIOUS
  <2> QED BY <2>1
<1> HIDE DEF S
<1>2. Part(n, k) \in [1..k -> S] /\ \A i \in 1..k : Part(n, k)[i] = IdealRow(n + i - 1)
  BY <1>1 DEF Part
<1>3. Part(n, k) \in Seq(S) /\ Len(Part(n, k)) = k
  BY <1>2, SeqDef, SMT
<1> QED BY <1>2, <1>3 DEF S

LEMMA PartJoin ==
  ASSUME NEW n \in Nat, NEW k \in Nat, NEW l \in Nat
  PROVE  Part(n, k) \o Part(n + k, l) = Part(n, k + l)
<1> DEFINE S == {IdealRow(j) : j \in Nat}
           a == Part(n, k)
           b == Part(n + k, l)
           c == Part(n, k + l)
<1>1. /\ a \in Seq(S) /\ Len(a) = k /\ \A i \in 1..k : a[i] = IdealRow(n + i - 1)
      /\ b \in Seq(S) /\ Len(b) = l /\ \A i \in 1..l : b[i] = IdealRow((n + k) + i - 1)
      /\ c \in Seq(S) /\ Len(c) = k + l /\ \A i \in 1..k + l : c[i] = IdealRow(n + i - 1)
  <2>1. n + k \in Nat /\ k + l \in Nat
    OBVIOUS
  <2> QED BY <2>1, PartIs
<1> HIDE DEF S, a, b, c
<1>2. a \o b \in Seq(S) /\ Len(a \o b) = k + l
      /\ \A i \in 1..k + l : (a \o b)[i] = IF i <= k THEN a[i] ELSE b[i - k]
  BY <1>1, ConcatProperties
<1>3. \A i \in 1..k + l : (a \o b)[i] = c[i]
  <2> TAKE i \in 1..k + l
  <2>1. CASE i <= k
    BY <1>1, <1>2, <2>1
  <2>2. CASE ~(i <= k)
    <3>1. i - k \in 1..l /\ (n + k) + (i - k) - 1 = n + i - 1
      BY <2>2
    <3>2. b[i - k] = IdealRow(n + i - 1)
      BY <1>1, <3>1
    <3> QED BY <1>1, <1>2, <2>2, <3>2
  <2> QED BY <2>1, <2>2
<1> QED BY <1>1, <1>2, <1>3, SeqEqual DEF a, b, c

LEMMA PartNone == Part(0, 0) = <<>>
  BY DEF Part

(***************************************************************************)
(* Upsampling.                                                             *)
(***************************************************************************)
LEMMA Quarter ==
  ASSUME NEW maxv \in 1..4, NEW g \in 1..4, maxv % g = 0, NEW k \in 0..maxv - 1
  PROVE  LET q == (k * g) \div maxv
         IN /\ q \in 0..g - 1 /\ q = k \div (maxv \div g)
            /\ g = maxv => q = k
            /\ 2 * g = maxv => q = k \div 2
<1>1. CASE maxv = 1
  BY <1>1
<1>2. CASE maxv = 2
  BY <1>2
<1>3. CASE maxv = 3
  <2>1. g \in {1, 3} /\ k \in {0, 1, 2}
    BY <1>3
  <2> QED BY <1>3, <2>1
<1>4. CASE maxv = 4
  <2>1. g \in {1, 2, 4} /\ k \in {0, 1, 2, 3}
    BY <1>4
  <2>2. CASE g = 1
    BY <1>4, <2>1, <2>2
  <2>3. CASE g = 2
    BY <1>4, <2>1, <2>3
  <2>4. CASE g = 4
    BY <1>4, <2>1, <2>4
  <2> QED BY <2>1, <2>2, <2>3, <2>4
<1> QED BY <1>1, <1>2, <1>3, <1>4

(* The rows made for output row maxv * G + k are those it should have.      *)
LEMMA GroupMade ==
  ASSUME PicFacts, ~pic.merged, NEW r, NEW t \in Nat, r.ctr = t, NEW G \in Nat, Shows(r, t, G),
         NEW c \in Comps, NEW k \in 0..pic.maxv - 1, pic.maxv * G + k < pic.output_height
  PROVE  /\ Upsampled(r, c, k) = Ideal(c, pic.maxv * G + k)
         /\ pic.method[c] = "fullsize" => <<Row(r, c, t * pic.rgroup[c] + k)>> = Ideal(c, pic.maxv * G + k)
<1> DEFINE g == pic.rgroup[c]
           maxv == pic.maxv
           ds == pic.downsampled_height[c]
           method == pic.method[c]
           n == maxv * G + k
           q == (k * g) \div maxv
           base == t * g
           near == g * G
<1>1. /\ maxv \in 1..4 /\ g \in 1..4 /\ maxv % g = 0 /\ ds \in Nat \ {0} /\ pic.output_height \in Nat
      /\ method \in {"fullsize", "h2v1", "h2v1_fancy", "h2v2", "h2v2_fancy", "int"}
      /\ method \in {"fullsize", "h2v1", "h2v1_fancy"} => g = maxv
      /\ method \in {"h2v2", "h2v2_fancy"} => 2 * g = maxv
      /\ method = "h2v2_fancy" => pic.context
  BY DEF PicFacts, PicTypeOK, CompTypeOK, MethodFits
<1>2. n \in Nat /\ (n * g) \div maxv = near + q /\ near \in Nat
  <2>1. n \in Nat /\ near \in Nat
    BY <1>1, SMT
  <2>2. (n * g) \div maxv = near + q
    <3>1. maxv \in 1..4 /\ g \in 1..4 /\ maxv % g = 0 /\ k \in 0..maxv - 1
      BY <1>1
    <3> HIDE DEF maxv, g
    <3> QED BY <3>1, NearIs
  <2> QED BY <2>1, <2>2
<1>3. q \in 0..g - 1 /\ q = k \div (maxv \div g) /\ (g = maxv => q = k) /\ (2 * g = maxv => q = k \div 2)
  <2>1. maxv \in 1..4 /\ g \in 1..4 /\ maxv % g = 0 /\ k \in 0..maxv - 1
    BY <1>1
  <2> HIDE DEF maxv, g
  <2> QED BY <2>1, Quarter
<1>4. near + q < ds
  <2>1. n \in 0..pic.output_height - 1
    BY <1>1, <1>2
  <2>2. (n * g) \div maxv < ds
    BY <2>1 DEF PicFacts, RowsComplete
  <2> QED BY <1>2, <2>2
<1>5. base \in Int /\ g * t = base /\ t * g = base
  BY <1>1
<1>6. /\ \A d \in 0..g - 1 : near + d < ds => Row(r, c, base + d) = near + d
      /\ pic.context => \A d \in -1..g : near + d <= ds => Row(r, c, base + d) = Clamped(c, near + d)
  BY <1>5 DEF Shows, ShowsGroup
<1>7. Row(r, c, base + q) = near + q
  BY <1>3, <1>4, <1>6
<1>8. method # "h2v2_fancy" => Ideal(c, n) = <<near + q>>
  BY <1>2 DEF Ideal
<1> HIDE DEF g, maxv, ds, method, n, q, base, near
<1>9. CASE method # "h2v2_fancy"
  <2>1. method = "fullsize" => <<Row(r, c, base + k)>> = Ideal(c, n)
    BY <1>1, <1>3, <1>7, <1>8, <1>9
  <2>2. Upsampled(r, c, k) = <<Row(r, c, base + q)>>
    <3>1. CASE method \in {"fullsize", "h2v1", "h2v1_fancy"}
      <4>1. Upsampled(r, c, k) = <<Row(r, c, r.ctr * pic.rgroup[c] + k)>>
        BY <3>1 DEF Upsampled, method
      <4> QED BY <4>1, <3>1, <1>1, <1>3 DEF base, g
    <3>2. CASE method = "h2v2"
      <4>1. Upsampled(r, c, k) = <<Row(r, c, r.ctr * pic.rgroup[c] + k \div 2)>>
        BY <3>2 DEF Upsampled, method
      <4> QED BY <4>1, <3>2, <1>1, <1>3 DEF base, g
    <3>3. CASE method = "int"
      <4>1. Upsampled(r, c, k) = <<Row(r, c, r.ctr * pic.rgroup[c] + k \div (pic.maxv \div pic.rgroup[c]))>>
        BY <3>3 DEF Upsampled, method
      <4> QED BY <4>1, <3>3, <1>1, <1>3 DEF base, g, maxv
    <3> QED BY <1>1, <1>9, <3>1, <3>2, <3>3
  <2> QED BY <2>1, <2>2, <1>7, <1>8, <1>9 DEF base, n, g, maxv, method
<1>10. CASE method = "h2v2_fancy"
  <2> DEFINE e == IF k % 2 = 0 THEN -1 ELSE 1
  <2>1. q = k \div 2 /\ 2 * g = maxv /\ pic.context /\ e \in {-1, 1}
    BY <1>1, <1>3, <1>10
  <2>2. n % 2 = k % 2
    <3>1. n = 2 * near + k
      BY <1>1, <1>2, <2>1 DEF n, near
    <3>2. k \in Nat
      BY <1>1 DEF maxv
    <3> QED BY <3>1, <3>2, <1>2
  <2>3. Ideal(c, n) = <<near + q, Clamped(c, near + q + e)>>
    <3>1. near + q + e > ds - 1 <=> near + q + e >= ds
      BY <1>1, <1>2, <1>3, <2>1
    <3>2. Ideal(c, n) = <<(n * pic.rgroup[c]) \div pic.maxv,
             Clamped(c, (n * pic.rgroup[c]) \div pic.maxv + (IF n % 2 = 0 THEN -1 ELSE 1))>>
      <4>1. (n * pic.rgroup[c]) \div pic.maxv = near + q /\ near + q \in Int
        BY <1>2, <1>3, <1>1 DEF g, maxv
      <4>2. \A z \in Int : z > ds - 1 <=> z >= ds
        BY <1>1
      <4>3. (n * pic.rgroup[c]) \div pic.maxv + (IF n % 2 = 0 THEN -1 ELSE 1) \in Int
        BY <4>1
      <4> QED BY <4>2, <4>3, <1>10 DEF Ideal, Clamped, method, ds
    <3> QED BY <3>2, <2>2, <1>2 DEF g, maxv
  <2>4. Upsampled(r, c, k) = <<Row(r, c, base + q), Row(r, c, base + q + e)>>
    <3>1. Upsampled(r, c, k)
            = <<Row(r, c, r.ctr * pic.rgroup[c] + k \div 2),
                Row(r, c, r.ctr * pic.rgroup[c] + k \div 2 + (IF k % 2 = 0 THEN -1 ELSE 1))>>
      BY <1>10 DEF Upsampled, method
    <3> QED BY <3>1, <2>1 DEF base, g
  <2>5. Row(r, c, base + (q + e)) = Clamped(c, near + (q + e))
    <3>1. q + e \in -1..g
      BY <1>1, <1>3, <2>1
    <3>2. near + (q + e) <= ds
      BY <1>1, <1>2, <1>3, <1>4, <2>1
    <3> HIDE DEF e
    <3> QED BY <3>1, <3>2, <1>6, <2>1
  <2>6. base + (q + e) = base + q + e /\ near + (q + e) = near + q + e
    BY <1>1, <1>2, <1>3, <1>5, <2>1
  <2> HIDE DEF e
  <2> QED BY <2>3, <2>4, <2>5, <2>6, <1>7, <1>10 DEF method, n, maxv
<1> QED BY <1>9, <1>10

LEMMA LeastIs ==
  ASSUME NEW a \in Int, NEW b \in Int, NEW c \in Int
  PROVE  /\ Least({a, b, c}) \in {a, b, c}
         /\ Least({a, b, c}) <= a /\ Least({a, b, c}) <= b /\ Least({a, b, c}) <= c
<1>1. \E n \in {a, b, c} : \A k \in {a, b, c} : n <= k
  <2>1. CASE a <= b /\ a <= c
    BY <2>1
  <2>2. CASE b <= a /\ b <= c
    BY <2>2
  <2>3. CASE c <= a /\ c <= b
    BY <2>3
  <2> QED BY <2>1, <2>2, <2>3
<1>2. \A k \in {a, b, c} : Least({a, b, c}) <= k
  BY <1>1, Zenon DEF Least
<1>3. Least({a, b, c}) \in {a, b, c}
  BY <1>1, Zenon DEF Least
<1> QED BY <1>2, <1>3, Zenon

(* What the upsampler leaves as it is.                                     *)
Kept(r, q) ==
  /\ IsState(q)
  /\ q.mode = r.mode /\ q.full = r.full /\ q.avail = r.avail /\ q.imcu = r.imcu
  /\ q.which = r.which /\ q.state = r.state /\ q.x = r.x /\ q.pstart = r.pstart
  /\ q.pnext = r.pnext /\ q.image = r.image /\ q.counted = r.counted
  /\ q.moved = r.moved /\ q.buffer = r.buffer

(* From group G of the picture, n rows are handed on now.                  *)
Advanced(r, q, G, n) ==
  /\ q.togo \in 0..pic.output_height /\ q.next \in 0..pic.maxv
  /\ ~pic.merged => n <= pic.maxv * (G + 1)
  /\ \/ q.ctr = r.ctr /\ (n < pic.output_height => UpState(q, G, n))
     \/ /\ q.ctr = r.ctr + 1 /\ (n < pic.output_height => UpState(q, G + 1, n))
        /\ ~pic.merged => q.next = pic.maxv

Delivers(r, u, room, G, n) ==
  \E len \in 1..pic.output_height - n :
    len <= room /\ u.rows = Part(n, len) /\ Kept(r, u.r) /\ Advanced(r, u.r, G, n + len)

LEMMA RowSame ==
  ASSUME NEW r, NEW q, q.x = r.x, q.which = r.which, q.buffer = r.buffer, NEW c, NEW i
  PROVE  Row(q, c, i) = Row(r, c, i)
  BY Zenon DEF Row

LEMMA SepDelivers ==
  ASSUME PicFacts, ~pic.merged, NEW r, StateTypeOK(r), NEW G \in Nat, NEW n \in Nat,
         n < pic.output_height, Shows(r, r.ctr, G), UpState(r, G, n), NEW room \in Nat \ {0}
  PROVE  Delivers(r, sep_upsample(r, room), room, G, n)
<1> DEFINE maxv == pic.maxv
           oh == pic.output_height
           mG == maxv * G
           color == [k \in 0..maxv - 1 |-> [c \in Comps |-> Upsampled(r, c, k)]]
           r1 == NextGroup(r)
           num == Least({maxv - r1.next, r1.togo, room})
           u == sep_upsample(r, room)
           q == [r1 EXCEPT !.togo = @ - num, !.next = @ + num,
                           !.ctr = IF r1.next + num >= maxv THEN @ + 1 ELSE @]
           Colored(z, k) == \A c \in Comps : mG + k < oh /\ pic.method[c] # "fullsize"
                                               => z.color[k][c] = Ideal(c, mG + k)
<1>1. /\ maxv \in 1..4 /\ oh \in Nat /\ IsState(r) /\ r.ctr \in Nat /\ r.next \in 0..maxv
      /\ r.togo = oh - n /\ Handing(r, G, n)
  BY DEF PicFacts, PicTypeOK, StateTypeOK, UpState
<1>2. mG \in Nat
  BY <1>1, SMT
<1> HIDE DEF mG
<1>3. /\ Kept(r, r1) /\ r1.ctr = r.ctr /\ r1.togo = oh - n /\ r1.from = r.ctr
      /\ r1.next \in 0..maxv - 1 /\ n = mG + r1.next
      /\ \A k \in r1.next..maxv - 1 : Colored(r1, k)
  <2>1. CASE r.next < maxv
    <3>1. r1 = r
      BY <2>1 DEF NextGroup
    <3>2. r.next \in 1..maxv - 1 /\ n = mG + r.next /\ r.from = r.ctr
          /\ \A k \in r.next..maxv - 1 : \A c \in Comps :
               mG + k < oh /\ pic.method[c] # "fullsize" => r.color[k][c] = Ideal(c, mG + k)
      BY <1>1, <2>1 DEF Handing, mG
    <3> QED BY <1>1, <3>1, <3>2 DEF Kept
  <2>2. CASE ~(r.next < maxv)
    <3>1. r1 = [r EXCEPT !.color = color, !.next = 0, !.from = r.ctr]
      BY <2>2, Zenon DEF NextGroup
    <3> HIDE DEF color, r1
    <3>2. Kept(r, r1) /\ r1.ctr = r.ctr /\ r1.togo = r.togo /\ r1.from = r.ctr /\ r1.next = 0
          /\ r1.color = color
      BY <1>1, <3>1 DEF Kept, IsState, Fields
    <3>3. n = mG
      BY <1>1, <2>2 DEF Handing, mG
    <3>4. ASSUME NEW k \in 0..maxv - 1 PROVE Colored(r1, k)
      <4> SUFFICES ASSUME NEW c \in Comps, mG + k < oh PROVE r1.color[k][c] = Ideal(c, mG + k)
        OBVIOUS
      <4>1. Upsampled(r, c, k) = Ideal(c, mG + k)
        BY <1>1, GroupMade DEF mG
      <4>2. color[k][c] = Upsampled(r, c, k)
        BY DEF color
      <4> QED BY <3>2, <4>1, <4>2
    <3> HIDE DEF Colored
    <3> QED BY <1>1, <1>2, <3>2, <3>3, <3>4
  <2> QED BY <2>1, <2>2
<1> HIDE DEF r1
<1>4. num \in 1..oh - n /\ r1.next + num <= maxv /\ num <= oh - n /\ num <= room
  <2>1. maxv - r1.next \in Int /\ r1.togo \in Int /\ room \in Int
    BY <1>1, <1>3
  <2>2. /\ num \in {maxv - r1.next, r1.togo, room}
        /\ num <= maxv - r1.next /\ num <= r1.togo /\ num <= room
    BY <2>1, LeastIs, Zenon
  <2> HIDE DEF num
  <2> QED BY <2>1, <2>2, <1>1, <1>3
<1>5. u = [r |-> q, rows |-> [i \in 1..num |-> Converted(r1, r1.next + i - 1)]]
  BY Zenon DEF sep_upsample, HandOn, r1
<1> HIDE DEF num, Colored
<1>6. /\ Kept(r, q) /\ q.color = r1.color /\ q.from = r1.from
      /\ q.togo = oh - n - num /\ q.next = r1.next + num
      /\ q.ctr = IF q.next >= maxv THEN r.ctr + 1 ELSE r.ctr
  <2>1. IsState(r1)
    BY <1>3 DEF Kept
  <2>2. /\ Kept(r1, q) /\ q.color = r1.color /\ q.from = r1.from
        /\ q.togo = r1.togo - num /\ q.next = r1.next + num
        /\ q.ctr = IF r1.next + num >= maxv THEN r1.ctr + 1 ELSE r1.ctr
    BY <2>1 DEF Kept, IsState, Fields
  <2> HIDE DEF q
  <2> QED BY <2>2, <1>3, Zenon DEF Kept
<1> HIDE DEF q
<1>7. [i \in 1..num |-> Converted(r1, r1.next + i - 1)] = Part(n, num)
  <2> SUFFICES ASSUME NEW i \in 1..num
               PROVE  Converted(r1, r1.next + i - 1) = IdealRow(n + i - 1)
    BY DEF Part
  <2> DEFINE k == r1.next + i - 1
  <2>1. k \in r1.next..maxv - 1 /\ k \in 0..maxv - 1 /\ mG + k < oh /\ n + i - 1 = mG + k
    BY <1>1, <1>2, <1>3, <1>4
  <2> HIDE DEF k
  <2>2. ASSUME NEW c \in Comps
        PROVE  (IF pic.method[c] = "fullsize" THEN <<Row(r1, c, r1.from * pic.rgroup[c] + k)>>
                ELSE r1.color[k][c]) = Ideal(c, mG + k)
    <3>1. CASE pic.method[c] = "fullsize"
      <4>1. <<Row(r, c, r.ctr * pic.rgroup[c] + k)>> = Ideal(c, mG + k)
        BY <1>1, <2>1, <3>1, GroupMade DEF mG
      <4>2. Row(r1, c, r.ctr * pic.rgroup[c] + k) = Row(r, c, r.ctr * pic.rgroup[c] + k)
        BY <1>3, RowSame DEF Kept
      <4> QED BY <3>1, <4>1, <4>2, <1>3
    <3>2. CASE pic.method[c] # "fullsize"
      <4>1. Colored(r1, k)
        BY <1>3, <2>1
      <4> QED BY <3>2, <4>1, <2>1 DEF Colored
    <3> QED BY <3>1, <3>2
  <2>3. Converted(r1, k) = IdealRow(mG + k)
    BY <2>2 DEF Converted, IdealRow
  <2> QED BY <2>1, <2>3 DEF k
<1>8. Advanced(r, q, G, n + num)
  <2>1. q.togo \in 0..oh /\ q.next \in 0..maxv
    BY <1>1, <1>3, <1>4, <1>6
  <2>2. q.togo = oh - (n + num)
    BY <1>1, <1>4, <1>6
  <2>0. n + num <= maxv * (G + 1) /\ maxv * (G + 1) = mG + maxv
    <3>1. maxv * (G + 1) = mG + maxv
      BY <1>1 DEF mG
    <3> QED BY <3>1, <1>1, <1>2, <1>3, <1>4
  <2>3. CASE q.next >= maxv
    <3>1. q.next = maxv /\ n + num = mG + maxv /\ q.ctr = r.ctr + 1
      BY <2>3, <1>1, <1>2, <1>3, <1>4, <1>6
    <3>2. maxv * (G + 1) = mG + maxv
      BY <2>0
    <3>3. UpState(q, G + 1, n + num)
      BY <3>1, <3>2, <2>2 DEF UpState, Handing
    <3> QED BY <2>0, <2>1, <3>1, <3>3 DEF Advanced
  <2>4. CASE ~(q.next >= maxv)
    <3>1. q.next \in 1..maxv - 1 /\ n + num = mG + q.next /\ q.ctr = r.ctr /\ q.from = q.ctr
      BY <2>4, <1>1, <1>2, <1>3, <1>4, <1>6
    <3>2. ASSUME NEW k \in q.next..maxv - 1, NEW c \in Comps, mG + k < oh, pic.method[c] # "fullsize"
          PROVE  q.color[k][c] = Ideal(c, mG + k)
      <4>1. k \in r1.next..maxv - 1
        BY <1>1, <1>3, <1>4, <1>6
      <4> QED BY <1>3, <1>6, <3>2, <4>1 DEF Colored
    <3>3. UpState(q, G, n + num)
      BY <3>1, <3>2, <2>2 DEF UpState, Handing, mG
    <3> QED BY <2>0, <2>1, <3>1, <3>3 DEF Advanced
  <2> QED BY <2>3, <2>4
<1>9. u.r = q /\ u.rows = Part(n, num)
  BY <1>5, <1>7
<1> HIDE DEF u
<1> QED BY <1>4, <1>6, <1>8, <1>9 DEF Delivers, u

LEMMA PartOne ==
  ASSUME NEW n \in Nat
  PROVE  /\ Part(n, 1) = <<IdealRow(n)>>
         /\ Part(n, 2) = <<IdealRow(n), IdealRow(n + 1)>>
<1>1. Part(n, 1) = <<IdealRow(n)>>
  <2>1. \A i \in 1..1 : n + i - 1 = n
    OBVIOUS
  <2>2. Part(n, 1) = [i \in 1..1 |-> IdealRow(n)]
    BY <2>1 DEF Part
  <2> QED BY <2>2
<1>2. Part(n, 2) = <<IdealRow(n), IdealRow(n + 1)>>
  <2>1. \A i \in 1..2 : n + i - 1 = IF i = 1 THEN n ELSE n + 1
    OBVIOUS
  <2>2. Part(n, 2) = [i \in 1..2 |-> IF i = 1 THEN IdealRow(n) ELSE IdealRow(n + 1)]
    BY <2>1 DEF Part
  <2> QED BY <2>2
<1> QED BY <1>1, <1>2

LEMMA MergedMade ==
  ASSUME PicFacts, pic.merged, NEW r, NEW t \in Nat, r.ctr = t, NEW G \in Nat, Shows(r, t, G),
         NEW k \in 0..pic.maxv - 1, pic.maxv * G + k < pic.output_height
  PROVE  Merged(r, k) = IdealRow(pic.maxv * G + k)
<1> DEFINE maxv == pic.maxv
           n == maxv * G + k
<1>1. maxv \in 1..2 /\ pic.output_height \in Nat
  BY DEF PicFacts, PicTypeOK
<1>2. n \in Nat
  BY <1>1, SMT
<1>3. ASSUME NEW c \in Comps
      PROVE  <<Row(r, c, r.ctr * pic.rgroup[c] + (IF pic.rgroup[c] = 2 THEN k ELSE 0))>> = Ideal(c, n)
  <2> DEFINE g == pic.rgroup[c]
             ds == pic.downsampled_height[c]
             q == (k * g) \div maxv
             base == t * g
             near == g * G
  <2>1. g \in 1..4 /\ g \in {1, maxv} /\ maxv % g = 0 /\ ds \in Nat
    BY DEF PicFacts, CompTypeOK, MethodFits
  <2>2. near \in Nat /\ base \in Nat /\ g * t = base
    BY <2>1, SMT
  <2>3. (n * g) \div maxv = near + q
    <3>1. maxv \in 1..4 /\ g \in 1..4 /\ maxv % g = 0 /\ k \in 0..maxv - 1
      BY <1>1, <2>1
    <3> HIDE DEF maxv, g
    <3> QED BY <3>1, NearIs
  <2>4. q = (IF g = 2 THEN k ELSE 0) /\ q \in 0..g - 1
    <3>1. CASE maxv = 1
      BY <2>1, <3>1
    <3>2. CASE maxv = 2 /\ g = 1
      BY <3>2
    <3>3. CASE maxv = 2 /\ g = 2
      BY <3>3
    <3> QED BY <1>1, <2>1, <3>1, <3>2, <3>3
  <2>5. near + q < ds
    <3>1. n \in 0..pic.output_height - 1
      BY <1>1, <1>2
    <3>2. (n * g) \div maxv < ds
      BY <3>1 DEF PicFacts, RowsComplete
    <3> QED BY <2>3, <3>2
  <2>6. \A d \in 0..g - 1 : near + d < ds => Row(r, c, base + d) = near + d
    BY <2>2 DEF Shows, ShowsGroup
  <2>7. Row(r, c, base + q) = near + q
    BY <2>4, <2>5, <2>6
  <2>8. Ideal(c, n) = <<(n * g) \div maxv>>
    BY DEF Ideal
  <2> HIDE DEF q, near, n
  <2> QED BY <2>3, <2>4, <2>7, <2>8
<1> QED BY <1>3 DEF Merged, IdealRow

LEMMA Prefixes ==
  ASSUME NEW a, NEW b
  PROVE  SubSeq(<<a, b>>, 1, 1) = <<a>> /\ SubSeq(<<a, b>>, 1, 2) = <<a, b>>
<1> DEFINE v == <<a, b>>
<1>1. v \in Seq({a, b}) /\ Len(v) = 2 /\ v[1] = a /\ v[2] = b
  OBVIOUS
<1> HIDE DEF v
<1>2. SubSeq(v, 1, 1) = [i \in 1..1 |-> a] /\ SubSeq(v, 1, 2) = [i \in 1..2 |-> IF i = 1 THEN a ELSE b]
  <2>1. /\ SubSeq(v, 1, 1) \in Seq({a, b}) /\ Len(SubSeq(v, 1, 1)) = 1
        /\ \A i \in 1..1 : SubSeq(v, 1, 1)[i] = v[i]
    BY <1>1, SubSeqProperties
  <2>2. /\ SubSeq(v, 1, 2) \in Seq({a, b}) /\ Len(SubSeq(v, 1, 2)) = 2
        /\ \A i \in 1..2 : SubSeq(v, 1, 2)[i] = v[i]
    BY <1>1, SubSeqProperties
  <2>3. SubSeq(v, 1, 1) = [i \in 1..1 |-> SubSeq(v, 1, 1)[i]]
    BY <2>1
  <2>4. SubSeq(v, 1, 2) = [i \in 1..2 |-> SubSeq(v, 1, 2)[i]]
    BY <2>2
  <2>5. \A i \in 1..1 : SubSeq(v, 1, 1)[i] = a
    BY <1>1, <2>1
  <2>6. \A i \in 1..2 : SubSeq(v, 1, 2)[i] = IF i = 1 THEN a ELSE b
    BY <1>1, <2>2
  <2> QED BY <2>3, <2>4, <2>5, <2>6
<1>3. <<a>> = [i \in 1..1 |-> a] /\ <<a, b>> = [i \in 1..2 |-> IF i = 1 THEN a ELSE b]
  OBVIOUS
<1> QED BY <1>2, <1>3 DEF v

LEMMA Merged2Delivers ==
  ASSUME PicFacts, pic.merged, pic.maxv = 2, NEW r, StateTypeOK(r), NEW G \in Nat, NEW n \in Nat,
         n < pic.output_height, Shows(r, r.ctr, G), UpState(r, G, n), NEW room \in Nat \ {0}
  PROVE  Delivers(r, merged_2v_upsample(r, room), room, G, n)
<1> DEFINE oh == pic.output_height
           u == merged_2v_upsample(r, room)
<1>1. /\ oh \in Nat /\ IsState(r) /\ r.ctr \in Nat /\ r.next \in 0..2
      /\ r.togo = oh - n
      /\ \/ r.spare = <<>> /\ n = 2 * G
         \/ r.spare = <<IdealRow(n)>> /\ n = 2 * G + 1
  BY DEF PicFacts, PicTypeOK, StateTypeOK, UpState
<1>4. oh \in Nat /\ r.ctr \in Nat /\ r.next \in 0..2 /\ r.togo = oh - n /\ n < oh
  BY <1>1
<1>2. CASE r.spare # <<>>
  <2> DEFINE q == [r EXCEPT !.spare = <<>>, !.togo = @ - 1, !.ctr = @ + 1]
  <2>1. u = [r |-> q, rows |-> <<r.spare[1]>>]
    BY <1>2 DEF merged_2v_upsample
  <2>2. Kept(r, q) /\ q.spare = <<>> /\ q.togo = r.togo - 1 /\ q.ctr = r.ctr + 1 /\ q.next = r.next
    BY <1>1 DEF Kept, IsState, Fields
  <2> HIDE DEF q
  <2>3. r.spare = <<IdealRow(n)>> /\ n + 1 = 2 * (G + 1)
    BY <1>1, <1>2
  <2>4. u.rows = Part(n, 1) /\ u.r = q
    BY <2>1, <2>3, PartOne
  <2>5. Advanced(r, q, G, n + 1)
    <3>1. q.togo = oh - (n + 1) /\ q.togo \in 0..oh
      <4> HIDE DEF oh
      <4> QED BY <1>4, <2>2
    <3>2. UpState(q, G + 1, n + 1)
      BY <2>2, <2>3, <3>1 DEF UpState
    <3> QED BY <1>1, <2>2, <3>1, <3>2 DEF Advanced
  <2>6. 1 \in 1..oh - n /\ 1 <= room
    BY <1>4
  <2> HIDE DEF u
  <2> QED BY <2>2, <2>4, <2>5, <2>6 DEF Delivers, u
<1>3. CASE r.spare = <<>>
  <2> DEFINE num == Least({2, r.togo, room})
             q == [r EXCEPT !.togo = @ - num, !.spare = IF num > 1 THEN <<>> ELSE <<Merged(r, 1)>>,
                           !.ctr = IF num > 1 THEN @ + 1 ELSE @]
  <2>1. u = [r |-> q, rows |-> SubSeq(<<Merged(r, 0), Merged(r, 1)>>, 1, num)]
    BY <1>3 DEF merged_2v_upsample
  <2>2. num \in 1..2 /\ num <= oh - n /\ num <= room
    <3>1. 2 \in Int /\ r.togo \in Int /\ room \in Int
      BY <1>4
    <3>2. num \in {2, r.togo, room} /\ num <= 2 /\ num <= r.togo /\ num <= room
      BY <3>1, LeastIs, Zenon
    <3> HIDE DEF num
    <3> QED BY <3>1, <3>2, <1>4
  <2>3. /\ Kept(r, q) /\ q.togo = r.togo - num /\ q.next = r.next
        /\ q.spare = (IF num > 1 THEN <<>> ELSE <<Merged(r, 1)>>)
        /\ q.ctr = (IF num > 1 THEN r.ctr + 1 ELSE r.ctr)
    <3> HIDE DEF num
    <3> QED BY <1>1 DEF Kept, IsState, Fields
  <2> HIDE DEF q, num
  <2>4. n = 2 * G
    <3>1. <<IdealRow(n)>> # <<>>
      OBVIOUS
    <3> QED BY <1>1, <1>3, <3>1
  <2>5. Merged(r, 0) = IdealRow(n) /\ (n + 1 < oh => Merged(r, 1) = IdealRow(n + 1))
    <3>1. 0 \in 0..pic.maxv - 1 /\ 1 \in 0..pic.maxv - 1 /\ pic.maxv * G + 0 = n /\ pic.maxv * G + 1 = n + 1
      BY <2>4
    <3>2. Merged(r, 0) = IdealRow(pic.maxv * G + 0)
      BY <3>1, <1>4, MergedMade
    <3>3. n + 1 < oh => Merged(r, 1) = IdealRow(pic.maxv * G + 1)
      BY <3>1, <1>4, MergedMade
    <3> QED BY <3>1, <3>2, <3>3
  <2>6. u.rows = Part(n, num) /\ u.r = q
    <3>1. CASE num = 1
      <4>1. SubSeq(<<Merged(r, 0), Merged(r, 1)>>, 1, 1) = <<Merged(r, 0)>>
        BY Prefixes
      <4> QED BY <2>1, <2>5, <3>1, <4>1, PartOne
    <3>2. CASE num = 2
      <4>1. SubSeq(<<Merged(r, 0), Merged(r, 1)>>, 1, 2) = <<Merged(r, 0), Merged(r, 1)>>
        BY Prefixes
      <4>2. n + 1 < oh
        BY <2>2, <3>2, <1>4
      <4>3. Merged(r, 0) = IdealRow(n) /\ Merged(r, 1) = IdealRow(n + 1)
        BY <2>5, <4>2
      <4>4. SubSeq(<<Merged(r, 0), Merged(r, 1)>>, 1, num) = Part(n, num)
        BY <3>2, <4>1, <4>3, PartOne
      <4> HIDE DEF u
      <4> QED BY <2>1, <4>4
    <3> QED BY <2>2, <3>1, <3>2
  <2>7. Advanced(r, q, G, n + num)
    <3>1. q.togo = oh - (n + num) /\ q.togo \in 0..oh /\ q.next \in 0..pic.maxv
      <4> HIDE DEF oh
      <4> QED BY <1>4, <2>2, <2>3
    <3>2. CASE num = 1
      <4>1. n + 1 < oh => UpState(q, G, n + 1)
        BY <2>3, <2>4, <2>5, <3>1, <3>2 DEF UpState
      <4> QED BY <2>3, <3>1, <3>2, <4>1 DEF Advanced
    <3>3. CASE num = 2
      <4>1. n + 2 = 2 * (G + 1)
        BY <2>4
      <4>2. UpState(q, G + 1, n + 2)
        BY <2>3, <3>1, <3>3, <4>1 DEF UpState
      <4> QED BY <2>3, <3>1, <3>3, <4>2 DEF Advanced
    <3> QED BY <2>2, <3>2, <3>3
  <2>8. num \in 1..oh - n /\ num <= room
    BY <2>2, <1>4
  <2> HIDE DEF u
  <2> QED BY <2>3, <2>6, <2>7, <2>8 DEF Delivers, u
<1> QED BY <1>2, <1>3

LEMMA Merged1Delivers ==
  ASSUME PicFacts, pic.merged, pic.maxv = 1, NEW r, StateTypeOK(r), NEW G \in Nat, NEW n \in Nat,
         n < pic.output_height, Shows(r, r.ctr, G), UpState(r, G, n), NEW room \in Nat \ {0}
  PROVE  Delivers(r, merged_1v_upsample(r, room), room, G, n)
<1> DEFINE oh == pic.output_height
           u == merged_1v_upsample(r, room)
           q == [r EXCEPT !.ctr = @ + 1]
<1>1. /\ oh \in Nat /\ IsState(r) /\ r.ctr \in Nat /\ r.next \in 0..1 /\ r.togo \in 0..oh /\ n = G
  BY DEF PicFacts, PicTypeOK, StateTypeOK, UpState
<1>2. u = [r |-> q, rows |-> <<Merged(r, 0)>>]
  BY DEF merged_1v_upsample
<1>3. Kept(r, q) /\ q.ctr = r.ctr + 1 /\ q.next = r.next /\ q.togo = r.togo
  BY <1>1 DEF Kept, IsState, Fields
<1> HIDE DEF q
<1>4. Merged(r, 0) = IdealRow(n)
  <2>1. 0 \in 0..pic.maxv - 1 /\ pic.maxv * G + 0 = n
    BY <1>1
  <2> QED BY <2>1, <1>1, MergedMade
<1>5. u.rows = Part(n, 1) /\ u.r = q
  BY <1>2, <1>4, PartOne
<1>6. Advanced(r, q, G, n + 1)
  <2>1. UpState(q, G + 1, n + 1)
    BY <1>1 DEF UpState
  <2> QED BY <1>1, <1>3, <2>1 DEF Advanced
<1>7. 1 \in 1..oh - n /\ 1 <= room
  BY <1>1
<1> HIDE DEF u
<1> QED BY <1>3, <1>5, <1>6, <1>7 DEF Delivers, u

LEMMA UpsampleDelivers ==
  ASSUME PicFacts, NEW r, StateTypeOK(r), NEW G \in Nat, NEW n \in Nat,
         n < pic.output_height, Shows(r, r.ctr, G), UpState(r, G, n), NEW room \in Nat \ {0}
  PROVE  Delivers(r, upsample(r, room), room, G, n)
<1>1. pic.merged => pic.maxv \in {1, 2}
  BY DEF PicFacts, PicTypeOK
<1>2. CASE ~pic.merged
  BY <1>2, SepDelivers DEF upsample
<1>3. CASE pic.merged /\ pic.maxv = 2
  BY <1>3, Merged2Delivers DEF upsample
<1>4. CASE pic.merged /\ pic.maxv = 1
  BY <1>4, Merged1Delivers DEF upsample
<1> QED BY <1>1, <1>2, <1>3, <1>4

(***************************************************************************)
(* Postprocessing.                                                         *)
(***************************************************************************)
Undisturbed(r, q) ==
  /\ IsState(q) /\ q.mode = r.mode /\ q.full = r.full /\ q.avail = r.avail /\ q.imcu = r.imcu
  /\ q.which = r.which /\ q.state = r.state /\ q.x = r.x /\ q.moved = r.moved /\ q.buffer = r.buffer

PostDelivers(r, u, G, n) ==
  \E len \in 1..pic.output_height - n :
    /\ u.rows = Part(n, len) /\ Undisturbed(r, u.r) /\ Advanced(r, u.r, G, n + len)
    /\ PostInv(u.r, n + len)

(* What postprocessing returns.                                            *)
LEMMA PostShape ==
  ASSUME PicFacts, NEW r, StateTypeOK(r), NEW room
  PROVE  DOMAIN post_process_data(r, room) = {"r", "rows"}
<1>1. r.mode \in {"pass_thru", "save_and_pass", "crank_dest"}
  BY DEF StateTypeOK, Modes
<1>2. ASSUME NEW k PROVE DOMAIN upsample(r, k) = {"r", "rows"}
  BY DEF upsample, sep_upsample, HandOn, merged_2v_upsample, merged_1v_upsample
<1>3. CASE r.mode = "pass_thru"
  <2>1. post_process_data(r, room) = (IF pic.quantize = "none" THEN upsample(r, room)
                                      ELSE upsample(r, IF room > Strip THEN Strip ELSE room))
    BY <1>3 DEF post_process_data, post_process_1pass
  <2> QED BY <1>2, <2>1
<1>4. CASE r.mode = "save_and_pass"
  BY <1>4 DEF post_process_data, post_process_prepass, Stored
<1>5. CASE r.mode = "crank_dest"
  BY <1>5 DEF post_process_data, post_process_2pass
<1> QED BY <1>1, <1>3, <1>4, <1>5

LEMMA ModeIs ==
  ASSUME PicFacts, NEW r, StateTypeOK(r), r.mode # "crank_dest"
  PROVE  \/ r.mode = "pass_thru" /\ pic.quantize \in {"none", "one"}
         \/ r.mode = "save_and_pass" /\ pic.quantize = "two"
  BY DEF StateTypeOK, Modes, PicFacts, PicTypeOK

LEMMA Passed ==
  ASSUME PicFacts, NEW r, StateTypeOK(r), NEW G \in Nat, NEW n \in Nat, r.mode = "pass_thru",
         n < pic.output_height, Shows(r, r.ctr, G), UpState(r, G, n), NEW room \in Nat \ {0}
  PROVE  PostDelivers(r, upsample(r, room), G, n)
<1> DEFINE u == upsample(r, room)
<1>1. PICK len \in 1..pic.output_height - n :
        len <= room /\ u.rows = Part(n, len) /\ Kept(r, u.r) /\ Advanced(r, u.r, G, n + len)
  BY UpsampleDelivers DEF Delivers
<1> HIDE DEF u
<1>2. Undisturbed(r, u.r)
  BY <1>1, Zenon DEF Kept, Undisturbed
<1>3. PostInv(u.r, n + len)
  BY <1>1 DEF Kept, PostInv
<1> QED BY <1>1, <1>2, <1>3 DEF PostDelivers, u

LEMMA StoredRows ==
  ASSUME PicFacts, NEW r, StateTypeOK(r), NEW G \in Nat, NEW n \in Nat, r.mode = "save_and_pass",
         n < pic.output_height, Shows(r, r.ctr, G), UpState(r, G, n), PostInv(r, n)
  PROVE  PostDelivers(r, post_process_prepass(r), G, n)
<1> DEFINE room == pic.maxv - r.pnext
           v == upsample(r, room)
           l == Len(v.rows)
           full == r.pnext + l >= pic.maxv
           q == [v.r EXCEPT !.image = @ \o v.rows, !.counted = @ \o v.rows,
                     !.pstart = IF full THEN @ + pic.maxv ELSE @,
                     !.pnext = IF full THEN 0 ELSE r.pnext + l]
           u == post_process_prepass(r)
<1>1. /\ r.pstart \in Nat /\ r.pnext \in 0..pic.maxv - 1 /\ r.pstart + r.pnext = n
      /\ r.image = Part(0, n) /\ r.counted = Part(0, n) /\ pic.maxv \in 1..4
      /\ pic.output_height \in Nat
  BY DEF PostInv, Strips, PicFacts, PicTypeOK
<1>2. room \in Nat \ {0}
  BY <1>1
<1>3. u = [r |-> q, rows |-> v.rows]
  BY Zenon DEF post_process_prepass, Stored, Strip
<1>4. PICK len \in 1..pic.output_height - n :
        len <= room /\ v.rows = Part(n, len) /\ Kept(r, v.r) /\ Advanced(r, v.r, G, n + len)
  <2> HIDE DEF room
  <2> QED BY <1>2, UpsampleDelivers DEF Delivers
<1>5. l = len /\ len \in Nat
  <2>1. len \in Nat
    BY <1>1
  <2>2. Len(Part(n, len)) = len
    BY <2>1, PartIs
  <2> HIDE DEF v
  <2> QED BY <1>4, <2>1, <2>2
<1> HIDE DEF v, l, full
<1>6. /\ IsState(q) /\ q.image = v.r.image \o v.rows /\ q.counted = v.r.counted \o v.rows
      /\ q.pstart = (IF full THEN v.r.pstart + pic.maxv ELSE v.r.pstart)
      /\ q.pnext = (IF full THEN 0 ELSE r.pnext + l)
      /\ q.mode = v.r.mode /\ q.full = v.r.full /\ q.avail = v.r.avail /\ q.imcu = v.r.imcu
      /\ q.which = v.r.which /\ q.state = v.r.state /\ q.x = v.r.x /\ q.moved = v.r.moved
      /\ q.buffer = v.r.buffer /\ q.togo = v.r.togo /\ q.next = v.r.next /\ q.ctr = v.r.ctr
      /\ q.color = v.r.color /\ q.from = v.r.from /\ q.spare = v.r.spare
  <2>1. IsState(v.r)
    BY <1>4 DEF Kept
  <2> QED BY <2>1 DEF Kept, IsState, Fields
<1> HIDE DEF q
<1>7. Undisturbed(r, q)
  BY <1>4, <1>6, Zenon DEF Kept, Undisturbed
<1>8. Advanced(r, q, G, n + len)
  <2>1. \A H, k : UpState(v.r, H, k) => UpState(q, H, k)
    BY <1>6, Zenon DEF UpState, Handing
  <2> QED BY <1>4, <1>6, <2>1, Zenon DEF Advanced
<1>9. PostInv(q, n + len)
  <2>1. q.image = Part(0, n + len) /\ q.counted = Part(0, n + len)
    <3>1. Part(0, n) \o Part(0 + n, len) = Part(0, n + len) /\ 0 + n = n
      <4>1. 0 \in Nat /\ 0 + n = n
        OBVIOUS
      <4>2. Part(0, n) \o Part(0 + n, len) = Part(0, n + len)
        BY <1>5, <4>1, PartJoin, Zenon
      <4> QED BY <4>1, <4>2
    <3>2. v.r.image = Part(0, n) /\ v.r.counted = Part(0, n)
      BY <1>1, <1>4 DEF Kept
    <3> QED BY <1>4, <1>6, <3>1, <3>2
  <2>2. Strips(q, n + len)
    <3>1. v.r.pstart = r.pstart
      BY <1>4 DEF Kept
    <3>2. full <=> r.pnext + len >= pic.maxv
      BY <1>5 DEF full
    <3>3. len <= pic.maxv - r.pnext
      BY <1>4
    <3>4. CASE full
      <4>1. q.pstart = r.pstart + pic.maxv /\ q.pnext = 0
        BY <1>6, <3>1, <3>4
      <4>2. r.pnext + len = pic.maxv
        BY <1>1, <1>5, <3>2, <3>3, <3>4
      <4>0. r.pstart \in Nat /\ r.pnext \in Nat /\ pic.maxv \in Nat \ {0} /\ r.pstart + r.pnext = n
        BY <1>1
      <4>3. q.pstart \in Nat /\ q.pnext \in 0..pic.maxv - 1 /\ q.pstart + q.pnext = n + len
        <5>1. (r.pstart + pic.maxv) + 0 = n + len
          BY <4>0, <4>2, <1>5
        <5> QED BY <4>0, <4>1, <5>1
      <4> QED BY <4>3 DEF Strips
    <3>5. CASE ~full
      <4>1. q.pstart = r.pstart /\ q.pnext = r.pnext + len /\ r.pnext + len < pic.maxv
        BY <1>1, <1>5, <1>6, <3>1, <3>2, <3>3, <3>5
      <4> QED BY <4>1, <1>1, <1>5 DEF Strips
    <3> QED BY <3>4, <3>5
  <2>3. q.mode = "save_and_pass"
    BY <1>7 DEF Undisturbed
  <2> QED BY <2>1, <2>2, <2>3 DEF PostInv
<1>10. u.r = q /\ u.rows = Part(n, len)
  BY <1>3, <1>4
<1> HIDE DEF u
<1> QED BY <1>7, <1>8, <1>9, <1>10 DEF PostDelivers, u

LEMMA RowsPostprocessed ==
  ASSUME PicFacts, NEW r, StateTypeOK(r), NEW G \in Nat, NEW n \in Nat, r.mode # "crank_dest",
         n < pic.output_height, Shows(r, r.ctr, G), UpState(r, G, n), PostInv(r, n),
         NEW room \in Nat, r.mode = "pass_thru" => room # 0
  PROVE  PostDelivers(r, post_process_data(r, room), G, n)
<1>1. CASE r.mode = "pass_thru"
  <2>1. room \in Nat \ {0} /\ pic.maxv \in 1..4
    BY <1>1 DEF PicFacts, PicTypeOK
  <2>2. CASE pic.quantize = "none"
    <3>1. post_process_data(r, room) = upsample(r, room)
      BY <1>1, <2>2 DEF post_process_data
    <3> QED BY <1>1, <2>1, <3>1, Passed
  <2>3. CASE pic.quantize = "one"
    <3> DEFINE most == IF room > Strip THEN Strip ELSE room
    <3>1. post_process_data(r, room) = upsample(r, most)
      BY <1>1, <2>3 DEF post_process_data, post_process_1pass
    <3>2. most \in Nat \ {0}
      BY <2>1 DEF Strip
    <3> HIDE DEF most
    <3> QED BY <1>1, <3>1, <3>2, Passed
  <2> QED BY <1>1, <2>2, <2>3, ModeIs
<1>2. CASE r.mode = "save_and_pass"
  <2>1. post_process_data(r, room) = post_process_prepass(r)
    BY <1>2 DEF post_process_data
  <2> QED BY <1>2, <2>1, StoredRows
<1> QED BY <1>1, <1>2, ModeIs

(* The second pass of the quantizer, with strips of at most two rows.       *)
CrankDelivers(r, u, n) ==
  \E len \in 1..pic.output_height - n :
    /\ u.rows = Part(n, len) /\ Undisturbed(r, u.r) /\ PostInv(u.r, n + len)
    /\ u.r.togo = r.togo /\ u.r.next = r.next /\ u.r.ctr = r.ctr

LEMMA RowsCranked ==
  ASSUME PicFacts, NEW r, StateTypeOK(r), NEW n \in Nat, r.mode = "crank_dest",
         n < pic.output_height, PostInv(r, n), NEW room \in Nat \ {0}
  PROVE  CrankDelivers(r, post_process_data(r, room), n)
<1> DEFINE maxv == pic.maxv
           oh == pic.output_height
           num == Least({maxv - r.pnext, room, oh - r.pstart})
           first == r.pstart + r.pnext
           full == r.pnext + num >= maxv
           q == [r EXCEPT !.pstart = IF full THEN @ + maxv ELSE @,
                          !.pnext = IF full THEN 0 ELSE @ + num]
           rows == [i \in 1..num |-> IF first + i <= Len(r.image) THEN r.image[first + i] ELSE <<Unset>>]
           u == post_process_data(r, room)
<1>1. /\ maxv \in 1..2 /\ oh \in Nat /\ r.pstart \in Nat /\ r.pnext \in 0..maxv - 1 /\ first = n
      /\ IsState(r)
  <2>1. pic.quantize = "two"
    BY DEF StateTypeOK, Modes
  <2> QED BY <2>1 DEF PicFacts, PicTypeOK, PostInv, Strips, StateTypeOK
<1>2. r.image = Part(0, oh) /\ r.counted = Part(0, oh)
  BY DEF PostInv
<1>3. u = [r |-> q, rows |-> rows]
  BY Zenon DEF post_process_data, post_process_2pass, Strip
<1>4. num \in 1..oh - n /\ r.pnext + num <= maxv
  <2>1. maxv - r.pnext \in Int /\ room \in Int /\ oh - r.pstart \in Int
    BY <1>1
  <2>2. /\ num \in {maxv - r.pnext, room, oh - r.pstart}
        /\ num <= maxv - r.pnext /\ num <= room /\ num <= oh - r.pstart
    BY <2>1, LeastIs, Zenon
  <2> HIDE DEF num
  <2> QED BY <2>1, <2>2, <1>1
<1> HIDE DEF num, full
<1>5. /\ Undisturbed(r, q) /\ q.image = r.image /\ q.counted = r.counted
      /\ q.togo = r.togo /\ q.next = r.next /\ q.ctr = r.ctr
      /\ q.pstart = (IF full THEN r.pstart + maxv ELSE r.pstart)
      /\ q.pnext = (IF full THEN 0 ELSE r.pnext + num)
  BY <1>1 DEF Undisturbed, IsState, Fields
<1> HIDE DEF q
<1>6. rows = Part(n, num)
  <2>1. Len(r.image) = oh /\ \A i \in 1..oh : r.image[i] = IdealRow(i - 1)
    <3>1. 0 \in Nat /\ \A i \in 1..oh : 0 + i - 1 = i - 1
      OBVIOUS
    <3>2. Len(Part(0, oh)) = oh /\ \A i \in 1..oh : Part(0, oh)[i] = IdealRow(0 + i - 1)
      BY <1>1, <3>1, PartIs
    <3> QED BY <1>2, <3>1, <3>2
  <2>2. ASSUME NEW i \in 1..num
        PROVE  (IF first + i <= Len(r.image) THEN r.image[first + i] ELSE <<Unset>>) = IdealRow(n + i - 1)
    <3>1. n + i \in 1..oh /\ n + i <= oh
      BY <1>1, <1>4
    <3>2. r.image[n + i] = IdealRow(n + i - 1)
      BY <2>1, <3>1
    <3> QED BY <1>1, <2>1, <3>1, <3>2
  <2> QED BY <2>2 DEF Part
<1>7. PostInv(q, n + num)
  <2>1. q.pstart \in Nat /\ q.pnext \in 0..maxv - 1 /\ q.pstart + q.pnext = n + num
    <3>1. r.pstart + r.pnext = n
      BY <1>1
    <3>2. CASE full
      <4>1. r.pnext + num = maxv
        BY <1>1, <1>4, <3>2 DEF full
      <4>2. (r.pstart + maxv) + 0 = n + num
        BY <1>1, <1>4, <3>1, <4>1
      <4> QED BY <4>2, <1>1, <1>5, <3>2
    <3>3. CASE ~full
      <4>1. r.pnext + num < maxv
        BY <1>1, <1>4, <3>3 DEF full
      <4>2. r.pstart + (r.pnext + num) = n + num /\ r.pnext + num \in 0..maxv - 1
        BY <1>1, <1>4, <3>1, <4>1
      <4> QED BY <4>2, <1>1, <1>5, <3>3
    <3> QED BY <3>2, <3>3
  <2>2. q.mode = "crank_dest"
    BY <1>5 DEF Undisturbed
  <2> QED BY <1>2, <1>5, <2>1, <2>2 DEF PostInv, Strips
<1> HIDE DEF rows
<1>8. u.r = q /\ u.rows = Part(n, num)
  BY <1>3, <1>6
<1> HIDE DEF u
<1> QED BY <1>4, <1>5, <1>7, <1>8 DEF CrankDelivers, u

(***************************************************************************)
(* The next unit of rows.                                                  *)
(***************************************************************************)
At(r, c, i) == r.x[r.which][c][i] \* where row i of the current list is

Loadable(r, c) ==
  /\ \A i \in 0..Unit(c) - 1 : At(r, c, i) \in DOMAIN r.buffer[c]
  /\ \A i, j \in 0..Unit(c) - 1 : At(r, c, i) = At(r, c, j) => i = j

UnitLoaded(r, q, c) ==
  /\ DOMAIN q.buffer[c] = DOMAIN r.buffer[c]
  /\ \A i \in 0..Unit(c) - 1 :
       r.imcu * Unit(c) + i < pic.downsampled_height[c]
         => q.buffer[c][At(r, c, i)] = r.imcu * Unit(c) + i
  /\ \A k \in DOMAIN r.buffer[c] :
       (\A i \in 0..Unit(c) - 1 : At(r, c, i) # k) => q.buffer[c][k] = r.buffer[c][k]

LEMMA UnitLoads ==
  ASSUME PicFacts, NEW r, StateTypeOK(r), \A c \in Comps : Loadable(r, c)
  PROVE  LET q == decompress_data(r)
         IN /\ IsState(q) /\ q.full = TRUE /\ q.imcu = r.imcu + 1
            /\ q.mode = r.mode /\ q.ctr = r.ctr /\ q.avail = r.avail /\ q.which = r.which
            /\ q.state = r.state /\ q.x = r.x /\ q.next = r.next /\ q.togo = r.togo
            /\ q.color = r.color /\ q.from = r.from /\ q.spare = r.spare
            /\ q.pstart = r.pstart /\ q.pnext = r.pnext /\ q.image = r.image
            /\ q.counted = r.counted /\ q.moved = r.moved
            /\ \A c \in Comps : UnitLoaded(r, q, c)
<1> DEFINE rows(c) == pic.v[c] * pic.dct[c]
           Delivered(c) == {i \in 0..rows(c) - 1 :
                              r.imcu * pic.v[c] + i \div pic.dct[c] < pic.height_in_blocks[c]}
           New(c, k) == IF \E i \in Delivered(c) : r.x[r.which][c][i] = k
                        THEN r.imcu * rows(c) + (CHOOSE i \in Delivered(c) : r.x[r.which][c][i] = k)
                        ELSE r.buffer[c][k]
           buffer == [c \in Comps |-> [k \in DOMAIN r.buffer[c] |-> New(c, k)]]
           q == decompress_data(r)
<1>1. IsState(r) /\ r.imcu \in Nat
  BY DEF StateTypeOK, PicFacts, PicTypeOK
<1>2. q = [r EXCEPT !.full = TRUE, !.imcu = @ + 1, !.buffer = buffer]
  <2>1. r.buffer = [r EXCEPT !.full = TRUE, !.imcu = @ + 1].buffer
    BY <1>1 DEF IsState, Fields
  <2> QED BY <1>1, <2>1 DEF decompress_data
<1> HIDE DEF buffer, q
<1>3. /\ IsState(q) /\ q.full = TRUE /\ q.imcu = r.imcu + 1 /\ q.buffer = buffer
      /\ q.mode = r.mode /\ q.ctr = r.ctr /\ q.avail = r.avail /\ q.which = r.which
      /\ q.state = r.state /\ q.x = r.x /\ q.next = r.next /\ q.togo = r.togo
      /\ q.color = r.color /\ q.from = r.from /\ q.spare = r.spare
      /\ q.pstart = r.pstart /\ q.pnext = r.pnext /\ q.image = r.image
      /\ q.counted = r.counted /\ q.moved = r.moved
  BY <1>1, <1>2 DEF IsState, Fields
<1>4. ASSUME NEW c \in Comps PROVE UnitLoaded(r, q, c)
  <2> DEFINE D == Delivered(c)
             L == 0..Unit(c) - 1
  <2>1. rows(c) = Unit(c) /\ Unit(c) \in Nat
    <3>1. rows(c) = Unit(c) /\ pic.rgroup[c] \in Nat /\ pic.m \in Nat
      BY DEF PicFacts, PicTypeOK, CompTypeOK
    <3> QED BY <3>1, SMT DEF Unit
  <2>2. D \in SUBSET L
    BY <2>1
  <2>3. q.buffer[c] = [k \in DOMAIN r.buffer[c] |-> New(c, k)]
    BY <1>3 DEF buffer
  <2> HIDE DEF New
  <2>4. DOMAIN q.buffer[c] = DOMAIN r.buffer[c] /\ \A k \in DOMAIN r.buffer[c] : q.buffer[c][k] = New(c, k)
    BY <2>3
  <2>5. ASSUME NEW i \in L, r.imcu * Unit(c) + i < pic.downsampled_height[c]
        PROVE  q.buffer[c][At(r, c, i)] = r.imcu * Unit(c) + i
    <3>1. i \in Nat
      BY <2>1
    <3>2. r.imcu * pic.v[c] + i \div pic.dct[c] < pic.height_in_blocks[c]
      BY <1>1, <2>5, <3>1 DEF PicFacts, RowsComplete
    <3>3. i \in D
      BY <2>1, <3>2
    <3> HIDE DEF D, L
    <3> DEFINE k == At(r, c, i)
    <3>4. k \in DOMAIN r.buffer[c] /\ \A j \in L : At(r, c, j) = k => j = i
      BY DEF Loadable, L
    <3>5. (CHOOSE j \in D : r.x[r.which][c][j] = k) = i
      <4>1. \A j \in D : r.x[r.which][c][j] = k <=> j = i
        BY <2>2, <3>3, <3>4 DEF At
      <4> QED BY <3>3, <4>1, Zenon
    <3>6. New(c, k) = r.imcu * rows(c) + i
      <4>1. \E j \in D : r.x[r.which][c][j] = k
        BY <3>3 DEF At
      <4> QED BY <3>5, <4>1, Zenon DEF New, D
    <3> QED BY <2>1, <2>4, <3>4, <3>6
  <2>6. ASSUME NEW k \in DOMAIN r.buffer[c], \A i \in L : At(r, c, i) # k
        PROVE  q.buffer[c][k] = r.buffer[c][k]
    <3>1. ~\E i \in D : r.x[r.which][c][i] = k
      BY <2>2, <2>6 DEF At
    <3> QED BY <2>4, <3>1, Zenon DEF New
  <2> QED BY <2>4, <2>5, <2>6, Zenon DEF UnitLoaded
<1> QED BY <1>3, <1>4, Zenon DEF q

(***************************************************************************)
(* Units and groups.                                                       *)
(***************************************************************************)
LEMMA UnitIs ==
  ASSUME PicFacts, NEW c \in Comps
  PROVE  /\ pic.rgroup[c] \in 1..4 /\ pic.m \in 1..16 /\ Unit(c) \in Nat \ {0}
         /\ Unit(c) = pic.rgroup[c] * pic.m /\ pic.downsampled_height[c] \in Nat \ {0}
         /\ pic.total_iMCU_rows \in Nat \ {0}
<1>1. pic.rgroup[c] \in 1..4 /\ pic.m \in 1..16 /\ pic.downsampled_height[c] \in Nat \ {0}
      /\ pic.total_iMCU_rows \in Nat \ {0}
  BY DEF PicFacts, PicTypeOK, CompTypeOK
<1> QED BY <1>1, SMT DEF Unit

LEMMA GroupsBound ==
  ASSUME PicFacts
  PROVE  /\ Groups \in Nat /\ pic.total_iMCU_rows * pic.m \in Nat
         /\ Groups <= pic.total_iMCU_rows * pic.m
         /\ (pic.total_iMCU_rows - 1) * pic.m < Groups
         /\ (pic.total_iMCU_rows - 1) * pic.m \in Nat
         /\ pic.total_iMCU_rows * pic.m = (pic.total_iMCU_rows - 1) * pic.m + pic.m
         /\ pic.output_height <= pic.maxv * Groups
<1> DEFINE g == pic.rgroup[1]
           m == pic.m
           N == Groups
           total == pic.total_iMCU_rows
           ds == pic.downsampled_height[1]
<1>1. /\ g \in 1..4 /\ m \in 1..16 /\ total \in Nat \ {0} /\ ds \in Nat
      /\ (total - 1) * (g * m) < ds /\ ds <= total * (g * m)
      /\ (N - 1) * g < ds /\ ds <= N * g
      /\ pic.maxv \in 1..4 /\ pic.output_height \in Nat
  BY DEF PicFacts, PicTypeOK, CompTypeOK, UnitsFit, Unit
<1>2. N \in Nat /\ pic.output_height <= pic.maxv * N
  BY <1>1, CeilIs DEF Groups
<1> HIDE DEF g, m, N, total, ds
<1>3. (total - 1) * m \in Nat /\ total * m \in Nat /\ total * m = (total - 1) * m + m
  BY <1>1, SMT
<1>4. (total - 1) * (g * m) = ((total - 1) * m) * g /\ total * (g * m) = (total * m) * g
  BY <1>1
<1>5. (N - 1) * g \in Int /\ N * g \in Int /\ ((total - 1) * m) * g \in Int /\ (total * m) * g \in Int
  BY <1>1, <1>2, <1>3
<1>6. (N - 1) * g < (total * m) * g /\ ((total - 1) * m) * g < N * g
  BY <1>1, <1>4, <1>5
<1>7. N - 1 < total * m /\ (total - 1) * m < N
  BY <1>1, <1>2, <1>3, <1>6, TimesLess
<1> QED BY <1>2, <1>3, <1>7 DEF m, N, total

LEMMA UpStateBound ==
  ASSUME PicFacts, NEW r, NEW G \in Nat, NEW n \in Nat, n < pic.output_height, UpState(r, G, n)
  PROVE  G < Groups /\ pic.maxv * G <= n
<1>1. pic.maxv \in 1..4 /\ pic.output_height \in Nat /\ (pic.merged => pic.maxv \in {1, 2})
  BY DEF PicFacts, PicTypeOK
<1>2. pic.maxv * G <= n
  <2>1. CASE ~pic.merged
    <3> DEFINE mG == pic.maxv * G
    <3>1. mG \in Nat
      BY <1>1, SMT
    <3>2. n = mG \/ \E k \in 1..pic.maxv - 1 : n = mG + k
      BY <2>1 DEF UpState, Handing
    <3> HIDE DEF mG
    <3>3. mG <= n
      BY <1>1, <3>1, <3>2
    <3> QED BY <3>3 DEF mG
  <2>2. CASE pic.merged /\ pic.maxv = 2
    <3>1. n = 2 * G \/ n = 2 * G + 1
      BY <2>2 DEF UpState
    <3> QED BY <2>2, <3>1
  <2>3. CASE pic.merged /\ pic.maxv = 1
    BY <2>3 DEF UpState
  <2> QED BY <1>1, <2>1, <2>2, <2>3
<1>3. Groups \in Nat /\ pic.output_height <= pic.maxv * Groups
  BY GroupsBound
<1>4. G * pic.maxv < Groups * pic.maxv
  <2>1. pic.maxv * G \in Int /\ pic.maxv * Groups \in Int /\ pic.maxv * G = G * pic.maxv
        /\ pic.maxv * Groups = Groups * pic.maxv
    BY <1>1, <1>3
  <2> QED BY <1>1, <1>2, <1>3, <2>1
<1>5. G < Groups
  BY <1>1, <1>3, <1>4, TimesLess
<1> QED BY <1>2, <1>5

LEMMA UpStateSame ==
  ASSUME PicFacts, NEW r, NEW q, NEW G, NEW n, UpState(r, G, n),
         q.next = r.next, q.togo = r.togo, q.spare = r.spare, ~pic.merged => q.next = pic.maxv
  PROVE  UpState(q, G, n)
<1>1. pic.maxv \in 1..4
  BY DEF PicFacts, PicTypeOK
<1>2. pic.maxv \notin 1..pic.maxv - 1
  BY <1>1
<1> QED BY <1>2 DEF UpState, Handing

LEMMA UpStateKept ==
  ASSUME NEW r, NEW q, NEW G, NEW n, UpState(r, G, n),
         q.next = r.next, q.togo = r.togo, q.spare = r.spare, q.ctr = r.ctr, q.from = r.from,
         q.color = r.color
  PROVE  UpState(q, G, n)
  BY Zenon DEF UpState, Handing

LEMMA RowOfGroup ==
  ASSUME NEW u \in Int, NEW m \in Int, NEW g \in Int, NEW t \in Int, NEW d \in Int
  PROVE  g * (u * m + t) + d = u * (g * m) + (g * t + d) /\ u * m + t \in Int
  BY SMT

LEMMA InUnit ==
  ASSUME NEW m \in 1..16, NEW g \in 1..4, NEW t \in 0..m - 1, NEW d \in 0..g - 1
  PROVE  g * t + d \in 0..g * m - 1
<1>1. g * t <= g * (m - 1) /\ g * (m - 1) = g * m - g /\ g * t \in Nat /\ g * m \in Nat
  BY SMT
<1> QED BY <1>1

(***************************************************************************)
(* The main controller without context.                                    *)
(***************************************************************************)
LEMMA SimpleRow ==
  ASSUME PicFacts, NEW r, r.which = 0, r.x = simple_pointers, NEW c \in Comps,
         NEW i \in 0..Unit(c) - 1
  PROVE  At(r, c, i) = i /\ Row(r, c, i) = r.buffer[c][i]
<1>1. r.x[r.which][c] = [j \in 0..Unit(c) - 1 |-> j]
  BY DEF simple_pointers, Unit
<1>2. i \in DOMAIN r.x[r.which][c] /\ r.x[r.which][c][i] = i /\ i # Unset
  <2>1. Unit(c) \in Nat
    BY UnitIs
  <2> QED BY <1>1, <2>1 DEF Unset
<1> QED BY <1>2 DEF Row, At

LEMMA SimpleShows ==
  ASSUME PicFacts, ~pic.context, NEW r, StateTypeOK(r), r.which = 0, r.x = simple_pointers,
         r.imcu > 0, r.ctr < pic.m, \A c \in Comps : SimpleCurrent(r, c)
  PROVE  Shows(r, r.ctr, (r.imcu - 1) * pic.m + r.ctr)
<1> DEFINE t == r.ctr
           u == r.imcu - 1
           G == u * pic.m + t
<1>1. t \in Nat /\ r.imcu \in Nat /\ u \in Int /\ t \in 0..pic.m - 1
  BY DEF StateTypeOK, PicFacts, PicTypeOK
<1> SUFFICES ASSUME NEW c \in Comps PROVE ShowsGroup(r, c, t, G)
  BY DEF Shows
<1> DEFINE g == pic.rgroup[c]
           ds == pic.downsampled_height[c]
<1>2. /\ g \in 1..4 /\ pic.m \in 1..16 /\ Unit(c) \in Nat \ {0} /\ Unit(c) = g * pic.m /\ ds \in Nat
  BY UnitIs
<1> SUFFICES ASSUME NEW d \in 0..g - 1, g * G + d < ds PROVE Row(r, c, g * t + d) = g * G + d
  BY DEF ShowsGroup
<1>3. g * t + d \in 0..Unit(c) - 1
  BY <1>1, <1>2, InUnit
<1>4. g * G + d = u * Unit(c) + (g * t + d)
  BY <1>1, <1>2, RowOfGroup
<1> DEFINE i == g * t + d
<1> HIDE DEF i, G
<1>5. r.buffer[c][i] = u * Unit(c) + i
  BY <1>3, <1>4 DEF SimpleCurrent, i
<1>6. Row(r, c, i) = r.buffer[c][i]
  BY <1>3, SimpleRow DEF i
<1> QED BY <1>4, <1>5, <1>6 DEF i

StepRight(r, p, n, ready) ==
  \E len \in 0..pic.output_height - n :
    /\ p.rows = Part(n, len) /\ (len = 0 => ~ready /\ ~r.full)
    /\ StateTypeOK(p.r) /\ PostInv(p.r, n + len)
    /\ n + len < pic.output_height => MainInv(p.r, n + len)

LEMMA PartEmpty == ASSUME NEW n PROVE Part(n, 0) = <<>>
  BY DEF Part

LEMMA Suspended ==
  ASSUME PicFacts, NEW r, StateTypeOK(r), NEW n \in Nat, n < pic.output_height, MainInv(r, n),
         PostInv(r, n), NEW ready, ~ready, ~r.full
  PROVE  StepRight(r, [r |-> r, rows |-> <<>>], n, ready)
<1>1. n + 0 = n /\ 0 \in 0..pic.output_height - n
  BY DEF PicFacts, PicTypeOK
<1> QED BY <1>1, PartEmpty DEF StepRight

LEMMA SimpleLoaded ==
  ASSUME PicFacts, ~pic.context, NEW r, StateTypeOK(r), NEW n \in Nat, n < pic.output_height,
         SimpleInv(r, n), PostInv(r, n)
  PROVE  LET q == Loaded(r)
         IN /\ StateTypeOK(q) /\ q.mode = r.mode /\ q.full /\ SimpleInv(q, n) /\ PostInv(q, n)
            /\ r.full => q = r
<1> DEFINE q == Loaded(r)
<1>1. CASE r.full
  BY <1>1 DEF Loaded, StateTypeOK
<1>2. CASE ~r.full
  <2>1. q = decompress_data(r)
    BY <1>2 DEF Loaded
  <2>2. r.which = 0 /\ r.x = simple_pointers /\ r.ctr = 0 /\ SimpleBuffers(r)
        /\ UpState(r, r.imcu * pic.m + 0, n)
    BY <1>2 DEF SimpleInv, Held
  <2>3. r.imcu \in Nat /\ pic.m \in 1..16 /\ pic.total_iMCU_rows \in Nat
    BY DEF StateTypeOK, PicFacts, PicTypeOK
  <2>4. \A c \in Comps : \A i \in 0..Unit(c) - 1 : At(r, c, i) = i
    BY <2>2, SimpleRow
  <2>5. \A c \in Comps : Loadable(r, c)
    BY <2>2, <2>4 DEF Loadable, SimpleBuffers
  <2>6. /\ IsState(q) /\ q.full = TRUE /\ q.imcu = r.imcu + 1
        /\ q.mode = r.mode /\ q.ctr = r.ctr /\ q.avail = r.avail /\ q.which = r.which
        /\ q.state = r.state /\ q.x = r.x /\ q.next = r.next /\ q.togo = r.togo
        /\ q.color = r.color /\ q.from = r.from /\ q.spare = r.spare
        /\ q.pstart = r.pstart /\ q.pnext = r.pnext /\ q.image = r.image
        /\ q.counted = r.counted /\ q.moved = r.moved
        /\ \A c \in Comps : UnitLoaded(r, q, c)
    <3> HIDE DEF q
    <3> QED BY <2>1, <2>5, UnitLoads, Zenon
  <2> HIDE DEF q
  <2>7. r.imcu < pic.total_iMCU_rows
    <3> DEFINE G == r.imcu * pic.m
    <3>1. G \in Nat /\ G + 0 = G
      BY <2>3, SMT
    <3>2. G < Groups
      BY <2>2, <3>1, UpStateBound
    <3>3. G < pic.total_iMCU_rows * pic.m
      BY <3>1, <3>2, GroupsBound
    <3> QED BY <3>3, <2>3, TimesLess
  <2>8. StateTypeOK(q)
    <3>1. q.imcu \in 0..pic.total_iMCU_rows
      BY <2>3, <2>6, <2>7
    <3> QED BY <2>6, <3>1, Zenon DEF StateTypeOK
  <2>9. PostInv(q, n)
    BY <2>6 DEF PostInv, Strips
  <2>10. SimpleInv(q, n)
    <3>1. SimpleBuffers(q)
      BY <2>2, <2>6 DEF SimpleBuffers, UnitLoaded
    <3>2. \A c \in Comps : SimpleCurrent(q, c)
      <4> SUFFICES ASSUME NEW c \in Comps, NEW i \in 0..Unit(c) - 1,
                          (q.imcu - 1) * Unit(c) + i < pic.downsampled_height[c]
                   PROVE  q.buffer[c][i] = (q.imcu - 1) * Unit(c) + i
        BY DEF SimpleCurrent
      <4>1. q.imcu - 1 = r.imcu
        BY <2>3, <2>6
      <4>2. q.buffer[c][At(r, c, i)] = r.imcu * Unit(c) + i
        BY <2>6, <4>1 DEF UnitLoaded
      <4> QED BY <2>4, <4>1, <4>2
    <3>3. UpState(q, r.imcu * pic.m + 0, n)
      BY <2>2, <2>6, UpStateKept
    <3>4. Held(q) = r.imcu
      BY <2>3, <2>6 DEF Held
    <3>5. q.imcu > 0 /\ q.ctr < pic.m
      BY <2>2, <2>3, <2>6
    <3> QED BY <2>2, <2>6, <3>1, <3>2, <3>3, <3>4, <3>5 DEF SimpleInv
  <2> QED BY <1>2, <2>6, <2>8, <2>9, <2>10 DEF q
<1> QED BY <1>1, <1>2

(* Whatever the upsampler did, the counters are in their ranges.            *)
LEMMA StillTyped ==
  ASSUME PicFacts, NEW r, StateTypeOK(r), r.ctr < pic.m + 2, NEW q, Undisturbed(r, q), NEW G, NEW n,
         Advanced(r, q, G, n)
  PROVE  StateTypeOK(q) /\ (q.ctr = r.ctr \/ q.ctr = r.ctr + 1)
<1>1. q.ctr \in 0..pic.m + 2 /\ (q.ctr = r.ctr \/ q.ctr = r.ctr + 1)
  <2>1. r.ctr \in 0..pic.m + 2 /\ pic.m \in 1..16
    BY DEF StateTypeOK, PicFacts, PicTypeOK
  <2>2. q.ctr = r.ctr \/ q.ctr = r.ctr + 1
    BY DEF Advanced
  <2> QED BY <2>1, <2>2
<1> QED BY <1>1, Zenon DEF StateTypeOK, Undisturbed, Advanced

LEMMA SimpleStep ==
  ASSUME PicFacts, ~pic.context, NEW r, StateTypeOK(r), r.mode # "crank_dest", NEW n \in Nat,
         n < pic.output_height, SimpleInv(r, n), PostInv(r, n), NEW room \in Nat,
         r.mode = "pass_thru" => room # 0, NEW ready \in BOOLEAN
  PROVE  StepRight(r, process_data_simple_main(r, room, ready), n, ready)
<1>1. CASE ~r.full /\ ~ready
  <2>1. process_data_simple_main(r, room, ready) = [r |-> r, rows |-> <<>>]
    BY <1>1 DEF process_data_simple_main
  <2>2. MainInv(r, n)
    BY DEF MainInv
  <2> QED BY <1>1, <2>1, <2>2, Suspended
<1>2. CASE ~(~r.full /\ ~ready)
  <2> DEFINE a == Loaded(r)
             p == post_process_data(a, room)
             G == (a.imcu - 1) * pic.m + a.ctr
  <2>1. process_data_simple_main(r, room, ready) = UnitUsed(p)
    BY <1>2 DEF process_data_simple_main
  <2>2. StateTypeOK(a) /\ a.mode = r.mode /\ a.full /\ SimpleInv(a, n) /\ PostInv(a, n)
    BY SimpleLoaded
  <2> HIDE DEF a
  <2>3. /\ a.which = 0 /\ a.x = simple_pointers /\ SimpleBuffers(a) /\ a.imcu > 0
        /\ a.ctr < pic.m /\ \A c \in Comps : SimpleCurrent(a, c)
    BY <2>2 DEF SimpleInv
  <2>4. a.imcu \in Nat \ {0} /\ a.ctr \in Nat /\ pic.m \in 1..16 /\ pic.output_height \in Nat
    BY <2>2, <2>3 DEF StateTypeOK, PicFacts, PicTypeOK
  <2>5. UpState(a, G, n)
    <3>1. Held(a) = a.imcu - 1
      BY <2>2 DEF Held
    <3> QED BY <2>2, <3>1 DEF SimpleInv
  <2>6. G \in Nat
    BY <2>4, SMT
  <2>7. Shows(a, a.ctr, G)
    BY <2>2, <2>3, SimpleShows
  <2> HIDE DEF G
  <2>8. PICK len \in 1..pic.output_height - n :
          /\ p.rows = Part(n, len) /\ Undisturbed(a, p.r) /\ Advanced(a, p.r, G, n + len)
          /\ PostInv(p.r, n + len)
    <3>1. PostDelivers(a, p, G, n)
      BY <2>2, <2>5, <2>6, <2>7, RowsPostprocessed
    <3> QED BY <3>1 DEF PostDelivers
  <2> HIDE DEF p
  <2>9. StateTypeOK(p.r) /\ (p.r.ctr = a.ctr \/ p.r.ctr = a.ctr + 1)
    <3>1. a.ctr < pic.m + 2
      BY <2>3, <2>4
    <3> QED BY <2>2, <2>8, <3>1, StillTyped
  <2>10. /\ p.r.which = 0 /\ p.r.x = simple_pointers /\ p.r.full /\ p.r.imcu = a.imcu
         /\ p.r.buffer = a.buffer /\ IsState(p.r)
    BY <2>2, <2>3, <2>8, Zenon DEF Undisturbed
  <2>11. n + len \in Nat /\ n + len <= pic.output_height /\ len # 0 /\ len \in 0..pic.output_height - n
    BY <2>4
  <2>12. CASE p.r.ctr >= pic.m
    <3> DEFINE q == [p.r EXCEPT !.full = FALSE, !.ctr = 0]
    <3>1. UnitUsed(p).r = q /\ UnitUsed(p).rows = p.rows
      <4>1. UnitUsed(p) = [p EXCEPT !.r.full = FALSE, !.r.ctr = 0]
        BY <2>12, Zenon DEF UnitUsed
      <4>2. DOMAIN p = {"r", "rows"}
        BY <2>2, PostShape DEF p
      <4> QED BY <4>1, <4>2
    <3>2. /\ IsState(q) /\ q.full = FALSE /\ q.ctr = 0 /\ q.imcu = a.imcu /\ q.mode = p.r.mode
          /\ q.avail = p.r.avail /\ q.which = 0 /\ q.state = p.r.state /\ q.x = simple_pointers
          /\ q.buffer = a.buffer /\ q.togo = p.r.togo /\ q.next = p.r.next /\ q.spare = p.r.spare
          /\ q.pstart = p.r.pstart /\ q.pnext = p.r.pnext /\ q.image = p.r.image
          /\ q.counted = p.r.counted
      BY <2>10 DEF IsState, Fields
    <3> HIDE DEF q
    <3>3. p.r.ctr = a.ctr + 1 /\ a.ctr = pic.m - 1
      BY <2>3, <2>4, <2>9, <2>12
    <3>4. G + 1 = Held(q) * pic.m + q.ctr
      <4>1. Held(q) = a.imcu
        BY <3>2 DEF Held
      <4>2. (a.imcu - 1) * pic.m + (pic.m - 1) + 1 = a.imcu * pic.m + 0
        BY <2>4, SMT
      <4> QED BY <4>1, <4>2, <3>2, <3>3 DEF G
    <3>5. ASSUME n + len < pic.output_height PROVE MainInv(q, n + len)
      <4>1. UpState(p.r, G + 1, n + len) /\ (~pic.merged => p.r.next = pic.maxv)
        BY <2>4, <2>8, <3>3, <3>5 DEF Advanced
      <4>2. UpState(q, G + 1, n + len)
        BY <3>2, <4>1, UpStateSame
      <4>3. SimpleInv(q, n + len)
        BY <2>3, <3>2, <3>4, <4>2 DEF SimpleInv, SimpleBuffers
      <4> QED BY <4>3 DEF MainInv
    <3>6. StateTypeOK(q)
      <4>1. 0 \in 0..pic.m + 2
        BY <2>4
      <4> QED BY <2>9, <2>10, <3>2, <4>1, Zenon DEF StateTypeOK
    <3>7. PostInv(q, n + len)
      BY <2>8, <3>2, Zenon DEF PostInv, Strips
    <3> QED BY <2>1, <2>8, <2>11, <3>1, <3>5, <3>6, <3>7 DEF StepRight
  <2>13. CASE ~(p.r.ctr >= pic.m)
    <3>1. UnitUsed(p) = p
      BY <2>13 DEF UnitUsed
    <3>2. Held(p.r) = a.imcu - 1
      BY <2>10 DEF Held
    <3>3. ASSUME n + len < pic.output_height PROVE MainInv(p.r, n + len)
      <4>1. UpState(p.r, Held(p.r) * pic.m + p.r.ctr, n + len)
        <5>1. CASE p.r.ctr = a.ctr
          <6>1. UpState(p.r, G, n + len)
            BY <2>4, <2>8, <3>3, <5>1 DEF Advanced
          <6> QED BY <3>2, <5>1, <6>1 DEF G
        <5>2. CASE p.r.ctr = a.ctr + 1
          <6>1. UpState(p.r, G + 1, n + len)
            BY <2>4, <2>8, <3>3, <5>2 DEF Advanced
          <6>2. G + 1 = (a.imcu - 1) * pic.m + (a.ctr + 1)
            BY <2>4 DEF G
          <6> QED BY <3>2, <5>2, <6>1, <6>2
        <5> QED BY <2>9, <5>1, <5>2
      <4>2. p.r.ctr < pic.m
        BY <2>4, <2>9, <2>13
      <4>3. \A c \in Comps : SimpleCurrent(p.r, c)
        BY <2>3, <2>10 DEF SimpleCurrent
      <4>4. SimpleInv(p.r, n + len)
        BY <2>3, <2>10, <4>1, <4>2, <4>3 DEF SimpleInv, SimpleBuffers
      <4> QED BY <4>4 DEF MainInv
    <3> QED BY <2>1, <2>8, <2>9, <2>11, <3>1, <3>3 DEF StepRight
  <2> QED BY <2>12, <2>13
<1> QED BY <1>1, <1>2

(***************************************************************************)
(* The lists of pointers.                                                  *)
(***************************************************************************)
LEMMA PlaceIs ==
  ASSUME PicFacts, pic.context, NEW c \in Comps, NEW w \in 0..1
  PROVE  LET g == pic.rgroup[c]
             P == 0..Unit(c) + 2 * g - 1
         IN /\ 2 * g <= Unit(c)
            /\ \A i \in P : Place(c, w, i) \in P /\ Place(c, w, i) # Unset
            /\ \A i, j \in P : Place(c, w, i) = Place(c, w, j) => i = j
            /\ \A i \in 0..2 * g - 1 : Place(c, 1 - w, Unit(c) + i) = Place(c, w, Unit(c) - 2 * g + i)
<1> DEFINE g == pic.rgroup[c]
           U == Unit(c)
<1>1. g \in 1..4 /\ pic.m \in 2..16 /\ U = g * pic.m
  BY UnitIs DEF PicFacts, PicTypeOK
<1>2. U \in Nat /\ 2 * g <= U
  BY <1>1, SMT
<1> HIDE DEF g, U
<1>3. \A v \in 0..1 : \A i :
        Place(c, v, i) = IF v = 1 /\ i >= U THEN i - 2 * g
                         ELSE IF v = 1 /\ i >= U - 2 * g THEN i + 2 * g ELSE i
  BY Zenon DEF Place, g, U
<1>4. \A i \in 0..U + 2 * g - 1 : Place(c, w, i) \in 0..U + 2 * g - 1 /\ Place(c, w, i) # Unset
  BY <1>1, <1>2, <1>3 DEF Unset
<1>5. \A i, j \in 0..U + 2 * g - 1 : Place(c, w, i) = Place(c, w, j) => i = j
  BY <1>1, <1>2, <1>3
<1>6. \A i \in 0..2 * g - 1 : Place(c, 1 - w, U + i) = Place(c, w, U - 2 * g + i)
  <2> TAKE i \in 0..2 * g - 1
  <2>1. U + i >= U /\ U + i >= U - 2 * g /\ ~(U - 2 * g + i >= U) /\ U - 2 * g + i >= U - 2 * g
        /\ U + i \in Int /\ U - 2 * g + i \in Int
    BY <1>1, <1>2
  <2>2. CASE w = 0
    <3>1. Place(c, 1, U + i) = (U + i) - 2 * g /\ Place(c, 0, U - 2 * g + i) = U - 2 * g + i
      BY <1>3, <2>1
    <3> QED BY <1>1, <1>2, <2>2, <3>1
  <2>3. CASE w = 1
    <3>1. Place(c, 0, U + i) = U + i /\ Place(c, 1, U - 2 * g + i) = (U - 2 * g + i) + 2 * g
      BY <1>3, <2>1
    <3> QED BY <1>1, <1>2, <2>3, <3>1
  <2> QED BY <2>2, <2>3
<1> QED BY <1>2, <1>4, <1>5, <1>6 DEF g, U

(* The products that bound the lists.                                      *)
LEMMA ListBounds ==
  ASSUME PicFacts, NEW c \in Comps
  PROVE  LET g == pic.rgroup[c]
             m == pic.m
         IN /\ g * (m + 3) = Unit(c) + 3 * g /\ g * (m + 2) = Unit(c) + 2 * g
            /\ g * (m + 1) = Unit(c) + g /\ g * m = Unit(c) /\ g * (m - 2) = Unit(c) - 2 * g
<1> DEFINE g == pic.rgroup[c]
           m == pic.m
<1>1. g \in 1..4 /\ m \in 1..16 /\ Unit(c) = g * m
  BY UnitIs
<1> HIDE DEF g, m
<1>2. g * (m + 3) = g * m + 3 * g /\ g * (m + 2) = g * m + 2 * g /\ g * (m + 1) = g * m + g
      /\ g * (m - 2) = g * m - 2 * g
  BY <1>1, SMT
<1> QED BY <1>1, <1>2 DEF g, m

LEMMA FunnyIs ==
  ASSUME PicFacts, pic.context, NEW c \in Comps, NEW w \in 0..1
  PROVE  LET g == pic.rgroup[c]
             l == make_funny_pointers[w][c]
         IN /\ DOMAIN l = -g..Unit(c) + 3 * g - 1
            /\ \A i \in 0..Unit(c) + 2 * g - 1 : l[i] = Place(c, w, i)
            /\ w = 0 => \A i \in -g..-1 : l[i] = 0
<1> DEFINE g == pic.rgroup[c]
           U == Unit(c)
           l == make_funny_pointers[w][c]
           end == g * (pic.m + 3)
           low == g * (pic.m + 2)
           swap == g * (pic.m - 2)
           unit == g * pic.m
<1>1. g \in 1..4 /\ U \in Nat /\ 2 * g <= U
  BY UnitIs, PlaceIs
<1>2. l = [i \in -g..end - 1 |->
             CASE i < 0 -> IF w = 0 THEN 0 ELSE Unset
               [] i >= low -> Unset
               [] w = 1 /\ i >= swap /\ i < unit -> i + 2 * g
               [] w = 1 /\ i >= unit -> i - 2 * g
               [] OTHER -> i]
  BY DEF make_funny_pointers
<1>3. end = U + 3 * g /\ low = U + 2 * g /\ unit = U /\ swap = U - 2 * g
  BY ListBounds
<1> HIDE DEF g, U, l, end, low, unit, swap
<1>4. \A i : Place(c, w, i) = IF w = 1 /\ i >= U THEN i - 2 * g
                              ELSE IF w = 1 /\ i >= U - 2 * g THEN i + 2 * g ELSE i
  BY Zenon DEF Place, g, U
<1>5. DOMAIN l = -g..U + 3 * g - 1
  <2>1. DOMAIN l = -g..end - 1
    BY <1>2, Zenon
  <2>2. end - 1 = U + 3 * g - 1
    BY <1>1, <1>3
  <2> QED BY <2>1, <2>2, Zenon
<1>6. ASSUME NEW i \in 0..U + 2 * g - 1 PROVE l[i] = Place(c, w, i)
  <2>1. i \in -g..end - 1 /\ ~(i < 0) /\ ~(i >= low) /\ i \in Int
    BY <1>1, <1>3
  <2>2. CASE w = 1 /\ i >= swap /\ i < unit
    <3>1. l[i] = i + 2 * g
      <4>1. ~(w = 1 /\ i >= unit)
        BY <1>1, <1>3, <2>1, <2>2
      <4> QED BY <1>2, <2>1, <2>2, <4>1
    <3>2. Place(c, w, i) = i + 2 * g
      BY <1>1, <1>3, <1>4, <2>1, <2>2
    <3> QED BY <3>1, <3>2
  <2>3. CASE w = 1 /\ i >= unit
    <3>1. ~(w = 1 /\ i >= swap /\ i < unit)
      BY <1>1, <1>3, <2>1, <2>3
    <3>2. l[i] = i - 2 * g
      BY <1>2, <2>1, <2>3, <3>1
    <3>3. Place(c, w, i) = i - 2 * g
      BY <1>3, <1>4, <2>3
    <3> QED BY <3>2, <3>3
  <2>4. CASE ~(w = 1 /\ i >= swap /\ i < unit) /\ ~(w = 1 /\ i >= unit)
    <3>1. l[i] = i
      BY <1>2, <2>1, <2>4
    <3>2. Place(c, w, i) = i
      BY <1>1, <1>3, <1>4, <2>1, <2>4
    <3> QED BY <3>1, <3>2
  <2> QED BY <2>2, <2>3, <2>4
<1>7. ASSUME w = 0, NEW i \in -g..-1 PROVE l[i] = 0
  <2>1. i \in -g..end - 1 /\ i < 0 /\ ~(i >= low) /\ w # 1
    BY <1>1, <1>3, <1>7
  <2>2. l[i] = IF w = 0 THEN 0 ELSE Unset
    BY <1>2, <2>1
  <2> QED BY <1>7, <2>2
<1> QED BY <1>5, <1>6, <1>7 DEF g, U, l

LEMMA WrappedIs ==
  ASSUME PicFacts, pic.context, NEW c \in Comps, NEW w \in 0..1
  PROVE  LET g == pic.rgroup[c]
             l == Wrapped[w][c]
         IN /\ DOMAIN l = -g..Unit(c) + 3 * g - 1
            /\ \A i \in 0..Unit(c) + 2 * g - 1 : l[i] = Place(c, w, i)
            /\ \A i \in -g..-1 : l[i] = Place(c, w, Unit(c) + 2 * g + i)
            /\ \A i \in 0..g - 1 : l[Unit(c) + 2 * g + i] = Place(c, w, i)
<1> DEFINE g == pic.rgroup[c]
           U == Unit(c)
           f == make_funny_pointers[w][c]
           l == Wrapped[w][c]
<1>1. g \in 1..4 /\ U \in Nat /\ 2 * g <= U
  BY UnitIs, PlaceIs
<1>2. DOMAIN f = -g..U + 3 * g - 1 /\ \A i \in 0..U + 2 * g - 1 : f[i] = Place(c, w, i)
  BY FunnyIs
<1>3. l = [i \in DOMAIN f |->
             CASE i < 0 -> f[U + g + i + g]
               [] i >= U + 2 * g -> f[i - (U + 2 * g)]
               [] OTHER -> f[i]]
  BY ListBounds DEF Wrapped, set_wraparound_pointers
<1> HIDE DEF g, U, l, f
<1>4. DOMAIN l = -g..U + 3 * g - 1
  BY <1>2, <1>3
<1>5. ASSUME NEW i \in 0..U + 2 * g - 1 PROVE l[i] = Place(c, w, i)
  <2>1. i \in DOMAIN f /\ ~(i < 0) /\ ~(i >= U + 2 * g)
    BY <1>1, <1>2
  <2>2. l[i] = f[i]
    BY <1>3, <2>1
  <2> QED BY <1>2, <2>2
<1>6. ASSUME NEW i \in -g..-1 PROVE l[i] = Place(c, w, U + 2 * g + i)
  <2>1. i \in DOMAIN f /\ i < 0 /\ U + g + i + g = U + 2 * g + i /\ U + 2 * g + i \in 0..U + 2 * g - 1
    BY <1>1, <1>2
  <2>2. ~(i >= U + 2 * g)
    BY <1>1
  <2>3. l[i] = f[U + g + i + g]
    BY <1>3, <2>1, <2>2
  <2> QED BY <1>2, <2>1, <2>3
<1>7. ASSUME NEW i \in 0..g - 1 PROVE l[U + 2 * g + i] = Place(c, w, i)
  <2> DEFINE j == U + 2 * g + i
  <2>1. j \in DOMAIN f /\ ~(j < 0) /\ j >= U + 2 * g /\ j - (U + 2 * g) = i /\ i \in 0..U + 2 * g - 1
    BY <1>1, <1>2
  <2> HIDE DEF j
  <2>2. l[j] = f[i]
    BY <1>3, <2>1
  <2> QED BY <1>2, <2>1, <2>2 DEF j
<1> QED BY <1>4, <1>5, <1>6, <1>7 DEF g, U, l

(* Where the current list has its rows.                                    *)
LEMMA ListIs ==
  ASSUME PicFacts, pic.context, NEW r, r.which \in 0..1, r.x \in {make_funny_pointers, Wrapped},
         NEW c \in Comps
  PROVE  LET g == pic.rgroup[c]
         IN /\ DOMAIN r.x[r.which][c] = -g..Unit(c) + 3 * g - 1
            /\ \A i \in 0..Unit(c) + 2 * g - 1 : At(r, c, i) = Place(c, r.which, i)
            /\ r.x = make_funny_pointers /\ r.which = 0 => \A i \in -g..-1 : At(r, c, i) = 0
            /\ r.x = Wrapped => /\ \A i \in -g..-1 : At(r, c, i) = Place(c, r.which, Unit(c) + 2 * g + i)
                                /\ \A i \in 0..g - 1 : At(r, c, Unit(c) + 2 * g + i) = Place(c, r.which, i)
<1>1. CASE r.x = make_funny_pointers /\ r.x # Wrapped
  BY <1>1, FunnyIs DEF At
<1>2. CASE r.x = Wrapped /\ r.x # make_funny_pointers
  BY <1>2, WrappedIs DEF At
<1>3. CASE r.x = Wrapped /\ r.x = make_funny_pointers
  BY <1>3, WrappedIs, FunnyIs DEF At
<1> QED BY <1>1, <1>2, <1>3

LEMMA RowAt ==
  ASSUME NEW r, NEW c, NEW i \in DOMAIN r.x[r.which][c], At(r, c, i) # Unset
  PROVE  Row(r, c, i) = r.buffer[c][At(r, c, i)]
  BY DEF Row, At

(* The rows of a unit that is listed, and the row above it.                 *)
LEMMA ListedRow ==
  ASSUME PicFacts, pic.context, NEW r, StateTypeOK(r), UnitRead(r), NEW c \in Comps,
         NEW i \in -1..Unit(c) - 1, Held(r) * Unit(c) + i < pic.downsampled_height[c]
  PROVE  /\ i \in DOMAIN r.x[r.which][c]
         /\ Row(r, c, i) = Clamped(c, Held(r) * Unit(c) + i)
<1> DEFINE g == pic.rgroup[c]
           U == Unit(c)
           ds == pic.downsampled_height[c]
           u == Held(r)
           w == r.which
<1>1. /\ g \in 1..4 /\ U \in Nat /\ 2 * g <= U /\ ds \in Nat \ {0}
      /\ \A k \in 0..U + 2 * g - 1 : Place(c, w, k) \in 0..U + 2 * g - 1 /\ Place(c, w, k) # Unset
  <2>1. w \in 0..1
    BY DEF StateTypeOK
  <2> QED BY <2>1, PlaceIs, UnitIs
<1>2. u = r.imcu - 1 /\ u \in Nat
  BY DEF UnitRead, Held, StateTypeOK, PicFacts, PicTypeOK
<1>3. r.x \in {make_funny_pointers, Wrapped} /\ w \in 0..1
  BY DEF UnitRead, Listed, StateTypeOK
<1>4. /\ DOMAIN r.x[w][c] = -g..U + 3 * g - 1
      /\ \A k \in 0..U + 2 * g - 1 : At(r, c, k) = Place(c, w, k)
      /\ r.x = make_funny_pointers /\ w = 0 => \A k \in -g..-1 : At(r, c, k) = 0
      /\ r.x = Wrapped => \A k \in -g..-1 : At(r, c, k) = Place(c, w, U + 2 * g + k)
  BY <1>3, ListIs
<1>5. u * U \in Nat
  BY <1>1, <1>2, SMT
<1>6. Current(r, c)
  BY DEF UnitRead
<1>7. Current(r, c) <=> \A k \in 0..U - 1 : (r.imcu - 1) * U + k < ds
                                              => r.buffer[c][Place(c, w, k)] = (r.imcu - 1) * U + k
  BY DEF Current
<1> HIDE DEF g, U, ds, u, w
<1>8. i \in DOMAIN r.x[w][c] /\ i \in -1..U - 1 /\ u * U + i < ds
  BY <1>1, <1>4 DEF U, u, ds
<1>9. CASE i >= 0
  <2>1. At(r, c, i) = Place(c, w, i) /\ At(r, c, i) # Unset
    BY <1>1, <1>4, <1>8, <1>9
  <2>2. Row(r, c, i) = r.buffer[c][Place(c, w, i)]
    BY <1>8, <2>1, RowAt DEF w
  <2>3. i \in 0..U - 1
    BY <1>8, <1>9
  <2>4. r.buffer[c][Place(c, w, i)] = u * U + i
    BY <1>2, <1>6, <1>7, <1>8, <2>3
  <2>5. Clamped(c, u * U + i) = u * U + i
    <3>1. ~(u * U + i < 0) /\ ~(u * U + i >= ds)
      BY <1>1, <1>5, <1>8, <1>9
    <3> QED BY <3>1, Zenon DEF Clamped, ds
  <2> QED BY <1>8, <2>2, <2>4, <2>5 DEF U, u, w
<1>10. CASE ~(i >= 0)
  <2>1. i = -1 /\ -1 \in -g..-1
    BY <1>1, <1>8, <1>10
  <2>2. CASE r.imcu = 1 /\ w = 0 /\ r.x = make_funny_pointers
    <3>1. At(r, c, i) = 0 /\ At(r, c, i) # Unset
      BY <1>4, <2>1, <2>2 DEF Unset
    <3>2. Row(r, c, i) = r.buffer[c][0]
      BY <1>8, <3>1, RowAt DEF w
    <3>3. u = 0 /\ u * U = 0 /\ 0 \in 0..U - 1
      BY <1>1, <1>2, <2>2
    <3>4. Place(c, w, 0) = 0
      BY <2>2 DEF Place
    <3>5. r.buffer[c][0] = 0
      <4>1. (r.imcu - 1) * U + 0 = 0 /\ 0 < ds
        BY <1>1, <1>2, <3>3
      <4>2. r.buffer[c][Place(c, w, 0)] = (r.imcu - 1) * U + 0
        BY <1>6, <1>7, <3>3, <4>1
      <4> QED BY <3>4, <4>1, <4>2
    <3>6. Clamped(c, u * U + i) = 0
      <4>1. u * U + i < 0
        BY <2>1, <3>3
      <4> QED BY <4>1, Zenon DEF Clamped
    <3> QED BY <1>8, <3>2, <3>5, <3>6 DEF U, u, w
  <2>3. CASE r.imcu > 1 /\ r.x = Wrapped /\ Previous(r, c)
    <3> DEFINE k == U + 2 * g + i
    <3>1. At(r, c, i) = Place(c, w, k) /\ k \in 0..U + 2 * g - 1 /\ k = U + (2 * g - 1)
          /\ 2 * g - 1 \in 0..2 * g - 1
      BY <1>1, <1>4, <2>1, <2>3
    <3> HIDE DEF k
    <3>2. Row(r, c, i) = r.buffer[c][Place(c, w, U + (2 * g - 1))]
      BY <1>1, <1>8, <3>1, RowAt DEF w
    <3>3. r.buffer[c][Place(c, w, U + (2 * g - 1))] = u * U - 2 * g + (2 * g - 1)
      <4>1. \A j \in 0..2 * g - 1 : r.buffer[c][Place(c, w, U + j)] = u * U - 2 * g + j
        BY <2>3, Zenon DEF Previous, g, U, w, u
      <4> QED BY <3>1, <4>1
    <3>4. u * U - 2 * g + (2 * g - 1) = u * U + i
      BY <1>1, <1>5, <2>1
    <3>5. Clamped(c, u * U + i) = u * U + i
      <4>1. u \in Nat \ {0} /\ U \in Nat \ {0}
        BY <1>1, <1>2, <2>3
      <4>2. u * U \in Nat \ {0}
        BY <4>1, SMT
      <4>3. ~(u * U + i < 0) /\ ~(u * U + i >= ds)
        BY <1>1, <1>8, <2>1, <4>2
      <4> QED BY <4>3, Zenon DEF Clamped, ds
    <3> QED BY <1>8, <3>2, <3>3, <3>4, <3>5 DEF U, u, w
  <2>4. Listed(r)
    BY DEF UnitRead
  <2> QED BY <2>2, <2>3, <2>4 DEF Listed, w
<1> QED BY <1>9, <1>10

(* A group is shown if its rows and its neighbours are at their places.     *)
LEMMA GroupShown ==
  ASSUME PicFacts, NEW r, NEW c \in Comps, NEW u \in Nat, NEW t \in Nat, NEW top \in Nat,
         pic.rgroup[c] * t + pic.rgroup[c] <= top,
         \A i \in -1..top : u * Unit(c) + i <= pic.downsampled_height[c]
                              => Row(r, c, i) = Clamped(c, u * Unit(c) + i)
  PROVE  ShowsGroup(r, c, t, u * pic.m + t)
<1> DEFINE g == pic.rgroup[c]
           m == pic.m
           G == u * m + t
           U == Unit(c)
           ds == pic.downsampled_height[c]
<1>1. g \in 1..4 /\ m \in 1..16 /\ U = g * m /\ ds \in Nat
  BY UnitIs
<1>2. g * t \in Nat /\ u * U \in Nat /\ g * t + g <= top
  BY <1>1, SMT
<1>3. \A i \in -1..top : u * U + i <= ds => Row(r, c, i) = Clamped(c, u * U + i)
  OBVIOUS
<1> HIDE DEF G
<1>4. ASSUME NEW d \in -1..g, g * G + d <= ds
      PROVE  Row(r, c, g * t + d) = Clamped(c, g * G + d)
  <2> DEFINE i == g * t + d
  <2>1. g * G + d = u * U + i
    BY <1>1, RowOfGroup DEF G
  <2> HIDE DEF g, m, U, ds
  <2>2. i \in -1..top
    BY <1>1, <1>2
  <2> HIDE DEF i
  <2>3. Row(r, c, i) = Clamped(c, u * U + i)
    BY <1>3, <1>4, <2>1, <2>2
  <2> QED BY <2>1, <2>3 DEF i
<1>5. ASSUME NEW d \in 0..g - 1, g * G + d < ds PROVE Row(r, c, g * t + d) = g * G + d
  <2>1. g * G \in Nat
    BY <1>1, SMT DEF G
  <2> HIDE DEF g, m, U, ds
  <2>2. d \in -1..g /\ g * G + d <= ds /\ ~(g * G + d < 0) /\ ~(g * G + d >= ds)
    BY <1>1, <1>5, <2>1
  <2>3. Row(r, c, g * t + d) = Clamped(c, g * G + d)
    BY <1>4, <2>2
  <2>4. Clamped(c, g * G + d) = g * G + d
    BY <2>2, Zenon DEF Clamped, ds
  <2> QED BY <2>3, <2>4
<1> HIDE DEF g, ds, m, U
<1>6. ShowsGroup(r, c, t, G)
  BY <1>4, <1>5, Zenon DEF ShowsGroup, g, ds
<1> QED BY <1>6 DEF G, m

(* How many rows are in the last unit, and how many groups.                 *)
LEMMA RowsLeftIs ==
  ASSUME PicFacts, NEW c \in Comps
  PROVE  /\ RowsLeft(c) \in 1..Unit(c)
         /\ pic.downsampled_height[c] = (pic.total_iMCU_rows - 1) * Unit(c) + RowsLeft(c)
<1> DEFINE U == Unit(c)
           ds == pic.downsampled_height[c]
           q == pic.total_iMCU_rows - 1
           l == ds - q * U
<1>1. U \in Nat \ {0} /\ ds \in Nat /\ q \in Nat
  BY UnitIs
<1>2. q * U < ds /\ ds <= (q + 1) * U
  <2>1. q + 1 = pic.total_iMCU_rows
    BY UnitIs
  <2> QED BY <2>1 DEF PicFacts, UnitsFit
<1>3. pic.v[c] * pic.dct[c] = U
  BY DEF PicFacts, CompTypeOK
<1>4. RowsLeft(c) = IF ds % U = 0 THEN U ELSE ds % U
  BY <1>3, Zenon DEF RowsLeft
<1> HIDE DEF U, ds, q
<1>5. q * U \in Nat /\ (q + 1) * U = q * U + U /\ U * q = q * U
  BY <1>1, SMT
<1>6. l \in 1..U /\ ds = q * U + l
  BY <1>1, <1>2, <1>5
<1>7. RowsLeft(c) = l
  <2>1. CASE l = U
    <3>1. ds = (q + 1) * U
      BY <1>5, <1>6, <2>1
    <3>2. ds % U = 0
      BY <1>1, <3>1, ProductMultiple
    <3> QED BY <1>4, <2>1, <3>2
  <2>2. CASE l # U
    <3>1. ds < (q + 1) * U
      BY <1>1, <1>5, <1>6, <2>2
    <3>2. q = ds \div U
      BY <1>1, <1>2, <1>5, <3>1, QuotientIs
    <3>3. ds = U * q + (ds % U) /\ ds % U \in 0..U - 1
      <4>1. ds \in Int /\ U \in Nat \ {0}
        BY <1>1
      <4>2. ds = U * (ds \div U) + (ds % U) /\ ds % U \in 0..(U - 1)
        BY <4>1, Division, Zenon
      <4> QED BY <3>2, <4>2
    <3>4. ds % U = l
      BY <1>1, <1>5, <1>6, <3>3
    <3> QED BY <1>4, <1>6, <3>4
  <2> QED BY <2>1, <2>2
<1> QED BY <1>6, <1>7 DEF U, ds, q

LEMMA LastGroupsIs ==
  ASSUME PicFacts
  PROVE  /\ LastGroups \in 1..pic.m /\ (RowsLeft(1) - 1) \div pic.rgroup[1] + 1 = LastGroups
         /\ (pic.total_iMCU_rows - 1) * pic.m + LastGroups = Groups
<1> DEFINE g == pic.rgroup[1]
           m == pic.m
           q == pic.total_iMCU_rows - 1
           qm == q * m
           ds == pic.downsampled_height[1]
           l == RowsLeft(1)
           N == Groups
           L == N - qm
<1>1. 1 \in Comps
  BY DEF PicFacts, PicTypeOK
<1>2. g \in 1..4 /\ m \in 1..16 /\ q \in Nat /\ ds \in Nat /\ l \in 1..Unit(1) /\ Unit(1) = g * m
      /\ ds = q * (g * m) + l
  BY <1>1, UnitIs, RowsLeftIs
<1>3. (N - 1) * g < ds /\ ds <= N * g
  BY <1>1 DEF PicFacts, UnitsFit
<1>4. N \in Nat /\ qm < N /\ qm \in Nat /\ N <= qm + m
  <2>1. pic.total_iMCU_rows * m = qm + m
    BY GroupsBound
  <2> QED BY <2>1, GroupsBound
<1>5. LastGroups = L
  BY Zenon DEF LastGroups
<1> HIDE DEF g, m, q, ds, l, N
<1>6. q * (g * m) = qm * g
  BY <1>2, SMT
<1> HIDE DEF qm
<1>7. (N - 1) * g = (L - 1) * g + qm * g /\ N * g = L * g + qm * g /\ qm * g \in Int
      /\ (L - 1) * g \in Int /\ L * g \in Int /\ L \in Int /\ (L - 1 + 1) * g = L * g
  BY <1>2, <1>4, SMT
<1> HIDE DEF L
<1>8. (L - 1) * g <= l - 1 /\ l - 1 < (L - 1 + 1) * g
  BY <1>2, <1>3, <1>6, <1>7
<1>9. L - 1 = (l - 1) \div g
  <2>1. l - 1 \in Int /\ L - 1 \in Int /\ g \in Nat \ {0}
    BY <1>2, <1>7
  <2> QED BY <1>8, <2>1, QuotientIs
<1>10. L \in 1..m /\ (l - 1) \div g + 1 = L /\ qm + L = N
  BY <1>2, <1>4, <1>9 DEF L
<1> QED BY <1>5, <1>10 DEF g, m, q, qm, l, N

(* In the units before the last, no row is missing.                         *)
LEMMA Above ==
  ASSUME PicFacts, NEW c \in Comps, NEW u \in Nat, u < pic.total_iMCU_rows
  PROVE  u * Unit(c) \in Nat /\ u * Unit(c) < pic.downsampled_height[c]
<1> DEFINE U == Unit(c)
           q == pic.total_iMCU_rows - 1
<1>1. U \in Nat \ {0} /\ q \in Nat /\ u <= q /\ pic.downsampled_height[c] \in Nat
  BY UnitIs
<1>2. q * U < pic.downsampled_height[c]
  BY DEF PicFacts, UnitsFit
<1> HIDE DEF U, q
<1>3. u * U \in Nat /\ u * U <= q * U /\ q * U \in Nat
  BY <1>1, SMT
<1> QED BY <1>1, <1>2, <1>3 DEF U

LEMMA ShowsMiddle ==
  ASSUME PicFacts, pic.context, NEW r, StateTypeOK(r), UnitRead(r), r.imcu < pic.total_iMCU_rows,
         r.ctr < pic.m - 1
  PROVE  Shows(r, r.ctr, Held(r) * pic.m + r.ctr)
<1> SUFFICES ASSUME NEW c \in Comps
             PROVE  ShowsGroup(r, c, r.ctr, Held(r) * pic.m + r.ctr)
  BY DEF Shows
<1> DEFINE g == pic.rgroup[c]
           U == Unit(c)
           ds == pic.downsampled_height[c]
           u == Held(r)
           top == U - 1
<1>1. g \in 1..4 /\ pic.m \in 2..16 /\ U \in Nat \ {0} /\ U = g * pic.m /\ ds \in Nat
  BY UnitIs DEF PicFacts, PicTypeOK
<1>2. u = r.imcu - 1 /\ u \in Nat /\ r.imcu \in Nat /\ r.ctr \in Nat
  BY DEF UnitRead, Held, StateTypeOK, PicFacts, PicTypeOK
<1>3. r.imcu * U < ds
  BY <1>2, Above
<1>4. g * r.ctr + g <= top /\ top \in Nat
  <2>1. r.ctr \in 0..pic.m - 2
    BY <1>1, <1>2
  <2>2. g * r.ctr <= g * (pic.m - 2) /\ g * (pic.m - 2) = g * pic.m - 2 * g /\ g * r.ctr \in Nat
    <3> HIDE DEF g
    <3>1. g * (pic.m - 2) = g * pic.m - 2 * g /\ g * r.ctr \in Nat
      BY <1>1, <1>2, SMT
    <3>2. g * r.ctr <= g * (pic.m - 2)
      <4>1. r.ctr \in Int /\ pic.m - 2 \in Int /\ r.ctr <= pic.m - 2 /\ g \in Nat \ {0}
        BY <1>1, <2>1
      <4>2. r.ctr * g <= (pic.m - 2) * g
        BY <4>1, TimesLess
      <4>3. r.ctr * g = g * r.ctr /\ (pic.m - 2) * g = g * (pic.m - 2)
        BY <4>1
      <4> QED BY <4>2, <4>3
    <3> QED BY <3>1, <3>2
  <2> DEFINE a == g * r.ctr
             b == g * (pic.m - 2)
             d == g * pic.m
  <2>3. a <= b /\ b = d - 2 * g /\ a \in Nat /\ U = d
    BY <1>1, <2>2
  <2> HIDE DEF a, b, d, g, U
  <2>4. a + g <= U - 1 /\ U - 1 \in Nat
    BY <1>1, <2>3
  <2> QED BY <2>4 DEF a
<1>5. ASSUME NEW i \in -1..top PROVE Row(r, c, i) = Clamped(c, u * U + i)
  <2>1. r.imcu * U = u * U + U /\ u * U \in Nat
    BY <1>1, <1>2, SMT
  <2>2. u * U + i < ds
    <3> HIDE DEF U, ds, u
    <3> QED BY <1>1, <1>3, <2>1
  <2> QED BY <2>2, ListedRow
<1> HIDE DEF top
<1> QED BY <1>1, <1>2, <1>4, <1>5, GroupShown

(* The group that waited for its context.                                   *)
LEMMA ShowsPostponed ==
  ASSUME PicFacts, pic.context, NEW r, StateTypeOK(r), r.full, r.x = Wrapped, r.ctr = pic.m + 1,
         Held(r) \in 1..pic.total_iMCU_rows - 1,
         \A c \in Comps : Previous(r, c) /\ Current(r, c)
  PROVE  Shows(r, r.ctr, Held(r) * pic.m - 1)
<1> SUFFICES ASSUME NEW c \in Comps
             PROVE  ShowsGroup(r, c, r.ctr, Held(r) * pic.m - 1)
  BY DEF Shows
<1> DEFINE g == pic.rgroup[c]
           m == pic.m
           U == Unit(c)
           ds == pic.downsampled_height[c]
           u == Held(r)
           w == r.which
           G == u * m - 1
           t == m + 1
           uU == u * U
           gt == g * t
           gG == g * G
<1>1. /\ g \in 1..4 /\ m \in 2..16 /\ U \in Nat \ {0} /\ 2 * g <= U /\ ds \in Nat /\ w \in 0..1
      /\ \A k \in 0..U + 2 * g - 1 : Place(c, w, k) \in 0..U + 2 * g - 1 /\ Place(c, w, k) # Unset
  <2>1. w \in 0..1
    BY DEF StateTypeOK
  <2> QED BY <2>1, PlaceIs, UnitIs DEF PicFacts, PicTypeOK
<1>2. u = r.imcu - 1 /\ u \in Nat \ {0} /\ u < pic.total_iMCU_rows
  BY DEF Held, PicFacts, PicTypeOK
<1>3. /\ DOMAIN r.x[w][c] = -g..U + 3 * g - 1
      /\ \A k \in 0..U + 2 * g - 1 : At(r, c, k) = Place(c, w, k)
      /\ \A k \in 0..g - 1 : At(r, c, U + 2 * g + k) = Place(c, w, k)
  <2>1. r.x \in {make_funny_pointers, Wrapped}
    OBVIOUS
  <2> QED BY <1>1, <2>1, ListIs
<1>4. uU < ds /\ uU \in Nat /\ U <= uU
  <2>1. uU < ds /\ uU \in Nat
    BY <1>2, Above
  <2>2. U <= uU
    <3> HIDE DEF u, U
    <3>1. 1 \in Int /\ u \in Int /\ 1 <= u /\ U \in Nat \ {0} /\ 1 * U = U
      <4>1. u \in Nat \ {0} /\ U \in Nat \ {0}
        BY <1>1, <1>2, Zenon
      <4> QED BY <4>1
    <3>2. 1 * U <= u * U
      BY <3>1, TimesLess, Zenon
    <3> QED BY <3>1, <3>2
  <2> QED BY <2>1, <2>2
<1>5. \A k \in 0..2 * g - 1 : r.buffer[c][Place(c, w, U + k)] = uU - 2 * g + k
  BY Zenon DEF Previous
<1>6. r.buffer[c][Place(c, w, 0)] = uU
  <2>1. 0 \in 0..U - 1 /\ (r.imcu - 1) * U + 0 = uU
    BY <1>1, <1>2, <1>4
  <2>2. (r.imcu - 1) * U + 0 < ds
    BY <1>4, <2>1
  <2>3. r.buffer[c][Place(c, w, 0)] = (r.imcu - 1) * U + 0
    BY <2>1, <2>2 DEF Current
  <2> QED BY <2>1, <2>3
<1>7. gt = U + g /\ gG = uU - g
  <2>1. U = g * m
    BY UnitIs
  <2>2. u * (g * m) = g * (u * m) /\ g * (u * m - 1) = g * (u * m) - g /\ g * (m + 1) = g * m + g
    <3> HIDE DEF g, m, u
    <3> QED BY <1>1, <1>2, SMT
  <2> QED BY <2>1, <2>2
<1>8. r.ctr = t
  OBVIOUS
<1> HIDE DEF g, m, U, ds, u, w, G, t, uU, gt, gG
<1>9. ASSUME NEW d \in -1..g
      PROVE  Row(r, c, gt + d) = gG + d /\ Clamped(c, gG + d) = gG + d
  <2> DEFINE i == U + g + d
  <2>1. gt + d = i /\ i \in 0..U + 3 * g - 1 /\ i \in DOMAIN r.x[w][c] /\ i \in -g..U + 3 * g - 1
    BY <1>1, <1>3, <1>7
  <2>2. gG + d = uU - 2 * g + (g + d)
    BY <1>1, <1>4, <1>7
  <2>3. Clamped(c, gG + d) = gG + d
    <3>1. ~(gG + d < 0) /\ ~(gG + d >= ds)
      BY <1>1, <1>4, <2>2
    <3> QED BY <3>1, Zenon DEF Clamped, ds
  <2>4. CASE d < g
    <3>1. g + d \in 0..2 * g - 1 /\ i = U + (g + d) /\ i \in 0..U + 2 * g - 1
      BY <1>1, <2>4
    <3>2. At(r, c, i) = Place(c, w, U + (g + d)) /\ At(r, c, i) # Unset
      BY <1>1, <1>3, <3>1
    <3>3. Row(r, c, i) = r.buffer[c][Place(c, w, U + (g + d))]
      BY <2>1, <3>2, RowAt DEF w
    <3> QED BY <1>5, <2>1, <2>2, <2>3, <3>1, <3>3
  <2>5. CASE ~(d < g)
    <3>1. i = U + 2 * g + 0 /\ 0 \in 0..g - 1 /\ 0 \in 0..U + 2 * g - 1 /\ d = g
      BY <1>1, <2>5
    <3>2. At(r, c, i) = Place(c, w, 0) /\ At(r, c, i) # Unset
      BY <1>1, <1>3, <3>1
    <3>3. Row(r, c, i) = r.buffer[c][Place(c, w, 0)]
      BY <2>1, <3>2, RowAt DEF w
    <3>4. gG + d = uU
      BY <1>1, <1>4, <2>2, <3>1
    <3> QED BY <1>6, <2>1, <2>3, <3>3, <3>4
  <2> QED BY <2>4, <2>5
<1>10. \A d \in 0..g - 1 : d \in -1..g
  BY <1>1
<1>11. ShowsGroup(r, c, t, G)
  BY <1>9, <1>10, Zenon DEF ShowsGroup, g, gt, gG
<1> QED BY <1>8, <1>11 DEF G, u, m

(* The last row is its own context.                                         *)
LEMMA BottomIs ==
  ASSUME PicFacts, pic.context, NEW r, StateTypeOK(r), UnitRead(r), r.imcu = pic.total_iMCU_rows
  PROVE  LET q == set_bottom_pointers(r)
         IN /\ IsState(q) /\ q.avail = LastGroups
            /\ q.mode = r.mode /\ q.full = r.full /\ q.imcu = r.imcu /\ q.ctr = r.ctr
            /\ q.which = r.which /\ q.state = r.state /\ q.next = r.next /\ q.togo = r.togo
            /\ q.spare = r.spare /\ q.pstart = r.pstart /\ q.pnext = r.pnext
            /\ q.image = r.image /\ q.counted = r.counted /\ q.moved = r.moved
            /\ q.buffer = r.buffer
            /\ \A t \in 0..LastGroups - 1 : Shows(q, t, Held(r) * pic.m + t)
<1> DEFINE q == set_bottom_pointers(r)
           w == r.which
           list == [c \in Comps |->
                      [i \in DOMAIN r.x[w][c] |->
                         IF i >= RowsLeft(c) /\ i < RowsLeft(c) + 2 * pic.rgroup[c]
                         THEN r.x[w][c][RowsLeft(c) - 1] ELSE r.x[w][c][i]]]
           x == [r.x EXCEPT ![w] = list]
<1>1. IsState(r) /\ w \in 0..1 /\ r.x \in {make_funny_pointers, Wrapped}
  BY DEF StateTypeOK, UnitRead, Listed
<1>2. x[w] = list
  <2>1. w \in DOMAIN r.x
    <3>1. DOMAIN make_funny_pointers = 0..1
      BY DEF make_funny_pointers
    <3>2. DOMAIN Wrapped = 0..1
      BY DEF Wrapped, set_wraparound_pointers
    <3> QED BY <1>1, <3>1, <3>2
  <2> HIDE DEF list
  <2> QED BY <2>1
<1>3. q = [r EXCEPT !.avail = LastGroups, !.x = x]
  <2>1. (RowsLeft(1) - 1) \div pic.rgroup[1] + 1 = LastGroups
    BY LastGroupsIs
  <2>2. q = [r EXCEPT !.avail = (RowsLeft(1) - 1) \div pic.rgroup[1] + 1, !.x = x]
    <3>1. [r EXCEPT !.avail = (RowsLeft(1) - 1) \div pic.rgroup[1] + 1].x = r.x
      BY <1>1 DEF IsState, Fields
    <3> QED BY <3>1 DEF set_bottom_pointers
  <2> HIDE DEF q
  <2> QED BY <2>1, <2>2
<1> HIDE DEF q, x
<1>4. /\ IsState(q) /\ q.avail = LastGroups /\ q.x = x
      /\ q.mode = r.mode /\ q.full = r.full /\ q.imcu = r.imcu /\ q.ctr = r.ctr
      /\ q.which = r.which /\ q.state = r.state /\ q.next = r.next /\ q.togo = r.togo
      /\ q.spare = r.spare /\ q.pstart = r.pstart /\ q.pnext = r.pnext
      /\ q.image = r.image /\ q.counted = r.counted /\ q.moved = r.moved
      /\ q.buffer = r.buffer
  BY <1>1, <1>3 DEF IsState, Fields
<1> SUFFICES ASSUME NEW t \in 0..LastGroups - 1, NEW c \in Comps
             PROVE  ShowsGroup(q, c, t, Held(r) * pic.m + t)
  BY <1>4, Zenon DEF Shows, q
<1> DEFINE g == pic.rgroup[c]
           U == Unit(c)
           ds == pic.downsampled_height[c]
           u == Held(r)
           R == RowsLeft(c)
           uU == u * U
<1>5. /\ g \in 1..4 /\ pic.m \in 2..16 /\ U = g * pic.m /\ U \in Nat /\ ds \in Nat /\ R \in 1..U
      /\ 2 * g <= U
  <2>1. 2 * g <= U
    BY <1>1, PlaceIs
  <2> QED BY <2>1, UnitIs, RowsLeftIs DEF PicFacts, PicTypeOK
<1>6. u = pic.total_iMCU_rows - 1 /\ u \in Nat
  BY DEF Held, UnitRead, PicFacts, PicTypeOK
<1>7. ds = uU + R /\ uU \in Nat
  <2>1. ds = uU + R
    BY <1>6, RowsLeftIs
  <2> HIDE DEF U, u
  <2> QED BY <1>5, <1>6, <2>1, SMT
<1>8. DOMAIN r.x[w][c] = -g..U + 3 * g - 1
  BY <1>1, ListIs
<1>9. q.x[q.which][c] = [i \in DOMAIN r.x[w][c] |->
                           IF i >= R /\ i < R + 2 * g THEN r.x[w][c][R - 1] ELSE r.x[w][c][i]]
  BY <1>2, <1>4 DEF list
<1>10. \A i \in -1..U : uU + i <= ds => Row(q, c, i) = Clamped(c, uU + i)
  <2> SUFFICES ASSUME NEW i \in -1..U, uU + i <= ds
               PROVE  Row(q, c, i) = Clamped(c, uU + i)
    OBVIOUS
  <2> HIDE DEF U, u, ds, g, R, uU, list
  <2>0. g \in 1..4 /\ U \in Nat /\ ds \in Nat /\ R \in 1..U /\ 2 * g <= U /\ uU \in Nat
        /\ ds = uU + R
    BY <1>5, <1>7, Zenon
  <2>1. i <= R /\ i \in DOMAIN r.x[w][c] /\ i \in Int
    BY <1>8, <2>0
  <2>2. DOMAIN q.x[q.which][c] = DOMAIN r.x[w][c]
    BY <1>9, Zenon
  <2>3. \A k \in DOMAIN r.x[w][c] :
          Row(r, c, k) = IF At(r, c, k) = Unset THEN Unset ELSE r.buffer[c][At(r, c, k)]
    BY Zenon DEF Row, At, w
  <2>4. Row(q, c, i) = IF q.x[q.which][c][i] = Unset THEN Unset ELSE r.buffer[c][q.x[q.which][c][i]]
    BY <1>4, <2>1, <2>2, Zenon DEF Row
  <2>5. CASE i < R
    <3>1. ~(i >= R) /\ i \in -1..U - 1 /\ uU + i < ds
      BY <2>0, <2>1, <2>5
    <3>2. q.x[q.which][c][i] = At(r, c, i)
      BY <1>9, <2>1, <3>1, Zenon DEF At, w
    <3>3. Row(q, c, i) = Row(r, c, i)
      BY <2>1, <2>3, <2>4, <3>2
    <3>4. Row(r, c, i) = Clamped(c, uU + i)
      BY <3>1, ListedRow DEF U, u, ds, uU
    <3> QED BY <3>3, <3>4
  <2>6. CASE ~(i < R)
    <3>1. i >= R /\ i < R + 2 * g /\ i = R /\ R - 1 \in -1..U - 1 /\ uU + (R - 1) < ds
          /\ R - 1 \in DOMAIN r.x[w][c] /\ uU + i = ds /\ uU + (R - 1) = ds - 1
      BY <1>8, <2>0, <2>1, <2>6
    <3>2. q.x[q.which][c][i] = At(r, c, R - 1)
      BY <1>9, <2>1, <3>1, Zenon DEF At, w
    <3>3. Row(q, c, i) = Row(r, c, R - 1)
      BY <2>3, <2>4, <3>1, <3>2
    <3>4. Row(r, c, R - 1) = Clamped(c, uU + (R - 1))
      BY <3>1, ListedRow DEF U, u, ds, uU
    <3>5. Clamped(c, ds) = Clamped(c, ds - 1)
      <4>1. ds \in Nat \ {0}
        BY <1>5, <1>7
      <4>2. ~(ds < 0) /\ ds >= ds /\ ~(ds - 1 < 0) /\ ~(ds - 1 >= ds)
        BY <4>1
      <4> QED BY <4>2, Zenon DEF Clamped, ds
    <3> QED BY <3>1, <3>3, <3>4, <3>5
  <2> QED BY <2>5, <2>6
<1>11. t \in Nat /\ g * t + g <= U
  <2>1. t \in Nat /\ t + 1 <= pic.m
    <3>1. LastGroups \in 1..pic.m
      BY LastGroupsIs
    <3> QED BY <3>1, <1>5
  <2> HIDE DEF g, U
  <2>2. t + 1 \in Int /\ pic.m \in Int /\ g \in Nat \ {0}
    BY <1>5, <2>1
  <2>3. (t + 1) * g <= pic.m * g
    BY <2>1, <2>2, TimesLess, Zenon
  <2>4. (t + 1) * g = g * t + g /\ pic.m * g = U
    BY <1>5, <2>1
  <2> QED BY <2>1, <2>3, <2>4
<1> HIDE DEF u
<1>12. ShowsGroup(q, c, t, u * pic.m + t)
  BY <1>5, <1>6, <1>10, <1>11, GroupShown
<1> QED BY <1>12 DEF u

(***************************************************************************)
(* The main controller with context.                                       *)
(***************************************************************************)
ContextRight(p, n) ==
  \E len \in 1..pic.output_height - n :
    /\ p.rows = Part(n, len) /\ StateTypeOK(p.r) /\ PostInv(p.r, n + len)
    /\ n + len < pic.output_height => ContextInv(p.r, n + len)

LEMMA ContextIs ==
  ASSUME PicFacts, pic.context
  PROVE  /\ ~pic.merged /\ pic.m \in 2..16 /\ pic.maxv \in 1..4 /\ pic.total_iMCU_rows \in Nat \ {0}
         /\ pic.output_height \in Nat \ {0}
  BY DEF PicFacts, PicTypeOK

LEMMA PreparedIs ==
  ASSUME PicFacts, pic.context, NEW r, StateTypeOK(r), Buffers(r), NEW n \in Nat, Ready(r, n),
         PostInv(r, n)
  PROVE  LET q == Prepared(r)
         IN /\ StateTypeOK(q) /\ q.mode = r.mode /\ Buffers(q) /\ PostInv(q, n)
            /\ InMiddle(q, n) \/ InLast(q, n)
<1> DEFINE a == [r EXCEPT !.ctr = 0, !.avail = pic.m - 1, !.state = "process"]
           q == Prepared(r)
           u == Held(r)
<1>1. q = IF r.imcu = pic.total_iMCU_rows THEN set_bottom_pointers(a) ELSE a
  BY Zenon DEF Prepared
<1>2. /\ IsState(a) /\ a.ctr = 0 /\ a.avail = pic.m - 1 /\ a.state = "process"
      /\ a.mode = r.mode /\ a.full = r.full /\ a.imcu = r.imcu /\ a.which = r.which
      /\ a.x = r.x /\ a.next = r.next /\ a.togo = r.togo /\ a.spare = r.spare
      /\ a.pstart = r.pstart /\ a.pnext = r.pnext /\ a.image = r.image
      /\ a.counted = r.counted /\ a.moved = r.moved /\ a.buffer = r.buffer
  BY DEF StateTypeOK, IsState, Fields
<1> HIDE DEF a, q
<1>3. ~pic.merged /\ pic.m \in 2..16 /\ pic.total_iMCU_rows \in Nat \ {0} /\ r.imcu \in Nat
      /\ r.imcu <= pic.total_iMCU_rows
  BY ContextIs DEF StateTypeOK
<1>4. UnitRead(r) /\ r.next = pic.maxv /\ UpState(r, u * pic.m, n) /\ r.full /\ r.imcu > 0
  BY DEF Ready, UnitRead
<1>5. u * pic.m + 0 = u * pic.m
  <2>1. u \in Int
    BY <1>3, <1>4 DEF Held
  <2> QED BY <2>1, <1>3
<1>6. StateTypeOK(a)
  <2>1. 0 \in 0..pic.m + 2
    BY <1>3
  <2> QED BY <1>2, <2>1, Zenon DEF StateTypeOK
<1>7. Held(a) = u
  BY <1>2, Zenon DEF Held
<1>8. UnitRead(a)
  <2>1. \A c \in Comps : (Previous(r, c) => Previous(a, c)) /\ (Current(r, c) => Current(a, c))
    BY <1>2, <1>7, Zenon DEF Previous, Current
  <2> QED BY <1>2, <1>4, <2>1, Zenon DEF UnitRead, Listed
<1>9. Buffers(a)
  BY <1>2, Zenon DEF Buffers
<1>10. PostInv(a, n)
  BY <1>2, Zenon DEF PostInv, Strips
<1>11. CASE r.imcu = pic.total_iMCU_rows
  <2>1. q = set_bottom_pointers(a)
    BY <1>1, <1>11
  <2>2. /\ IsState(q) /\ q.avail = LastGroups
        /\ q.mode = a.mode /\ q.full = a.full /\ q.imcu = a.imcu /\ q.ctr = a.ctr
        /\ q.which = a.which /\ q.state = a.state /\ q.next = a.next /\ q.togo = a.togo
        /\ q.spare = a.spare /\ q.pstart = a.pstart /\ q.pnext = a.pnext
        /\ q.image = a.image /\ q.counted = a.counted /\ q.moved = a.moved
        /\ q.buffer = a.buffer
        /\ \A t \in 0..LastGroups - 1 : Shows(q, t, Held(a) * pic.m + t)
    <3>1. a.imcu = pic.total_iMCU_rows
      BY <1>2, <1>11
    <3> QED BY <1>6, <1>8, <2>1, <3>1, BottomIs, Zenon
  <2>3. StateTypeOK(q)
    BY <1>6, <2>2, Zenon DEF StateTypeOK
  <2>4. Held(q) = u
    BY <1>7, <2>2, Zenon DEF Held
  <2>5. UpState(q, u * pic.m + 0, n)
    <3>1. UpState(q, u * pic.m, n)
      BY <1>2, <1>4, <2>2, UpStateSame
    <3> QED BY <1>5, <3>1, Zenon
  <2>6. q.ctr < q.avail
    <3>1. LastGroups \in 1..pic.m
      BY LastGroupsIs
    <3> QED BY <1>2, <1>3, <2>2, <3>1
  <2>7. InLast(q, n)
    BY <1>2, <1>4, <1>7, <1>11, <2>2, <2>4, <2>5, <2>6, Zenon DEF InLast
  <2>8. Buffers(q) /\ PostInv(q, n) /\ q.mode = r.mode
    BY <1>2, <1>9, <1>10, <2>2, Zenon DEF Buffers, PostInv, Strips
  <2> QED BY <2>3, <2>7, <2>8 DEF q
<1>12. CASE r.imcu # pic.total_iMCU_rows
  <2>1. q = a
    BY <1>1, <1>12
  <2>2. UpState(a, Held(a) * pic.m + a.ctr, n)
    <3>1. UpState(a, u * pic.m, n)
      BY <1>2, <1>4, UpStateSame
    <3> QED BY <1>2, <1>5, <1>7, <3>1, Zenon
  <2>3. InMiddle(a, n)
    <3>1. a.imcu < pic.total_iMCU_rows /\ a.ctr < pic.m - 1
      BY <1>2, <1>3, <1>12
    <3> QED BY <1>2, <1>8, <2>2, <3>1, Zenon DEF InMiddle
  <2> QED BY <1>2, <1>6, <1>9, <1>10, <2>1, <2>3 DEF q
<1> QED BY <1>11, <1>12

(* The rows that are read next become current, those before stay above.     *)
LEMMA ContextUnitLoads ==
  ASSUME PicFacts, pic.context, NEW r, StateTypeOK(r), Buffers(r),
         r.x \in {make_funny_pointers, Wrapped}
  PROVE  LET q == decompress_data(r)
         IN /\ IsState(q) /\ q.full = TRUE /\ q.imcu = r.imcu + 1
            /\ q.mode = r.mode /\ q.ctr = r.ctr /\ q.avail = r.avail /\ q.which = r.which
            /\ q.state = r.state /\ q.x = r.x /\ q.next = r.next /\ q.togo = r.togo
            /\ q.color = r.color /\ q.from = r.from /\ q.spare = r.spare
            /\ q.pstart = r.pstart /\ q.pnext = r.pnext /\ q.image = r.image
            /\ q.counted = r.counted /\ q.moved = r.moved
            /\ Buffers(q) /\ \A c \in Comps : Current(q, c)
            /\ ~r.full => \A c \in Comps : Previous(r, c) => Previous(q, c)
<1> DEFINE q == decompress_data(r)
           w == r.which
<1>1. w \in 0..1 /\ r.imcu \in Nat
  BY DEF StateTypeOK, PicFacts, PicTypeOK
<1>2. ASSUME NEW c \in Comps
      PROVE  LET g == pic.rgroup[c]
                 P == 0..Unit(c) + 2 * g - 1
             IN /\ Unit(c) \in Nat /\ g \in 1..4 /\ DOMAIN r.buffer[c] = P
                /\ \A i \in P : Place(c, w, i) \in P /\ At(r, c, i) = Place(c, w, i)
                /\ \A i, j \in P : Place(c, w, i) = Place(c, w, j) => i = j
                /\ \A i \in 0..Unit(c) - 1 : i \in P
                /\ \A i \in 0..2 * g - 1 : Unit(c) + i \in P /\ ~(Unit(c) + i \in 0..Unit(c) - 1)
  <2> DEFINE g == pic.rgroup[c]
             P == 0..Unit(c) + 2 * g - 1
  <2>1. Unit(c) \in Nat /\ g \in 1..4
    BY UnitIs
  <2>2. DOMAIN r.buffer[c] = P
    BY DEF Buffers
  <2>3. \A i \in P : At(r, c, i) = Place(c, w, i)
    BY <1>1, ListIs
  <2>4. /\ \A i \in P : Place(c, w, i) \in P
        /\ \A i, j \in P : Place(c, w, i) = Place(c, w, j) => i = j
    BY <1>1, PlaceIs
  <2>5. /\ \A i \in 0..Unit(c) - 1 : i \in P
        /\ \A i \in 0..2 * g - 1 : Unit(c) + i \in P /\ ~(Unit(c) + i \in 0..Unit(c) - 1)
    <3> HIDE DEF g
    <3> QED BY <2>1
  <2> HIDE DEF P
  <2> QED BY <2>1, <2>2, <2>3, <2>4, <2>5, Zenon DEF P
<1>3. ASSUME NEW c \in Comps PROVE Loadable(r, c)
  <2> DEFINE P == 0..Unit(c) + 2 * pic.rgroup[c] - 1
             L == 0..Unit(c) - 1
  <2>1. /\ DOMAIN r.buffer[c] = P
        /\ \A i \in P : Place(c, w, i) \in P /\ At(r, c, i) = Place(c, w, i)
        /\ \A i, j \in P : Place(c, w, i) = Place(c, w, j) => i = j
        /\ \A i \in L : i \in P
    BY <1>2, Zenon
  <2> HIDE DEF P, L
  <2>2. \A i \in L : At(r, c, i) = Place(c, w, i) /\ At(r, c, i) \in DOMAIN r.buffer[c]
    BY <2>1
  <2>3. \A i, j \in L : At(r, c, i) = At(r, c, j) => i = j
    BY <2>1
  <2> QED BY <2>2, <2>3, Zenon DEF Loadable, L
<1>4. /\ IsState(q) /\ q.full = TRUE /\ q.imcu = r.imcu + 1
      /\ q.mode = r.mode /\ q.ctr = r.ctr /\ q.avail = r.avail /\ q.which = r.which
      /\ q.state = r.state /\ q.x = r.x /\ q.next = r.next /\ q.togo = r.togo
      /\ q.color = r.color /\ q.from = r.from /\ q.spare = r.spare
      /\ q.pstart = r.pstart /\ q.pnext = r.pnext /\ q.image = r.image
      /\ q.counted = r.counted /\ q.moved = r.moved
      /\ \A c \in Comps : UnitLoaded(r, q, c)
  <2> HIDE DEF q
  <2> QED BY <1>3, UnitLoads, Zenon DEF q
<1> HIDE DEF q
<1>5. Buffers(q)
  BY <1>4, Zenon DEF Buffers, UnitLoaded
<1>6. q.imcu - 1 = r.imcu
  BY <1>1, <1>4
<1>7. ASSUME NEW c \in Comps PROVE Current(q, c)
  <2> SUFFICES ASSUME NEW i \in 0..Unit(c) - 1,
                      (q.imcu - 1) * Unit(c) + i < pic.downsampled_height[c]
               PROVE  q.buffer[c][Place(c, q.which, i)] = (q.imcu - 1) * Unit(c) + i
    BY Zenon DEF Current
  <2>1. q.buffer[c][At(r, c, i)] = r.imcu * Unit(c) + i
    BY <1>4, <1>6 DEF UnitLoaded
  <2>2. At(r, c, i) = Place(c, w, i)
    BY <1>2, Zenon
  <2> QED BY <1>4, <1>6, <2>1, <2>2
<1>8. ASSUME ~r.full, NEW c \in Comps, Previous(r, c) PROVE Previous(q, c)
  <2> DEFINE g == pic.rgroup[c]
  <2>1. Held(q) = Held(r)
    BY <1>4, <1>6, <1>8 DEF Held
  <2> SUFFICES ASSUME NEW i \in 0..2 * g - 1
               PROVE  q.buffer[c][Place(c, w, Unit(c) + i)] = r.buffer[c][Place(c, w, Unit(c) + i)]
    BY <1>4, <1>8, <2>1, Zenon DEF Previous
  <2> DEFINE k == Place(c, w, Unit(c) + i)
  <2>2. k \in DOMAIN r.buffer[c] /\ \A j \in 0..Unit(c) - 1 : At(r, c, j) # k
    <3>1. Unit(c) + i \in 0..Unit(c) + 2 * g - 1 /\ ~(Unit(c) + i \in 0..Unit(c) - 1)
      BY <1>2, Zenon
    <3> QED BY <1>2, <3>1, Zenon
  <2> HIDE DEF k
  <2> QED BY <1>4, <2>2 DEF UnitLoaded, k
<1> QED BY <1>4, <1>5, <1>7, <1>8, Zenon DEF q

LEMMA ContextLoaded ==
  ASSUME PicFacts, pic.context, NEW r, StateTypeOK(r), NEW n \in Nat, ContextInv(r, n), PostInv(r, n)
  PROVE  LET q == Loaded(r)
         IN /\ StateTypeOK(q) /\ q.mode = r.mode /\ q.full = TRUE /\ Buffers(q) /\ PostInv(q, n)
            /\ Waiting(q, n) \/ InMiddle(q, n) \/ Postponed(q, n) \/ InLast(q, n)
<1> DEFINE q == Loaded(r)
<1>1. Buffers(r) /\ r.imcu \in Nat /\ pic.total_iMCU_rows \in Nat \ {0} /\ r.full \in BOOLEAN
      /\ r.imcu <= pic.total_iMCU_rows /\ pic.m \in 2..16
  BY ContextIs DEF ContextInv, StateTypeOK
<1>2. CASE r.full
  <2>1. q = r /\ r.full = TRUE
    BY <1>1, <1>2 DEF Loaded
  <2>2. ~Beginning(r, n)
    BY <1>2 DEF Beginning
  <2>3. Waiting(r, n) \/ InMiddle(r, n) \/ Postponed(r, n) \/ InLast(r, n)
    BY <2>2 DEF ContextInv
  <2> HIDE DEF q
  <2> QED BY <1>1, <2>1, <2>3 DEF q
<1>3. CASE ~r.full
  <2>1. q = decompress_data(r)
    BY <1>3 DEF Loaded
  <2>2. Beginning(r, n) \/ Postponed(r, n)
    BY <1>3 DEF ContextInv, Waiting, Ready, InMiddle, UnitRead, InLast
  <2>3. r.x \in {make_funny_pointers, Wrapped}
    BY <2>2 DEF Beginning, Postponed
  <2>4. r.imcu < pic.total_iMCU_rows
    <3>1. CASE Beginning(r, n)
      BY <1>1, <3>1 DEF Beginning
    <3>2. CASE Postponed(r, n)
      BY <1>1, <1>3, <3>2 DEF Postponed, Held
    <3> QED BY <2>2, <3>1, <3>2
  <2> HIDE DEF q
  <2>5. /\ IsState(q) /\ q.full = TRUE /\ q.imcu = r.imcu + 1
        /\ q.mode = r.mode /\ q.ctr = r.ctr /\ q.avail = r.avail /\ q.which = r.which
        /\ q.state = r.state /\ q.x = r.x /\ q.next = r.next /\ q.togo = r.togo
        /\ q.color = r.color /\ q.from = r.from /\ q.spare = r.spare
        /\ q.pstart = r.pstart /\ q.pnext = r.pnext /\ q.image = r.image
        /\ q.counted = r.counted /\ q.moved = r.moved
        /\ Buffers(q) /\ \A c \in Comps : Current(q, c)
        /\ \A c \in Comps : Previous(r, c) => Previous(q, c)
    BY <1>1, <1>3, <2>1, <2>3, ContextUnitLoads, Zenon
  <2>6. StateTypeOK(q)
    <3>1. q.imcu \in 0..pic.total_iMCU_rows
      BY <1>1, <2>4, <2>5
    <3> QED BY <2>5, <3>1, Zenon DEF StateTypeOK
  <2>7. PostInv(q, n)
    BY <2>5, Zenon DEF PostInv, Strips
  <2>8. Held(q) = Held(r) /\ Held(r) = r.imcu /\ q.imcu > 0
    BY <1>1, <1>3, <2>5 DEF Held
  <2>9. CASE Beginning(r, n)
    <3>1. UpState(q, 0, n)
      BY <2>5, <2>9, UpStateKept DEF Beginning
    <3>2. Held(q) * pic.m = 0
      BY <1>1, <2>8, <2>9 DEF Beginning
    <3>3. q.imcu = 1 /\ q.which = 0 /\ q.x = make_funny_pointers /\ q.next = pic.maxv
          /\ q.state = "prepare"
      BY <2>5, <2>9 DEF Beginning
    <3>4. Waiting(q, n)
      BY <2>5, <2>8, <3>1, <3>2, <3>3, Zenon DEF Waiting, Ready, UnitRead, Listed
    <3> QED BY <2>5, <2>6, <2>7, <3>4 DEF q
  <2>10. CASE Postponed(r, n)
    <3>1. UpState(q, Held(q) * pic.m - 1, n)
      BY <2>5, <2>8, <2>10, UpStateKept DEF Postponed
    <3>2. \A c \in Comps : Previous(q, c) /\ Current(q, c)
      BY <2>5, <2>10, Zenon DEF Postponed
    <3>3. Postponed(q, n)
      BY <2>5, <2>8, <2>10, <3>1, <3>2, Zenon DEF Postponed
    <3> QED BY <2>5, <2>6, <2>7, <3>3 DEF q
  <2> QED BY <2>2, <2>9, <2>10
<1> QED BY <1>2, <1>3, <1>1

(* What the main controller leaves, when the lists are exchanged.           *)
LEMMA Exchanged ==
  ASSUME PicFacts, pic.context, NEW p, StateTypeOK(p.r), DOMAIN p = {"r", "rows"},
         p.r.ctr >= p.r.avail, p.r.ctr \in Int, p.r.avail \in Int
  PROVE  LET q == GroupsUsed(p).r
         IN /\ GroupsUsed(p).rows = p.rows /\ StateTypeOK(q)
            /\ q.x = (IF p.r.imcu = 1 THEN set_wraparound_pointers(p.r.x) ELSE p.r.x)
            /\ q.which = 1 - p.r.which /\ q.full = FALSE /\ q.ctr = pic.m + 1 /\ q.avail = pic.m + 2
            /\ q.state = "postponed" /\ q.mode = p.r.mode /\ q.imcu = p.r.imcu /\ q.next = p.r.next
            /\ q.togo = p.r.togo /\ q.spare = p.r.spare /\ q.buffer = p.r.buffer
            /\ q.pstart = p.r.pstart /\ q.pnext = p.r.pnext /\ q.image = p.r.image
            /\ q.counted = p.r.counted
<1> DEFINE a == p.r
           y == IF a.imcu = 1 THEN set_wraparound_pointers(a.x) ELSE a.x
           q == [a EXCEPT !.x = y, !.which = 1 - @, !.full = FALSE, !.ctr = pic.m + 1,
                          !.avail = pic.m + 2, !.state = "postponed"]
<1>1. ~(p.r.ctr < p.r.avail)
  OBVIOUS
<1>2. GroupsUsed(p) = [p EXCEPT !.r.x = IF p.r.imcu = 1 THEN set_wraparound_pointers(@) ELSE @,
                                !.r.which = 1 - @, !.r.full = FALSE, !.r.ctr = pic.m + 1,
                                !.r.avail = pic.m + 2, !.r.state = "postponed"]
  BY <1>1, Zenon DEF GroupsUsed
<1>3. IsState(a)
  BY DEF StateTypeOK
<1>4. GroupsUsed(p).r = q /\ GroupsUsed(p).rows = p.rows
  BY <1>2, <1>3 DEF IsState, Fields
<1>5. /\ IsState(q) /\ q.x = y /\ q.which = 1 - a.which /\ q.full = FALSE /\ q.ctr = pic.m + 1
      /\ q.avail = pic.m + 2 /\ q.state = "postponed" /\ q.mode = a.mode /\ q.imcu = a.imcu
      /\ q.next = a.next /\ q.togo = a.togo /\ q.spare = a.spare /\ q.buffer = a.buffer
      /\ q.pstart = a.pstart /\ q.pnext = a.pnext /\ q.image = a.image /\ q.counted = a.counted
  BY <1>3 DEF IsState, Fields
<1> HIDE DEF q
<1>6. StateTypeOK(q)
  <2>1. q.which \in 0..1
    BY <1>5 DEF StateTypeOK
  <2>2. pic.m + 1 \in 0..pic.m + 2
    BY ContextIs
  <2> QED BY <1>5, <2>1, <2>2, Zenon DEF StateTypeOK
<1> QED BY <1>4, <1>5, <1>6

(* The last groups of a unit are above the next one when the lists are      *)
(* exchanged.                                                               *)
LEMMA BecomesPrevious ==
  ASSUME PicFacts, pic.context, NEW r, StateTypeOK(r), UnitRead(r), r.imcu < pic.total_iMCU_rows,
         NEW q, q.buffer = r.buffer, q.which = 1 - r.which, Held(q) = r.imcu, NEW c \in Comps
  PROVE  Previous(q, c)
<1> DEFINE g == pic.rgroup[c]
           U == Unit(c)
           w == r.which
           ds == pic.downsampled_height[c]
           uU == r.imcu * U
<1>1. /\ g \in 1..4 /\ U \in Nat /\ 2 * g <= U /\ w \in 0..1 /\ ds \in Nat
      /\ \A i \in 0..2 * g - 1 : Place(c, 1 - w, U + i) = Place(c, w, U - 2 * g + i)
  <2>1. w \in 0..1
    BY DEF StateTypeOK
  <2> QED BY <2>1, PlaceIs, UnitIs
<1>2. r.imcu \in Nat \ {0}
  BY DEF StateTypeOK, UnitRead, PicFacts, PicTypeOK
<1>3. uU < ds /\ uU \in Nat
  BY <1>2, Above
<1>4. (r.imcu - 1) * U = uU - U
  BY <1>1, <1>2
<1>5. \A k \in 0..U - 1 : (r.imcu - 1) * U + k < ds
                            => r.buffer[c][Place(c, w, k)] = (r.imcu - 1) * U + k
  BY Zenon DEF UnitRead, Current
<1> SUFFICES ASSUME NEW i \in 0..2 * g - 1
             PROVE  r.buffer[c][Place(c, 1 - w, U + i)] = uU - 2 * g + i
  BY Zenon DEF Previous
<1> HIDE DEF g, U, w, ds, uU
<1> DEFINE k == U - 2 * g + i
<1>6. k \in 0..U - 1 /\ uU - U + k < ds /\ uU - U + k = uU - 2 * g + i
  BY <1>1, <1>3
<1>7. Place(c, 1 - w, U + i) = Place(c, w, k)
  BY <1>1
<1> HIDE DEF k
<1> QED BY <1>4, <1>5, <1>6, <1>7

LEMMA ProcessedIs ==
  ASSUME PicFacts, pic.context, NEW r, StateTypeOK(r), r.mode # "crank_dest", Buffers(r),
         NEW n \in Nat, n < pic.output_height, InMiddle(r, n) \/ InLast(r, n), PostInv(r, n),
         NEW room \in Nat, r.mode = "pass_thru" => room # 0
  PROVE  ContextRight(Processed(r, room), n)
<1> DEFINE p == post_process_data(r, room)
           u == Held(r)
           G == u * pic.m + r.ctr
           oh == pic.output_height
<1>1. /\ ~pic.merged /\ pic.m \in 2..16 /\ pic.maxv \in 1..4 /\ pic.total_iMCU_rows \in Nat \ {0}
      /\ oh \in Nat \ {0}
  BY ContextIs
<1>2. /\ r.full /\ r.imcu \in Nat \ {0} /\ u = r.imcu - 1 /\ r.ctr \in Nat /\ UpState(r, G, n)
      /\ r.imcu <= pic.total_iMCU_rows
  <2>1. r.full /\ UpState(r, G, n) /\ r.imcu > 0
    <3>1. CASE InMiddle(r, n)
      BY <3>1, Zenon DEF InMiddle, UnitRead
    <3>2. CASE InLast(r, n)
      BY <1>1, <3>2 DEF InLast
    <3> QED BY <3>1, <3>2
  <2>2. r.imcu \in Nat /\ r.ctr \in Nat /\ r.imcu <= pic.total_iMCU_rows
    BY <1>1 DEF StateTypeOK
  <2> HIDE DEF G
  <2> QED BY <2>1, <2>2 DEF Held
<1>3. u \in Nat /\ G \in Nat
  BY <1>1, <1>2, SMT
<1>4. Shows(r, r.ctr, G) /\ r.ctr < r.avail /\ r.avail \in 0..pic.m /\ r.ctr + 1 <= r.avail
  <2>1. CASE InMiddle(r, n)
    <3>1. UnitRead(r) /\ r.imcu < pic.total_iMCU_rows /\ r.avail = pic.m - 1 /\ r.ctr < pic.m - 1
      BY <2>1 DEF InMiddle
    <3>2. Shows(r, r.ctr, G)
      BY <3>1, ShowsMiddle
    <3> HIDE DEF G
    <3> QED BY <1>1, <1>2, <3>1, <3>2
  <2>2. CASE InLast(r, n)
    <3>1. r.avail = LastGroups /\ r.ctr < r.avail /\ LastGroups \in 1..pic.m
          /\ \A t \in 0..LastGroups - 1 : Shows(r, t, u * pic.m + t)
      BY <2>2, LastGroupsIs DEF InLast
    <3>2. r.ctr \in 0..LastGroups - 1
      BY <1>1, <1>2, <3>1
    <3>3. Shows(r, r.ctr, G)
      BY <3>1, <3>2
    <3> HIDE DEF G
    <3> QED BY <1>1, <1>2, <3>1, <3>3
  <2> QED BY <2>1, <2>2
<1> HIDE DEF G, u
<1>5. PICK len \in 1..oh - n :
        /\ p.rows = Part(n, len) /\ Undisturbed(r, p.r) /\ Advanced(r, p.r, G, n + len)
        /\ PostInv(p.r, n + len)
  <2>1. PostDelivers(r, p, G, n)
    BY <1>2, <1>3, <1>4, RowsPostprocessed
  <2> QED BY <2>1 DEF PostDelivers
<1>6. DOMAIN p = {"r", "rows"} /\ Processed(r, room) = GroupsUsed(p)
  BY PostShape DEF Processed
<1> HIDE DEF p
<1>7. StateTypeOK(p.r) /\ (p.r.ctr = r.ctr \/ p.r.ctr = r.ctr + 1)
  <2>1. r.ctr < pic.m + 2
    BY <1>1, <1>2, <1>4
  <2> QED BY <1>5, <2>1, StillTyped
<1>8. /\ p.r.full = r.full /\ p.r.avail = r.avail /\ p.r.imcu = r.imcu /\ p.r.which = r.which
      /\ p.r.state = r.state /\ p.r.x = r.x /\ p.r.buffer = r.buffer /\ p.r.mode = r.mode
      /\ Held(p.r) = u
  BY <1>5, Zenon DEF Undisturbed, Held, u
<1>9. n + len \in Nat /\ len \in Nat /\ len # 0
  BY <1>1
<1>10. /\ p.r.ctr = r.ctr /\ n + len < oh => UpState(p.r, G, n + len)
       /\ p.r.ctr = r.ctr + 1 /\ n + len < oh => UpState(p.r, G + 1, n + len) /\ p.r.next = pic.maxv
  <2>1. r.ctr # r.ctr + 1
    BY <1>2
  <2> QED BY <1>1, <1>5, <2>1, Zenon DEF Advanced, oh
<1>11. CASE p.r.ctr < p.r.avail
  <2>1. GroupsUsed(p) = p
    BY <1>11 DEF GroupsUsed
  <2>2. ASSUME n + len < oh PROVE ContextInv(p.r, n + len)
    <3>1. UpState(p.r, u * pic.m + p.r.ctr, n + len)
      <4>1. CASE p.r.ctr = r.ctr
        BY <1>10, <2>2, <4>1 DEF G
      <4>2. CASE p.r.ctr = r.ctr + 1
        <5>1. G + 1 = u * pic.m + p.r.ctr
          <6>1. u * pic.m \in Nat
            BY <1>1, <1>3, SMT
          <6> QED BY <1>2, <4>2, <6>1 DEF G
        <5> QED BY <1>10, <2>2, <4>2, <5>1
      <4> QED BY <1>7, <4>1, <4>2
    <3>2. Buffers(p.r)
      BY <1>8, Zenon DEF Buffers
    <3>3. CASE InMiddle(r, n)
      <4>1. UnitRead(p.r)
        <5>1. \A c \in Comps : (Previous(r, c) => Previous(p.r, c)) /\ (Current(r, c) => Current(p.r, c))
          BY <1>8, Zenon DEF Previous, Current, u
        <5>2. UnitRead(r)
          BY <3>3 DEF InMiddle
        <5> QED BY <1>8, <5>1, <5>2, Zenon DEF UnitRead, Listed
      <4>2. r.avail = pic.m - 1 /\ r.state = "process" /\ r.imcu < pic.total_iMCU_rows
        BY <3>3 DEF InMiddle
      <4>3. p.r.ctr < pic.m - 1
        BY <1>8, <1>11, <4>2
      <4>4. InMiddle(p.r, n + len)
        BY <1>8, <3>1, <4>1, <4>2, <4>3, Zenon DEF InMiddle
      <4> QED BY <3>2, <4>4 DEF ContextInv
    <3>4. CASE InLast(r, n)
      <4>1. \A c \in Comps : \A i : Row(p.r, c, i) = Row(r, c, i)
        BY <1>8, RowSame
      <4>2. \A t \in 0..LastGroups - 1 : Shows(p.r, t, u * pic.m + t)
        <5>1. \A t, H : Shows(r, t, H) => Shows(p.r, t, H)
          BY <4>1, Zenon DEF Shows, ShowsGroup
        <5> QED BY <3>4, <5>1, Zenon DEF InLast, u
      <4>3. r.state = "process" /\ r.full /\ r.imcu = pic.total_iMCU_rows /\ r.avail = LastGroups
        BY <3>4 DEF InLast
      <4>4. InLast(p.r, n + len)
        BY <1>8, <1>11, <3>1, <4>2, <4>3, Zenon DEF InLast
      <4> QED BY <3>2, <4>4 DEF ContextInv
    <3> QED BY <3>3, <3>4
  <2> QED BY <1>5, <1>6, <1>7, <2>1, <2>2 DEF ContextRight
<1>12. CASE ~(p.r.ctr < p.r.avail)
  <2> DEFINE q == GroupsUsed(p).r
  <2>0. p.r.ctr \in Int /\ p.r.avail \in Int /\ p.r.ctr >= p.r.avail
    BY <1>1, <1>2, <1>4, <1>7, <1>8, <1>12
  <2>1. /\ GroupsUsed(p).rows = p.rows /\ StateTypeOK(q)
        /\ q.x = (IF p.r.imcu = 1 THEN set_wraparound_pointers(p.r.x) ELSE p.r.x)
        /\ q.which = 1 - p.r.which /\ q.full = FALSE /\ q.ctr = pic.m + 1 /\ q.avail = pic.m + 2
        /\ q.state = "postponed" /\ q.mode = p.r.mode /\ q.imcu = p.r.imcu /\ q.next = p.r.next
        /\ q.togo = p.r.togo /\ q.spare = p.r.spare /\ q.buffer = p.r.buffer
        /\ q.pstart = p.r.pstart /\ q.pnext = p.r.pnext /\ q.image = p.r.image
        /\ q.counted = p.r.counted
    BY <1>6, <1>7, <2>0, Exchanged, Zenon
  <2> HIDE DEF q
  <2>2. p.r.ctr = r.ctr + 1 /\ r.ctr + 1 = r.avail
    BY <1>2, <1>4, <1>7, <1>8, <2>0
  <2>3. PostInv(q, n + len)
    BY <1>5, <2>1, Zenon DEF PostInv, Strips
  <2>4. ASSUME n + len < oh PROVE ContextInv(q, n + len)
    <3>1. UpState(p.r, G + 1, n + len) /\ p.r.next = pic.maxv
      BY <1>10, <2>2, <2>4
    <3>2. CASE InMiddle(r, n)
      <4>1. UnitRead(r) /\ r.imcu < pic.total_iMCU_rows /\ r.avail = pic.m - 1
        BY <3>2 DEF InMiddle
      <4>2. Held(q) = r.imcu
        BY <1>8, <2>1 DEF Held
      <4>3. q.x = Wrapped
        <5>1. CASE r.imcu = 1
          <6>1. r.x = make_funny_pointers
            BY <4>1, <5>1 DEF UnitRead, Listed
          <6> QED BY <1>8, <2>1, <5>1, <6>1 DEF Wrapped
        <5>2. CASE r.imcu # 1
          <6>1. r.x = Wrapped
            BY <4>1, <5>2 DEF UnitRead, Listed
          <6> QED BY <1>8, <2>1, <5>2, <6>1
        <5> QED BY <5>1, <5>2
      <4>4. \A c \in Comps : Previous(q, c)
        <5>1. q.buffer = r.buffer /\ q.which = 1 - r.which
          BY <1>8, <2>1
        <5> QED BY <4>1, <4>2, <5>1, BecomesPrevious, Zenon
      <4>5. G + 1 = Held(q) * pic.m - 1
        <5>1. (r.imcu - 1) * pic.m + (pic.m - 2) + 1 = r.imcu * pic.m - 1
          BY <1>1, <1>2, SMT
        <5>2. r.ctr = pic.m - 2
          BY <1>1, <1>2, <2>2, <4>1
        <5> QED BY <1>2, <4>2, <5>1, <5>2 DEF G
      <4>6. UpState(q, Held(q) * pic.m - 1, n + len)
        <5>1. UpState(q, G + 1, n + len)
          BY <2>1, <3>1, UpStateSame
        <5> QED BY <4>5, <5>1, Zenon
      <4>7. Held(q) \in 1..pic.total_iMCU_rows - 1
        BY <1>1, <1>2, <4>1, <4>2
      <4>8. Postponed(q, n + len)
        BY <2>1, <4>3, <4>4, <4>6, <4>7, Zenon DEF Postponed
      <4>9. Buffers(q)
        BY <1>8, <2>1, Zenon DEF Buffers
      <4> QED BY <4>8, <4>9 DEF ContextInv
    <3>3. CASE InLast(r, n)
      <4>1. r.avail = LastGroups /\ r.imcu = pic.total_iMCU_rows
        BY <3>3 DEF InLast
      <4>2. (pic.total_iMCU_rows - 1) * pic.m + LastGroups = Groups
        BY LastGroupsIs
      <4>3. u * pic.m \in Nat
        BY <1>1, <1>3, SMT
      <4>4. G + 1 = Groups
        <5>1. u = pic.total_iMCU_rows - 1
          BY <1>2, <4>1
        <5>2. LastGroups = r.ctr + 1
          BY <2>2, <4>1
        <5>3. u * pic.m + (r.ctr + 1) = Groups
          BY <4>2, <5>1, <5>2
        <5> QED BY <1>2, <4>3, <5>3 DEF G
      <4>5. G + 1 \in Nat
        BY <1>3
      <4>6. G + 1 < Groups
        BY <1>9, <2>4, <3>1, <4>5, UpStateBound
      <4> QED BY <4>4, <4>5, <4>6
    <3> QED BY <3>2, <3>3
  <2> QED BY <1>5, <1>6, <2>1, <2>3, <2>4 DEF ContextRight, q
<1> QED BY <1>11, <1>12

(* The rows after those of the group that had to wait.                      *)
LEMMA FollowedRight ==
  ASSUME PicFacts, NEW n \in Nat, NEW len \in Nat \ {0}, NEW rows, rows = Part(n, len),
         n + len < pic.output_height, NEW q, ContextRight(q, n + len)
  PROVE  ContextRight(Followed(rows, q), n)
<1> DEFINE oh == pic.output_height
<1>1. oh \in Nat
  BY DEF PicFacts, PicTypeOK
<1>2. PICK more \in 1..oh - (n + len) :
        /\ q.rows = Part(n + len, more) /\ StateTypeOK(q.r) /\ PostInv(q.r, (n + len) + more)
        /\ (n + len) + more < oh => ContextInv(q.r, (n + len) + more)
  BY DEF ContextRight
<1>3. (n + len) + more = n + (len + more) /\ len + more \in 1..oh - n /\ more \in Nat
  BY <1>1, <1>2
<1>4. Part(n, len) \o Part(n + len, more) = Part(n, len + more)
  BY <1>3, PartJoin
<1>5. Followed(rows, q).r = q.r /\ Followed(rows, q).rows = rows \o q.rows
  BY DEF Followed
<1> QED BY <1>2, <1>3, <1>4, <1>5 DEF ContextRight

LEMMA PostponedStep ==
  ASSUME PicFacts, pic.context, NEW r, StateTypeOK(r), r.mode # "crank_dest", Buffers(r), r.full,
         NEW n \in Nat, n < pic.output_height, Postponed(r, n), PostInv(r, n),
         NEW room \in Nat, r.mode = "pass_thru" => room # 0
  PROVE  ContextRight(PostponedUsed(post_process_data(r, room), room), n)
<1> DEFINE p == post_process_data(r, room)
           u == Held(r)
           G == u * pic.m - 1
           oh == pic.output_height
<1>1. /\ ~pic.merged /\ pic.m \in 2..16 /\ pic.maxv \in 1..4 /\ pic.total_iMCU_rows \in Nat \ {0}
      /\ oh \in Nat \ {0}
  BY ContextIs
<1>2. /\ r.state = "postponed" /\ r.avail = pic.m + 2 /\ r.ctr = pic.m + 1 /\ r.x = Wrapped
      /\ u \in 1..pic.total_iMCU_rows - 1 /\ \A c \in Comps : Previous(r, c) /\ Current(r, c)
      /\ UpState(r, G, n)
  BY DEF Postponed
<1>3. u * pic.m \in Nat /\ u * pic.m \in Nat \ {0}
  <2>1. u \in Nat \ {0} /\ pic.m \in Nat \ {0}
    BY <1>1, <1>2
  <2> HIDE DEF u
  <2> QED BY <2>1, SMT
<1>4. G \in Nat /\ G + 1 = u * pic.m
  BY <1>3
<1>5. Shows(r, r.ctr, G)
  BY <1>2, ShowsPostponed
<1> HIDE DEF G, u
<1>6. PICK len \in 1..oh - n :
        /\ p.rows = Part(n, len) /\ Undisturbed(r, p.r) /\ Advanced(r, p.r, G, n + len)
        /\ PostInv(p.r, n + len)
  <2>1. PostDelivers(r, p, G, n)
    BY <1>2, <1>4, <1>5, RowsPostprocessed
  <2> QED BY <2>1 DEF PostDelivers
<1>7. DOMAIN p = {"r", "rows"}
  BY PostShape
<1> SUFFICES ContextRight(PostponedUsed(p, room), n)
  OBVIOUS
<1> HIDE DEF p
<1>8. StateTypeOK(p.r) /\ (p.r.ctr = r.ctr \/ p.r.ctr = r.ctr + 1)
  <2>1. r.ctr < pic.m + 2
    BY <1>1, <1>2
  <2> QED BY <1>6, <2>1, StillTyped
<1>9. /\ p.r.full = r.full /\ p.r.avail = r.avail /\ p.r.imcu = r.imcu /\ p.r.which = r.which
      /\ p.r.state = r.state /\ p.r.x = r.x /\ p.r.buffer = r.buffer /\ p.r.mode = r.mode
      /\ Held(p.r) = u
  BY <1>6, Zenon DEF Undisturbed, Held, u
<1>10. n + len \in Nat /\ len \in Nat \ {0} /\ n + len <= oh
  BY <1>1
<1>11. Buffers(p.r) /\ \A c \in Comps : Previous(p.r, c) /\ Current(p.r, c)
  <2>1. Buffers(p.r)
    BY <1>9, Zenon DEF Buffers
  <2>2. ASSUME NEW c \in Comps PROVE Previous(p.r, c) /\ Current(p.r, c)
    <3>1. Previous(r, c) /\ Current(r, c)
      BY <1>2, Zenon
    <3> QED BY <1>9, <3>1, Zenon DEF Previous, Current, u
  <2> QED BY <2>1, <2>2, Zenon
<1>12. CASE p.r.ctr < p.r.avail
  <2>1. PostponedUsed(p, room) = p
    BY <1>12 DEF PostponedUsed
  <2>2. p.r.ctr = r.ctr
    BY <1>1, <1>2, <1>8, <1>9, <1>12
  <2>3. ASSUME n + len < oh PROVE ContextInv(p.r, n + len)
    <3>1. UpState(p.r, G, n + len)
      <4>1. r.ctr # r.ctr + 1
        BY <1>1, <1>2
      <4> QED BY <1>6, <2>2, <2>3, <4>1, Zenon DEF Advanced, oh
    <3>2. Postponed(p.r, n + len)
      BY <1>2, <1>9, <1>11, <2>2, <3>1, Zenon DEF Postponed, G
    <3> QED BY <1>11, <3>2 DEF ContextInv
  <2> QED BY <1>6, <1>8, <2>1, <2>3 DEF ContextRight
<1>13. CASE ~(p.r.ctr < p.r.avail)
  <2>1. p.r.ctr = r.ctr + 1
    BY <1>1, <1>2, <1>8, <1>9, <1>13
  <2>2. n + len < oh => UpState(p.r, G + 1, n + len) /\ p.r.next = pic.maxv
    <3>1. r.ctr # r.ctr + 1
      BY <1>1, <1>2
    <3> QED BY <1>1, <1>6, <2>1, <3>1, Zenon DEF Advanced, oh
  <2>3. UnitRead(p.r)
    <3>1. r.imcu > 1
      <4>1. u = r.imcu - 1 /\ r.imcu \in Nat
        BY <1>1 DEF u, Held, StateTypeOK
      <4> QED BY <1>2, <4>1
    <3>2. r.imcu > 0
      <4>1. r.imcu \in Nat
        BY <1>1 DEF StateTypeOK
      <4> QED BY <3>1, <4>1
    <3> QED BY <1>2, <1>9, <1>11, <3>1, <3>2, Zenon DEF UnitRead, Listed
  <2>4. n + len < oh => Ready(p.r, n + len)
    BY <1>4, <1>9, <2>2, <2>3 DEF Ready
  <2>5. Len(p.rows) = len
    BY <1>6, <1>10, PartIs
  <2>6. CASE len >= room
    <3> DEFINE q == [p.r EXCEPT !.state = "prepare"]
    <3>1. PostponedUsed(p, room) = [p EXCEPT !.r.state = "prepare"]
      BY <1>13, <2>5, <2>6 DEF PostponedUsed
    <3>2. PostponedUsed(p, room).r = q /\ PostponedUsed(p, room).rows = p.rows
      BY <1>7, <3>1
    <3>3. /\ IsState(q) /\ q.state = "prepare" /\ q.full = p.r.full /\ q.ctr = p.r.ctr
          /\ q.avail = p.r.avail /\ q.imcu = p.r.imcu /\ q.which = p.r.which /\ q.x = p.r.x
          /\ q.buffer = p.r.buffer /\ q.mode = p.r.mode /\ q.next = p.r.next /\ q.togo = p.r.togo
          /\ q.spare = p.r.spare /\ q.pstart = p.r.pstart /\ q.pnext = p.r.pnext
          /\ q.image = p.r.image /\ q.counted = p.r.counted
      BY <1>8 DEF StateTypeOK, IsState, Fields
    <3> HIDE DEF q
    <3>4. StateTypeOK(q)
      BY <1>8, <3>3, Zenon DEF StateTypeOK
    <3>5. PostInv(q, n + len)
      BY <1>6, <3>3, Zenon DEF PostInv, Strips
    <3>6. ASSUME n + len < oh PROVE ContextInv(q, n + len)
      <4>1. Held(q) = Held(p.r)
        BY <3>3, Zenon DEF Held
      <4>2. UnitRead(q)
        <5>1. \A c \in Comps : Previous(q, c) /\ Current(q, c)
          BY <1>11, <3>3, <4>1, Zenon DEF Previous, Current
        <5> QED BY <2>3, <3>3, <5>1, Zenon DEF UnitRead, Listed
      <4>3. UpState(q, Held(q) * pic.m, n + len)
        <5>1. UpState(q, G + 1, n + len)
          BY <2>2, <3>3, <3>6, UpStateSame
        <5> QED BY <1>4, <1>9, <4>1, <5>1
      <4>4. Waiting(q, n + len)
        BY <2>2, <3>3, <3>6, <4>2, <4>3, Zenon DEF Waiting, Ready
      <4>5. Buffers(q)
        BY <1>11, <3>3, Zenon DEF Buffers
      <4> QED BY <4>4, <4>5 DEF ContextInv
    <3> QED BY <1>6, <3>2, <3>4, <3>5, <3>6 DEF ContextRight
  <2>7. CASE ~(len >= room)
    <3> DEFINE rest == room - len
               b == Prepared(p.r)
    <3>1. PostponedUsed(p, room) = Followed(p.rows, Processed(b, rest))
      BY <1>13, <2>5, <2>7 DEF PostponedUsed
    <3>2. rest \in Nat \ {0}
      BY <1>10, <2>7
    <3>3. n + len < oh
      <4> DEFINE most == pic.maxv * (G + 1)
                 whole == pic.maxv * (Groups - 1)
      <4>1. n + len <= most
        BY <1>1, <1>6 DEF Advanced
      <4>2. whole < oh /\ Groups \in Nat
        <5>1. pic.output_height \in Nat /\ pic.maxv \in Nat \ {0}
          BY <1>1
        <5> QED BY <5>1, CeilIs DEF Groups
      <4>3. G + 1 <= Groups - 1
        <5> DEFINE q == pic.total_iMCU_rows - 1
        <5>1. q * pic.m < Groups /\ q \in Nat /\ u <= q /\ q * pic.m \in Nat
          BY <1>1, <1>2, GroupsBound
        <5>2. u \in Int /\ q \in Int /\ pic.m \in Nat \ {0}
          BY <1>1, <1>2, <5>1
        <5> HIDE DEF q
        <5>3. u * pic.m <= q * pic.m
          BY <5>1, <5>2, TimesLess, Zenon
        <5> QED BY <1>3, <1>4, <4>2, <5>1, <5>3
      <4>4. most <= whole /\ most \in Int /\ whole \in Int
        <5>1. G + 1 \in Int /\ Groups - 1 \in Int /\ pic.maxv \in Nat \ {0}
          BY <1>1, <1>4, <4>2
        <5>2. (G + 1) * pic.maxv <= (Groups - 1) * pic.maxv
          BY <4>3, <5>1, TimesLess, Zenon
        <5>3. (G + 1) * pic.maxv = most /\ (Groups - 1) * pic.maxv = whole /\ most \in Int /\ whole \in Int
          BY <5>1, SMT
        <5> HIDE DEF most, whole
        <5> QED BY <5>2, <5>3
      <4> HIDE DEF most, whole
      <4> QED BY <1>1, <1>10, <4>1, <4>2, <4>4
    <3> HIDE DEF rest
    <3>4. /\ StateTypeOK(b) /\ b.mode = p.r.mode /\ Buffers(b) /\ PostInv(b, n + len)
          /\ InMiddle(b, n + len) \/ InLast(b, n + len)
      BY <1>6, <1>8, <1>10, <1>11, <2>4, <3>3, PreparedIs, Zenon
    <3> HIDE DEF b
    <3>5. ContextRight(Processed(b, rest), n + len)
      <4>1. b.mode # "crank_dest" /\ rest \in Nat /\ rest # 0
        BY <1>9, <3>2, <3>4
      <4> QED BY <1>10, <3>3, <3>4, <4>1, ProcessedIs, Zenon DEF oh
    <3>6. ContextRight(Followed(p.rows, Processed(b, rest)), n)
      <4>1. n \in Nat /\ len \in Nat \ {0} /\ p.rows = Part(n, len) /\ n + len < pic.output_height
        BY <1>6, <1>10, <3>3
      <4> QED BY <3>5, <4>1, FollowedRight, Zenon
    <3> QED BY <3>1, <3>6
  <2> QED BY <2>6, <2>7
<1> QED BY <1>12, <1>13

LEMMA ContextStep ==
  ASSUME PicFacts, pic.context, NEW r, StateTypeOK(r), r.mode # "crank_dest", NEW n \in Nat,
         n < pic.output_height, ContextInv(r, n), PostInv(r, n), NEW room \in Nat,
         r.mode = "pass_thru" => room # 0, NEW ready \in BOOLEAN
  PROVE  StepRight(r, process_data_context_main(r, room, ready), n, ready)
<1>1. CASE ~r.full /\ ~ready
  <2>1. process_data_context_main(r, room, ready) = [r |-> r, rows |-> <<>>]
    BY <1>1 DEF process_data_context_main
  <2>2. MainInv(r, n)
    BY DEF MainInv
  <2> QED BY <1>1, <2>1, <2>2, Suspended
<1>2. CASE ~(~r.full /\ ~ready)
  <2> DEFINE a == Loaded(r)
  <2>1. process_data_context_main(r, room, ready) = InContext(a, room)
    BY <1>2, Zenon DEF process_data_context_main
  <2>2. /\ StateTypeOK(a) /\ a.mode = r.mode /\ a.full = TRUE /\ Buffers(a) /\ PostInv(a, n)
        /\ Waiting(a, n) \/ InMiddle(a, n) \/ Postponed(a, n) \/ InLast(a, n)
    BY ContextLoaded, Zenon
  <2> HIDE DEF a
  <2>3. a.mode # "crank_dest" /\ (a.mode = "pass_thru" => room # 0)
    BY <2>2
  <2>4. ContextRight(InContext(a, room), n)
    <3>1. CASE Waiting(a, n)
      <4> DEFINE b == Prepared(a)
      <4>1. InContext(a, room) = Processed(b, room)
        BY <3>1 DEF InContext, Waiting
      <4>2. /\ StateTypeOK(b) /\ b.mode = a.mode /\ Buffers(b) /\ PostInv(b, n)
            /\ InMiddle(b, n) \/ InLast(b, n)
        <5>1. Ready(a, n)
          BY <3>1 DEF Waiting
        <5> QED BY <2>2, <5>1, PreparedIs, Zenon
      <4> HIDE DEF b
      <4>3. ContextRight(Processed(b, room), n)
        BY <2>3, <4>2, ProcessedIs
      <4> QED BY <4>1, <4>3
    <3>2. CASE InMiddle(a, n) \/ InLast(a, n)
      <4>1. InContext(a, room) = Processed(a, room)
        BY <3>2 DEF InContext, InMiddle, InLast
      <4> QED BY <2>2, <2>3, <3>2, <4>1, ProcessedIs
    <3>3. CASE Postponed(a, n)
      <4>1. InContext(a, room) = PostponedUsed(post_process_data(a, room), room)
        BY <3>3 DEF InContext, Postponed
      <4> QED BY <2>2, <2>3, <3>3, <4>1, PostponedStep
    <3> QED BY <2>2, <3>1, <3>2, <3>3
  <2> DEFINE p == InContext(a, room)
  <2> HIDE DEF p
  <2>5. PICK len \in 1..pic.output_height - n :
          /\ p.rows = Part(n, len) /\ StateTypeOK(p.r) /\ PostInv(p.r, n + len)
          /\ n + len < pic.output_height => ContextInv(p.r, n + len)
    BY <2>4 DEF ContextRight, p
  <2>6. len \in 0..pic.output_height - n /\ len # 0
    BY ContextIs
  <2>7. n + len < pic.output_height => MainInv(p.r, n + len)
    BY <2>5 DEF MainInv
  <2>8. StepRight(r, p, n, ready)
    BY <2>5, <2>6, <2>7 DEF StepRight
  <2> QED BY <2>1, <2>8 DEF p
<1> QED BY <1>1, <1>2

(***************************************************************************)
(* While the picture is the same, the invariant speaks of the same rows.   *)
(***************************************************************************)
LEMMA SamePicture ==
  ASSUME pic' = pic
  PROVE  /\ PicFacts' <=> PicFacts
         /\ \A r : StateTypeOK(r)' <=> StateTypeOK(r)
         /\ \A n, k : Part(n, k)' = Part(n, k)
         /\ \A r, n : PostInv(r, n)' <=> PostInv(r, n)
         /\ \A r, n : MainInv(r, n)' <=> MainInv(r, n)
<1>1. Comps' = Comps /\ Groups' = Groups /\ Modes' = Modes
  BY Zenon DEF Comps, Groups, Modes
<1>2. \A c : Unit(c)' = Unit(c)
  BY Zenon DEF Unit
<1>3. PicFacts' <=> PicFacts
  BY Zenon DEF PicFacts, Comps, PicTypeOK, CompTypeOK, MethodFits, UnitsFit, RowsComplete, Groups, Unit
<1>4. \A r : StateTypeOK(r)' <=> StateTypeOK(r)
  BY <1>1, Zenon DEF StateTypeOK
<1>5. \A n : IdealRow(n)' = IdealRow(n)
  <2>1. \A c, n : Ideal(c, n)' = Ideal(c, n)
    BY Zenon DEF Ideal
  <2> QED BY <1>1, <2>1 DEF IdealRow
<1>6. \A n, k : Part(n, k)' = Part(n, k)
  BY <1>5 DEF Part
<1>7. \A r, n : PostInv(r, n)' <=> PostInv(r, n)
  <2>1. \A r, n : Strips(r, n)' <=> Strips(r, n)
    BY Zenon DEF Strips
  <2> QED BY <1>6, <2>1, Zenon DEF PostInv
<1>8. make_funny_pointers' = make_funny_pointers /\ simple_pointers' = simple_pointers
  BY DEF make_funny_pointers, simple_pointers, Comps
<1>9. Wrapped' = Wrapped
  <2>1. \A x : set_wraparound_pointers(x)' = set_wraparound_pointers(x)
    BY DEF set_wraparound_pointers, Comps
  <2> QED BY <1>8, <2>1 DEF Wrapped
<1>10. \A r, G, n : UpState(r, G, n)' <=> UpState(r, G, n)
  <2>1. \A c, n : Ideal(c, n)' = Ideal(c, n)
    BY Zenon DEF Ideal
  <2>2. \A r, G, n : Handing(r, G, n)' <=> Handing(r, G, n)
    BY <1>1, <2>1, Zenon DEF Handing
  <2> QED BY <1>5, <2>2 DEF UpState
<1>11. \A r, c : (Current(r, c)' <=> Current(r, c)) /\ (Previous(r, c)' <=> Previous(r, c))
                 /\ (SimpleCurrent(r, c)' <=> SimpleCurrent(r, c))
  <2>1. \A c, w, i : Place(c, w, i)' = Place(c, w, i)
    BY <1>2, Zenon DEF Place
  <2>2. \A r, c : Current(r, c)' <=> Current(r, c)
    BY <1>2, <2>1, Zenon DEF Current
  <2>3. \A r, c : Previous(r, c)' <=> Previous(r, c)
    BY <1>2, <2>1, Zenon DEF Previous
  <2>4. \A r, c : SimpleCurrent(r, c)' <=> SimpleCurrent(r, c)
    BY <1>2, Zenon DEF SimpleCurrent
  <2> QED BY <2>2, <2>3, <2>4, Zenon
<1>12. \A r : (SimpleBuffers(r)' <=> SimpleBuffers(r)) /\ (Buffers(r)' <=> Buffers(r))
  <2>1. \A r : SimpleBuffers(r)' <=> SimpleBuffers(r)
    BY <1>1, <1>2, Zenon DEF SimpleBuffers
  <2>2. \A r : Buffers(r)' <=> Buffers(r)
    BY <1>1, <1>2, Zenon DEF Buffers
  <2> QED BY <2>1, <2>2, Zenon
<1>13. \A r, n : SimpleInv(r, n)' <=> SimpleInv(r, n)
  BY <1>1, <1>8, <1>10, <1>11, <1>12, Zenon DEF SimpleInv
<1>14. \A r, n : ContextInv(r, n)' <=> ContextInv(r, n)
  <2>1. \A r : UnitRead(r)' <=> UnitRead(r)
    <3>1. \A r : Listed(r)' <=> Listed(r)
      BY <1>1, <1>8, <1>9, <1>11, Zenon DEF Listed
    <3> QED BY <1>1, <1>11, <3>1, Zenon DEF UnitRead
  <2>2. \A r, n : Beginning(r, n)' <=> Beginning(r, n)
    BY <1>8, <1>10, Zenon DEF Beginning
  <2>3. \A r, n : Waiting(r, n)' <=> Waiting(r, n)
    <3>1. \A r, n : Ready(r, n)' <=> Ready(r, n)
      BY <1>10, <2>1, Zenon DEF Ready
    <3> QED BY <3>1, Zenon DEF Waiting
  <2>4. \A r, n : InMiddle(r, n)' <=> InMiddle(r, n)
    BY <1>10, <2>1, Zenon DEF InMiddle
  <2>5. \A r, n : Postponed(r, n)' <=> Postponed(r, n)
    BY <1>1, <1>9, <1>10, <1>11, Zenon DEF Postponed
  <2>6. \A r, n : InLast(r, n)' <=> InLast(r, n)
    <3>1. LastGroups' = LastGroups
      BY <1>1, Zenon DEF LastGroups
    <3>2. \A r, t, G : Shows(r, t, G)' <=> Shows(r, t, G)
      <4>1. \A c, k : Clamped(c, k)' = Clamped(c, k)
        BY Zenon DEF Clamped
      <4>2. \A r, c, t, G : ShowsGroup(r, c, t, G)' <=> ShowsGroup(r, c, t, G)
        BY <4>1 DEF ShowsGroup
      <4> QED BY <1>1, <4>2, Zenon DEF Shows
    <3> QED BY <1>10, <3>1, <3>2, Zenon DEF InLast
  <2> QED BY <1>12, <2>2, <2>3, <2>4, <2>5, <2>6, Zenon DEF ContextInv
<1>15. \A r, n : MainInv(r, n)' <=> MainInv(r, n)
  BY <1>13, <1>14, Zenon DEF MainInv
<1> QED BY <1>3, <1>4, <1>6, <1>7, <1>15, Zenon

(* The invariant of a state that was described by its parts.                *)
Described(r, rows) ==
  /\ StateTypeOK(r) /\ r.moved = TRUE
  /\ Len(rows) \in 0..pic.output_height /\ rows = Part(0, Len(rows)) /\ PostInv(r, Len(rows))
  /\ r.mode # "crank_dest" /\ Len(rows) < pic.output_height => MainInv(r, Len(rows))

LEMMA InvFollows ==
  ASSUME PicFacts, pic' = pic, NEW q, NEW rows, Described(q, rows), s' = q, done' = rows
  PROVE  OutputInv'
<1>1. PicFacts'
  BY SamePicture, Zenon
<1>2. StateTypeOK(s)' /\ s'.moved = TRUE
  BY SamePicture, Zenon DEF Described
<1>3. (Len(done) \in 0..pic.output_height)' /\ (done = Part(0, Len(done)))'
  BY SamePicture, Zenon DEF Described
<1>4. PostInv(s, Len(done))'
  BY SamePicture, Zenon DEF Described
<1>5. (s.mode # "crank_dest" /\ Len(done) < pic.output_height => MainInv(s, Len(done)))'
  BY SamePicture, Zenon DEF Described
<1> QED BY <1>1, <1>2, <1>3, <1>4, <1>5, Zenon DEF OutputInv

(***************************************************************************)
(* The calls.                                                              *)
(***************************************************************************)
LEMMA MovedSame ==
  ASSUME NEW r, NEW q, NEW n, MainInv(r, n),
         q.full = r.full, q.ctr = r.ctr, q.avail = r.avail, q.imcu = r.imcu, q.which = r.which,
         q.state = r.state, q.x = r.x, q.next = r.next, q.togo = r.togo, q.color = r.color,
         q.from = r.from, q.spare = r.spare, q.buffer = r.buffer
  PROVE  MainInv(q, n)
<1>1. Held(q) = Held(r) /\ \A G, k : UpState(r, G, k) => UpState(q, G, k)
  BY Zenon DEF Held, UpState, Handing
<1>2. SimpleInv(r, n) => SimpleInv(q, n)
  BY <1>1, Zenon DEF SimpleInv, SimpleBuffers, SimpleCurrent
<1>3. \A c : (Current(r, c) => Current(q, c)) /\ (Previous(r, c) => Previous(q, c))
  BY <1>1, Zenon DEF Current, Previous
<1>4. Buffers(r) => Buffers(q)
  BY Zenon DEF Buffers
<1>5. UnitRead(r) => UnitRead(q)
  BY <1>3, Zenon DEF UnitRead, Listed
<1>6. Beginning(r, n) => Beginning(q, n)
  BY <1>1, Zenon DEF Beginning
<1>7. Waiting(r, n) => Waiting(q, n)
  BY <1>1, <1>5, Zenon DEF Waiting, Ready
<1>8. InMiddle(r, n) => InMiddle(q, n)
  BY <1>1, <1>5, Zenon DEF InMiddle
<1>9. Postponed(r, n) => Postponed(q, n)
  BY <1>1, <1>3, Zenon DEF Postponed
<1>10. InLast(r, n) => InLast(q, n)
  <2>1. \A c, i : Row(q, c, i) = Row(r, c, i)
    BY RowSame, Zenon
  <2>2. \A t, G : Shows(r, t, G) => Shows(q, t, G)
    BY <2>1, Zenon DEF Shows, ShowsGroup
  <2> QED BY <1>1, <2>2, Zenon DEF InLast
<1> QED BY <1>2, <1>4, <1>6, <1>7, <1>8, <1>9, <1>10, Zenon DEF MainInv, ContextInv

LEMMA CalledIs ==
  ASSUME PicFacts, pic' = pic, NEW n \in Nat, n <= pic.output_height, Len(done) = n, done = Part(0, n),
         NEW ready \in BOOLEAN, NEW p, NEW len \in 0..pic.output_height - n,
         p.rows = Part(n, len), len = 0 => ~ready /\ ~s.full,
         StateTypeOK(p.r), PostInv(p.r, n + len),
         p.r.mode # "crank_dest" /\ n + len < pic.output_height => MainInv(p.r, n + len),
         Called(p, ready)
  PROVE  OutputInv'
<1> DEFINE moved == p.rows # <<>> \/ (~ready /\ ~s.full)
           q == [p.r EXCEPT !.moved = moved]
           rows == done \o p.rows
           k == n + len
<1>1. len \in Nat /\ pic.output_height \in Nat /\ k \in 0..pic.output_height
  BY DEF PicFacts, PicTypeOK
<1>2. moved = TRUE
  <2>1. CASE len = 0
    BY <2>1
  <2>2. CASE len # 0
    <3>1. Len(p.rows) = len
      BY <1>1, PartIs
    <3>2. p.rows # <<>>
      BY <2>2, <3>1
    <3> QED BY <3>2
  <2> QED BY <2>1, <2>2
<1>3. rows = Part(0, k) /\ Len(rows) = k
  <2>1. 0 + n = n /\ 0 \in Nat /\ k \in Nat
    BY <1>1
  <2>2. Part(0, n) \o Part(0 + n, len) = Part(0, n + len)
    BY <1>1, <2>1, PartJoin, Zenon
  <2>3. Len(Part(0, k)) = k
    BY <2>1, PartIs, Zenon
  <2> QED BY <2>1, <2>2, <2>3
<1>4. s' = q /\ done' = rows
  BY DEF Called
<1> HIDE DEF moved
<1>5. /\ IsState(q) /\ q.moved = TRUE /\ q.mode = p.r.mode /\ q.full = p.r.full /\ q.ctr = p.r.ctr
      /\ q.avail = p.r.avail /\ q.imcu = p.r.imcu /\ q.which = p.r.which /\ q.state = p.r.state
      /\ q.x = p.r.x /\ q.next = p.r.next /\ q.togo = p.r.togo /\ q.color = p.r.color
      /\ q.from = p.r.from /\ q.spare = p.r.spare /\ q.buffer = p.r.buffer
      /\ q.pstart = p.r.pstart /\ q.pnext = p.r.pnext /\ q.image = p.r.image
      /\ q.counted = p.r.counted
  <2>1. IsState(p.r)
    BY DEF StateTypeOK
  <2> QED BY <1>2, <2>1 DEF IsState, Fields
<1> HIDE DEF q, rows, k
<1>6. StateTypeOK(q)
  BY <1>5, Zenon DEF StateTypeOK
<1>7. PostInv(q, k)
  BY <1>5, Zenon DEF PostInv, Strips, k
<1>8. ASSUME q.mode # "crank_dest", k < pic.output_height PROVE MainInv(q, k)
  <2>1. MainInv(p.r, k)
    BY <1>5, <1>8 DEF k
  <2> QED BY <1>5, <2>1, MovedSame, Zenon
<1>9. Described(q, rows)
  BY <1>1, <1>3, <1>5, <1>6, <1>7, <1>8, Zenon DEF Described
<1> QED BY <1>4, <1>9, InvFollows, Zenon

LEMMA ProcessRight ==
  ASSUME PicFacts, NEW r, StateTypeOK(r), r.mode # "crank_dest", NEW n \in Nat,
         n < pic.output_height, MainInv(r, n), PostInv(r, n), NEW room \in Nat,
         r.mode = "pass_thru" => room # 0, NEW ready \in BOOLEAN
  PROVE  StepRight(r, process_data(r, room, ready), n, ready)
<1>1. CASE pic.context
  <2>1. process_data(r, room, ready) = process_data_context_main(r, room, ready)
    BY <1>1 DEF process_data
  <2> QED BY <1>1, <2>1, ContextStep DEF MainInv
<1>2. CASE ~pic.context
  <2>1. process_data(r, room, ready) = process_data_simple_main(r, room, ready)
    BY <1>2 DEF process_data
  <2> QED BY <1>2, <2>1, SimpleStep DEF MainInv
<1> QED BY <1>1, <1>2

LEMMA ProcessCalled ==
  ASSUME OutputInv, pic' = pic, s.mode # "crank_dest", Len(done) < pic.output_height,
         NEW room \in Nat, s.mode = "pass_thru" => room # 0, NEW ready \in BOOLEAN,
         Called(process_data(s, room, ready), ready)
  PROVE  OutputInv'
<1> DEFINE p == process_data(s, room, ready)
           n == Len(done)
<1>1. /\ PicFacts /\ StateTypeOK(s) /\ n \in Nat /\ n <= pic.output_height /\ done = Part(0, n)
      /\ PostInv(s, n) /\ MainInv(s, n)
  BY DEF OutputInv, PicFacts, PicTypeOK
<1>2. StepRight(s, p, n, ready)
  BY <1>1, ProcessRight
<1> HIDE DEF p
<1>3. PICK len \in 0..pic.output_height - n :
        /\ p.rows = Part(n, len) /\ (len = 0 => ~ready /\ ~s.full)
        /\ StateTypeOK(p.r) /\ PostInv(p.r, n + len)
        /\ n + len < pic.output_height => MainInv(p.r, n + len)
  BY <1>2 DEF StepRight
<1>4. Called(p, ready)
  BY DEF p
<1>5. Len(done) = n
  OBVIOUS
<1> HIDE DEF n
<1> QED BY <1>1, <1>3, <1>4, <1>5, CalledIs, Zenon

(***************************************************************************)
(* The passes.                                                             *)
(***************************************************************************)
LEMMA Started ==
  ASSUME OutputAssumption, \A p \in Pictures : SmallStrips(p), OutputInit
  PROVE  OutputInv
<1> DEFINE mode == IF pic.quantize = "two" THEN "save_and_pass" ELSE "pass_thru"
           x == IF pic.context THEN make_funny_pointers ELSE simple_pointers
           size(c) == pic.rgroup[c] * (pic.m + (IF pic.context THEN 2 ELSE 0))
           buffer == [c \in Comps |-> [k \in 0..size(c) - 1 |-> Unset]]
<1>1. PicFacts
  <2>1. PICK p \in Pictures : pic = Setup(p)
    BY DEF OutputInit
  <2>2. p \in PictureType /\ SmallStrips(p)
    BY DEF OutputAssumption
  <2>3. \A c \in Comps : pic.method[c] # "JERR_FRACT_SAMPLE_NOTIMPL"
    BY DEF OutputInit, Comps
  <2> QED BY <2>1, <2>2, <2>3, SetupFacts, Zenon
<1>2. /\ pic.maxv \in 1..4 /\ pic.m \in 1..16 /\ pic.output_height \in Nat \ {0}
      /\ pic.total_iMCU_rows \in Nat \ {0} /\ pic.quantize \in {"none", "one", "two"}
      /\ (pic.merged => pic.maxv \in {1, 2}) /\ pic.context \in BOOLEAN
  BY <1>1 DEF PicFacts, PicTypeOK
<1>3. mode \in Modes /\ mode # "crank_dest"
  BY DEF Modes
<1> DEFINE fresh == [Blank EXCEPT !.mode = mode, !.pstart = 0, !.pnext = 0]
<1>4. s = [fresh EXCEPT !.x = x, !.which = 0, !.state = "prepare", !.imcu = 0, !.full = FALSE,
                        !.ctr = 0, !.next = pic.maxv, !.togo = pic.output_height, !.spare = <<>>]
  <2>1. s = StartPass(mode, Blank)
    BY DEF OutputInit
  <2> HIDE DEF mode
  <2> QED BY <1>3, <2>1 DEF StartPass
<1> HIDE DEF mode, x, buffer, fresh
<1>5. /\ IsState(s) /\ s.mode = mode /\ s.pstart = 0 /\ s.pnext = 0 /\ s.x = x /\ s.which = 0
      /\ s.state = "prepare" /\ s.imcu = 0 /\ s.full = FALSE /\ s.ctr = 0 /\ s.next = pic.maxv
      /\ s.togo = pic.output_height /\ s.spare = <<>> /\ s.image = <<>> /\ s.counted = <<>>
      /\ s.moved = TRUE /\ s.buffer = buffer
  <2>1. Blank = [mode |-> "none", full |-> FALSE, ctr |-> 0, avail |-> 0, imcu |-> 0, which |-> 0,
                 state |-> "prepare", x |-> <<>>, next |-> 0, togo |-> 0, color |-> <<>>,
                 from |-> 0, spare |-> <<>>, pstart |-> 0, pnext |-> 0, image |-> <<>>,
                 counted |-> <<>>, moved |-> TRUE, buffer |-> buffer]
    BY DEF Blank, buffer
  <2> DEFINE b == Blank
  <2>2. /\ IsState(b) /\ b.image = <<>> /\ b.counted = <<>> /\ b.moved = TRUE /\ b.buffer = buffer
    BY <2>1 DEF IsState, Fields
  <2>3. fresh = [b EXCEPT !.mode = mode, !.pstart = 0, !.pnext = 0]
    BY DEF fresh
  <2> HIDE DEF b
  <2>4. /\ IsState(fresh) /\ fresh.mode = mode /\ fresh.pstart = 0 /\ fresh.pnext = 0
        /\ fresh.image = <<>> /\ fresh.counted = <<>> /\ fresh.moved = TRUE /\ fresh.buffer = buffer
    BY <2>2, <2>3 DEF IsState, Fields
  <2> HIDE DEF fresh
  <2>5. DOMAIN fresh = Fields
    BY <2>4 DEF IsState
  <2>6. IsState(s)
    <3> DEFINE c == [fresh EXCEPT !.x = x, !.which = 0, !.state = "prepare", !.imcu = 0]
    <3>1. IsState(c)
      BY <2>4 DEF IsState, Fields
    <3>2. s = [c EXCEPT !.full = FALSE, !.ctr = 0, !.next = pic.maxv, !.togo = pic.output_height,
                        !.spare = <<>>]
      BY <1>4
    <3> HIDE DEF c
    <3> QED BY <3>1, <3>2 DEF IsState, Fields
  <2>7. /\ s.mode = fresh.mode /\ s.pstart = fresh.pstart /\ s.pnext = fresh.pnext
        /\ s.image = fresh.image /\ s.counted = fresh.counted /\ s.moved = fresh.moved
        /\ s.buffer = fresh.buffer
    BY <1>4, <2>5 DEF Fields
  <2>8. /\ s.x = x /\ s.which = 0 /\ s.state = "prepare" /\ s.imcu = 0 /\ s.full = FALSE
        /\ s.ctr = 0 /\ s.next = pic.maxv /\ s.togo = pic.output_height /\ s.spare = <<>>
    BY <1>4, <2>5 DEF Fields
  <2> QED BY <2>4, <2>6, <2>7, <2>8
<1>6. StateTypeOK(s)
  <2>1. /\ 0 \in 0..pic.m + 2 /\ 0 \in 0..pic.total_iMCU_rows /\ 0 \in 0..1
        /\ pic.output_height \in 0..pic.output_height /\ pic.maxv \in 0..pic.maxv
    BY <1>2
  <2> QED BY <1>3, <1>5, <2>1 DEF StateTypeOK
<1>7. done = Part(0, 0) /\ Len(done) = 0 /\ s.image = Part(0, 0) /\ s.counted = Part(0, 0)
  BY <1>5, PartNone DEF OutputInit
<1>8. PostInv(s, 0)
  <2>1. Strips(s, 0)
    BY <1>2, <1>5 DEF Strips
  <2> QED BY <1>3, <1>5, <1>7, <2>1 DEF PostInv
<1>9. UpState(s, 0, 0)
  <2>1. pic.maxv * 0 = 0 /\ pic.output_height - 0 = pic.output_height /\ 2 * 0 = 0
    BY <1>2
  <2> QED BY <1>5, <2>1 DEF UpState, Handing
<1>10. MainInv(s, 0)
  <2>1. CASE pic.context
    <3>1. Buffers(s)
      <4> SUFFICES ASSUME NEW c \in Comps
                   PROVE  DOMAIN s.buffer[c] = 0..Unit(c) + 2 * pic.rgroup[c] - 1
        BY DEF Buffers
      <4>1. size(c) = Unit(c) + 2 * pic.rgroup[c]
        BY <1>1, <2>1, ListBounds
      <4>2. DOMAIN s.buffer[c] = 0..size(c) - 1
        BY <1>5 DEF buffer
      <4>3. size(c) - 1 = Unit(c) + 2 * pic.rgroup[c] - 1
        <5>1. Unit(c) \in Nat /\ pic.rgroup[c] \in Nat
          BY <1>1, UnitIs
        <5> HIDE DEF size
        <5> QED BY <4>1, <5>1
      <4> QED BY <4>2, <4>3, Zenon
    <3>2. Beginning(s, 0)
      BY <1>5, <1>9, <2>1 DEF Beginning, x
    <3> QED BY <2>1, <3>1, <3>2 DEF MainInv, ContextInv
  <2>2. CASE ~pic.context
    <3>1. SimpleBuffers(s)
      <4> SUFFICES ASSUME NEW c \in Comps PROVE DOMAIN s.buffer[c] = 0..Unit(c) - 1
        BY DEF SimpleBuffers
      <4>1. size(c) = Unit(c)
        <5>1. pic.m + 0 = pic.m
          BY <1>2
        <5> QED BY <2>2, <5>1 DEF Unit
      <4>2. DOMAIN s.buffer[c] = 0..size(c) - 1
        BY <1>5 DEF buffer
      <4> QED BY <4>1, <4>2
    <3>2. Held(s) * pic.m + s.ctr = 0
      BY <1>2, <1>5 DEF Held
    <3>3. SimpleInv(s, 0)
      BY <1>5, <1>9, <2>2, <3>1, <3>2 DEF SimpleInv, x
    <3> QED BY <2>2, <3>3 DEF MainInv
  <2> QED BY <2>1, <2>2
<1>11. 0 \in 0..pic.output_height
  BY <1>2
<1> QED BY <1>1, <1>5, <1>6, <1>7, <1>8, <1>10, <1>11 DEF OutputInv

LEMMA SecondStarts ==
  ASSUME OutputInv, SecondPass
  PROVE  OutputInv'
<1> DEFINE oh == pic.output_height
           q == [s EXCEPT !.mode = "crank_dest", !.pstart = 0, !.pnext = 0]
<1>1. /\ PicFacts /\ StateTypeOK(s) /\ s.moved = TRUE /\ PostInv(s, Len(done)) /\ oh \in Nat \ {0}
      /\ s.mode = "save_and_pass" /\ Len(done) = oh /\ pic' = pic /\ pic.maxv \in 1..4
  BY DEF OutputInv, SecondPass, PicFacts, PicTypeOK
<1>2. s' = q /\ done' = <<>>
  BY DEF SecondPass, StartPass
<1>3. /\ IsState(q) /\ q.mode = "crank_dest" /\ q.pstart = 0 /\ q.pnext = 0 /\ q.full = s.full
      /\ q.ctr = s.ctr /\ q.imcu = s.imcu /\ q.which = s.which /\ q.state = s.state
      /\ q.next = s.next /\ q.togo = s.togo /\ q.image = s.image /\ q.counted = s.counted
      /\ q.moved = TRUE
  BY <1>1 DEF StateTypeOK, IsState, Fields
<1> HIDE DEF q
<1>4. StateTypeOK(q)
  <2>1. "crank_dest" \in Modes
    BY <1>1 DEF StateTypeOK, Modes
  <2> QED BY <1>1, <1>3, <2>1, Zenon DEF StateTypeOK
<1>5. PostInv(q, 0)
  <2>1. s.image = Part(0, oh) /\ s.counted = Part(0, oh)
    BY <1>1 DEF PostInv
  <2>2. Strips(q, 0)
    BY <1>1, <1>3 DEF Strips
  <2> QED BY <1>3, <2>1, <2>2 DEF PostInv
<1>6. <<>> = Part(0, 0) /\ Len(<<>>) = 0 /\ 0 \in 0..oh
  BY <1>1, PartNone
<1>7. Described(q, <<>>)
  BY <1>3, <1>4, <1>5, <1>6 DEF Described
<1> QED BY <1>1, <1>2, <1>7, InvFollows, Zenon

LEMMA Read ==
  ASSUME OutputAssumption, OutputInv, ReadScanlines
  PROVE  OutputInv'
<1>1. PICK room \in Requests, ready \in BOOLEAN : Called(process_data(s, room, ready), ready)
  BY DEF ReadScanlines
<1>2. room \in Nat \ {0} /\ pic' = pic /\ Len(done) < pic.output_height
  BY DEF OutputAssumption, ReadScanlines
<1>3. CASE s.mode # "crank_dest"
  BY <1>1, <1>2, <1>3, ProcessCalled
<1>4. CASE s.mode = "crank_dest"
  <2> DEFINE p == post_process_data(s, room)
             n == Len(done)
  <2>1. process_data(s, room, ready) = p
    BY <1>4 DEF process_data
  <2>2. /\ PicFacts /\ StateTypeOK(s) /\ n \in Nat /\ n < pic.output_height /\ done = Part(0, n)
        /\ PostInv(s, n) /\ pic.output_height \in Nat
    BY <1>2 DEF OutputInv, PicFacts, PicTypeOK
  <2>3. PICK len \in 1..pic.output_height - n :
          /\ p.rows = Part(n, len) /\ Undisturbed(s, p.r) /\ PostInv(p.r, n + len)
          /\ p.r.togo = s.togo /\ p.r.next = s.next /\ p.r.ctr = s.ctr
    <3>1. CrankDelivers(s, p, n)
      BY <1>2, <1>4, <2>2, RowsCranked
    <3> QED BY <3>1 DEF CrankDelivers
  <2>4. Called(p, ready)
    BY <1>1, <2>1
  <2>5. Len(done) = n
    OBVIOUS
  <2> HIDE DEF p, n
  <2>6. StateTypeOK(p.r) /\ p.r.mode = "crank_dest"
    BY <1>4, <2>2, <2>3, Zenon DEF StateTypeOK, Undisturbed
  <2>7. len \in 0..pic.output_height - n /\ len # 0 /\ n <= pic.output_height
    BY <2>2
  <2> QED BY <1>2, <2>2, <2>3, <2>4, <2>5, <2>6, <2>7, CalledIs, Zenon
<1> QED BY <1>3, <1>4

LEMMA StepKeeps ==
  ASSUME OutputAssumption, OutputInv, [OutputNext]_outputVars
  PROVE  OutputInv'
<1>1. CASE Prescan
  <2>1. PICK ready \in BOOLEAN : Called(process_data(s, 0, ready), ready)
    BY <1>1 DEF Prescan
  <2>2. s.mode = "save_and_pass" /\ Len(done) < pic.output_height /\ pic' = pic /\ 0 \in Nat
    BY <1>1 DEF Prescan
  <2> QED BY <2>1, <2>2, ProcessCalled
<1>2. CASE SecondPass
  BY <1>2, SecondStarts
<1>3. CASE ReadScanlines
  BY <1>3, Read
<1>4. CASE OutputDone \/ UNCHANGED outputVars
  <2>1. pic' = pic /\ s' = s /\ done' = done
    BY <1>4 DEF OutputDone, outputVars
  <2>2. Described(s, done) /\ PicFacts
    BY Zenon DEF OutputInv, Described
  <2> QED BY <2>1, <2>2, InvFollows, Zenon
<1> QED BY <1>1, <1>2, <1>3, <1>4 DEF OutputNext

LEMMA InOrder ==
  ASSUME OutputInv
  PROVE  RowsInOrder
<1> DEFINE k == Len(done)
           oh == pic.output_height
<1>1. k \in Nat /\ k <= oh /\ done = Part(0, k) /\ oh \in Nat /\ StateTypeOK(s) /\ PostInv(s, k)
  BY DEF OutputInv, PicFacts, PicTypeOK
<1>2. ASSUME NEW l \in Nat
      PROVE  /\ DOMAIN Part(0, l) = 1..l /\ Len(Part(0, l)) = l
             /\ \A n \in 1..l : \A c \in Comps : Part(0, l)[n][c] = Ideal(c, n - 1)
  <2>1. Len(Part(0, l)) = l /\ \A n \in 1..l : Part(0, l)[n] = IdealRow(0 + n - 1)
    BY PartIs
  <2>2. DOMAIN Part(0, l) = 1..l
    BY DEF Part
  <2>3. \A n \in 1..l : 0 + n - 1 = n - 1
    OBVIOUS
  <2>4. ASSUME NEW n \in 1..l, NEW c \in Comps PROVE Part(0, l)[n][c] = Ideal(c, n - 1)
    <3>1. Part(0, l)[n] = IdealRow(n - 1)
      BY <2>1, <2>3
    <3> QED BY <3>1 DEF IdealRow
  <2> QED BY <2>1, <2>2, <2>4
<1>3. RowsAreRight
  BY <1>1, <1>2 DEF RowsAreRight
<1>4. CountedOnce
  <2> SUFFICES ASSUME s.mode = "crank_dest"
               PROVE  /\ Len(s.counted) = oh
                      /\ \A n \in DOMAIN s.counted : \A c \in Comps : s.counted[n][c] = Ideal(c, n - 1)
    BY DEF CountedOnce
  <2>1. s.counted = Part(0, oh)
    BY <1>1 DEF PostInv
  <2> QED BY <1>1, <1>2, <2>1
<1>5. EveryCallMoves
  BY DEF EveryCallMoves, OutputInv
<1>6. OutputTypeOK
  BY <1>1 DEF OutputTypeOK, StateTypeOK
<1> QED BY <1>3, <1>4, <1>5, <1>6 DEF RowsInOrder

(***************************************************************************)
(* Every row of the picture is delivered once, in order, made of the rows  *)
(* of the components that belong to it and of their right neighbours,      *)
(* whatever the size and the sampling of the picture, the scale, the       *)
(* methods, the numbers of rows asked for, and wherever the source runs    *)
(* dry (read_scanlines with jdmainct.c, jdsample.c, jdmerge.c and          *)
(* jdpostct.c).  With two-pass quantization the strips have at most two    *)
(* rows: post_process_2pass is wrong for longer ones.                      *)
(***************************************************************************)
THEOREM RowsInOrderHolds ==
  ASSUME \A p \in Pictures : SmallStrips(p)
  PROVE  OutputSpec => []RowsInOrder
<1>1. OutputInit => OutputInv
  BY OutputAssumption, Started
<1>2. OutputInv /\ [OutputNext]_outputVars => OutputInv'
  BY OutputAssumption, StepKeeps
<1>3. OutputInv => RowsInOrder
  BY InOrder
<1> QED BY <1>1, <1>2, <1>3, PTL DEF OutputSpec
=============================================================================

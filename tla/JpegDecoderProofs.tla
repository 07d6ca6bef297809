-------------------------- MODULE JpegDecoderProofs --------------------------
(***************************************************************************)
(* The decompressor for images of any size, files of any kind cut anywhere,*)
(* and any order of calls and arriving data.                               *)
(***************************************************************************)
EXTENDS JpegDecoder, NumberLemmas

N == Len(file.scans)
End == Len(Unit)

(* Where the header of scan n and the MCU of the cell c in it are.         *)
At(n) == 3 + (n - 1) * ScanUnits
Place(n, c) == At(n) + 1 + c.row * Cols + c.col

-----------------------------------------------------------------------------
(* What is where in a file. *)

LEMMA SizesNat == Rows \in Nat \ {0} /\ Cols \in Nat \ {0} /\ ScanUnits \in Nat \ {0} /\ Rows * Cols \in Nat \ {0}
<1>1. Rows \in Nat \ {0} /\ Cols \in Nat \ {0}
  BY FilesAssumption
<1>2. Rows * Cols \in Nat \ {0}
  BY <1>1, SMT
<1> QED BY <1>1, <1>2 DEF ScanUnits

(* The position of a cell in its scan, and back. *)
LEMMA CellPosition ==
  ASSUME NEW row \in 0 .. Rows - 1, NEW col \in 0 .. Cols - 1
  PROVE  /\ row * Cols + col \in 0 .. Rows * Cols - 1
         /\ (row * Cols + col) \div Cols = row /\ (row * Cols + col) % Cols = col
<1> DEFINE a == row * Cols + col
<1>1. Rows \in Nat \ {0} /\ Cols \in Nat \ {0}
  BY SizesNat
<1>2. a \in Nat /\ row * Cols <= a /\ a < (row + 1) * Cols
  BY <1>1, SMT
<1>3. (row + 1) * Cols <= Rows * Cols
  <2>1. row + 1 <= Rows /\ row + 1 \in Nat
    BY <1>1
  <2> QED BY <2>1, <1>1, SMT
<1>4. row = a \div Cols
  <2> HIDE DEF a
  <2> QED BY <1>1, <1>2, QuotientIs
<1>5. a = Cols * (a \div Cols) + (a % Cols) /\ a % Cols \in 0 .. Cols - 1
  <2> HIDE DEF a
  <2> QED BY <1>1, <1>2, Division
<1>6. a % Cols = col
  <2>1. a = Cols * row + (a % Cols)
    BY <1>4, <1>5
  <2> DEFINE x == a % Cols
  <2>2. x \in Int /\ row * Cols + col = Cols * row + x
    BY <1>5, <2>1
  <2> HIDE DEF x
  <2>3. x = col
    BY <2>2, <1>1, SMT
  <2> QED BY <2>3 DEF x
<1>7. a < Rows * Cols /\ Rows * Cols \in Nat
  BY <1>1, <1>2, <1>3, SMT
<1> QED BY <1>2, <1>4, <1>6, <1>7

LEMMA CellAt ==
  ASSUME NEW k \in 0 .. Rows * Cols - 1
  PROVE  /\ k \div Cols \in 0 .. Rows - 1 /\ k % Cols \in 0 .. Cols - 1
         /\ k = (k \div Cols) * Cols + (k % Cols)
<1> DEFINE q == k \div Cols
           r == k % Cols
<1>1. Rows \in Nat \ {0} /\ Cols \in Nat \ {0} /\ Rows * Cols \in Nat /\ k \in Nat
  BY SizesNat
<1>2. q \in Nat /\ r \in 0 .. Cols - 1 /\ k = Cols * q + r
  BY <1>1, Division
<1> HIDE DEF q, r
<1>3. q < Rows
  <2> SUFFICES ASSUME ~(q < Rows) PROVE FALSE
    OBVIOUS
  <2>1. Rows <= q
    BY <1>1, <1>2
  <2>2. Rows * Cols <= q * Cols
    BY <2>1, <1>1, <1>2, SMT
  <2> QED BY <2>2, <1>1, <1>2
<1> QED BY <1>1, <1>2, <1>3 DEF q, r

(* The same for the scans of a file. *)
LEMMA ScanPosition ==
  ASSUME NEW n \in Nat \ {0}, NEW k \in 0 .. ScanUnits - 1
  PROVE  /\ (n - 1) * ScanUnits + k \in Nat
         /\ ((n - 1) * ScanUnits + k) \div ScanUnits = n - 1
         /\ ((n - 1) * ScanUnits + k) % ScanUnits = k
<1> DEFINE a == (n - 1) * ScanUnits + k
           m == n - 1
<1>1. ScanUnits \in Nat \ {0} /\ m \in Nat
  BY SizesNat
<1>2. a \in Nat /\ m * ScanUnits <= a /\ a < (m + 1) * ScanUnits /\ a = m * ScanUnits + k
  BY <1>1, SMT
<1> HIDE DEF m
<1>4. m = a \div ScanUnits
  <2> HIDE DEF a
  <2> QED BY <1>1, <1>2, QuotientIs
<1>5. a = ScanUnits * (a \div ScanUnits) + (a % ScanUnits) /\ a % ScanUnits \in 0 .. ScanUnits - 1
  <2> HIDE DEF a
  <2> QED BY <1>1, <1>2, Division
<1>6. a % ScanUnits = k
  <2>1. a = ScanUnits * m + (a % ScanUnits)
    BY <1>4, <1>5
  <2> DEFINE x == a % ScanUnits
  <2>2. x \in Int /\ m * ScanUnits + k = ScanUnits * m + x
    BY <1>2, <1>5, <2>1
  <2> HIDE DEF x
  <2>3. x = k
    BY <2>2, <1>1, SMT
  <2> QED BY <2>3 DEF x
<1> QED BY <1>2, <1>4, <1>6 DEF m

(* One sequence after another. *)
LEMMA ConcatenationIs ==
  ASSUME NEW S, NEW a \in Seq(S), NEW b \in Seq(S)
  PROVE  /\ a \o b \in Seq(S) /\ Len(a) \in Nat /\ Len(b) \in Nat /\ Len(a \o b) = Len(a) + Len(b)
         /\ \A i \in 1 .. Len(a) : (a \o b)[i] = a[i]
         /\ \A i \in 1 .. Len(b) : (a \o b)[Len(a) + i] = b[i]
  OBVIOUS

Units == [is : {"SOI", "SOF", "SOS", "EOI"}] \cup [is : {"MCU"}, scan : Int, row : Int, col : Int]

LEMMA ScanUnitIs ==
  ASSUME NEW n \in Int, NEW k \in 0 .. ScanUnits - 1
  PROVE  ScanUnit(n, k) \in Units
<1>1. CASE k = 0
  BY <1>1 DEF ScanUnit, Units
<1>2. CASE k # 0
  <2>1. (k - 1) \div Cols \in Int /\ (k - 1) % Cols \in Int
    BY SizesNat, Division
  <2> QED BY <1>2, <2>1 DEF ScanUnit, Units
<1> QED BY <1>1, <1>2

(* A file of no scans ends after its SOI; one of N has the header of each  *)
(* scan and its MCUs in their order, as far as it goes.                    *)
LEMMA WholeIs ==
  ASSUME NEW f \in Files
  PROVE  /\ Whole(f) \in Seq(Units) /\ Len(f.scans) \in Nat
         /\ Len(f.scans) = 0 => Len(Whole(f)) = 1
         /\ Len(f.scans) # 0 => Len(Whole(f)) = 2 + Len(f.scans) * ScanUnits
         /\ Whole(f)[1] = [is |-> "SOI"]
         /\ Len(Whole(f)) >= 2 => Whole(f)[2] = [is |-> "SOF"]
         /\ \A i \in 3 .. Len(Whole(f)) :
              Whole(f)[i] = ScanUnit(1 + (i - 3) \div ScanUnits, (i - 3) % ScanUnits)
<1>1. f.scans \in Seq({"dc", "ac"}) /\ Len(f.scans) \in Nat /\ f.cut \in Nat
  BY FilesAssumption
<1>2. CASE f.scans = <<>>
  <2> DEFINE w == <<[is |-> "SOI"]>>
  <2>1. Whole(f) = w
    BY <1>2 DEF Whole
  <2>2. w \in Seq(Units) /\ Len(w) = 1 /\ w[1] = [is |-> "SOI"]
    BY DEF Units
  <2>3. Len(f.scans) = 0
    BY <1>2
  <2> HIDE DEF w
  <2> QED BY <2>1, <2>2, <2>3
<1>3. CASE f.scans # <<>>
  <2> DEFINE M == Len(f.scans) * ScanUnits
             g == [i \in 1 .. M |-> ScanUnit(1 + (i - 1) \div ScanUnits, (i - 1) % ScanUnits)]
             h == <<[is |-> "SOI"], [is |-> "SOF"]>>
  <2>1. Whole(f) = h \o g
    BY <1>3 DEF Whole
  <2>2. M \in Nat /\ Len(f.scans) # 0
    <3>1. Len(f.scans) # 0
      BY <1>1, <1>3, EmptySeq
    <3> QED BY <1>1, <3>1, SizesNat, SMT
  <2>3. \A i \in 1 .. M : ScanUnit(1 + (i - 1) \div ScanUnits, (i - 1) % ScanUnits) \in Units
    <3> SUFFICES ASSUME NEW i \in 1 .. M
                 PROVE ScanUnit(1 + (i - 1) \div ScanUnits, (i - 1) % ScanUnits) \in Units
      OBVIOUS
    <3>1. i - 1 \in Int /\ ScanUnits \in Nat \ {0}
      BY SizesNat, <2>2
    <3>2. 1 + (i - 1) \div ScanUnits \in Int /\ (i - 1) % ScanUnits \in 0 .. ScanUnits - 1
      BY <3>1, Division
    <3> QED BY <3>2, ScanUnitIs
  <2>4. g \in Seq(Units) /\ Len(g) = M
    <3> HIDE DEF M
    <3> QED BY <2>2, <2>3
  <2>5. h \in Seq(Units) /\ Len(h) = 2 /\ h[1] = [is |-> "SOI"] /\ h[2] = [is |-> "SOF"]
    BY DEF Units
  <2>6. \A i \in 1 .. M : g[i] = ScanUnit(1 + (i - 1) \div ScanUnits, (i - 1) % ScanUnits)
    OBVIOUS
  <2> HIDE DEF h, g, M
  <2>7. /\ h \o g \in Seq(Units) /\ Len(h \o g) = 2 + M
        /\ (h \o g)[1] = h[1] /\ (h \o g)[2] = h[2]
        /\ \A i \in 3 .. 2 + M : (h \o g)[i] = g[i - 2]
    <3>1. /\ h \o g \in Seq(Units) /\ Len(h \o g) = 2 + M
          /\ \A i \in 1 .. 2 : (h \o g)[i] = h[i]
          /\ \A i \in 1 .. M : (h \o g)[2 + i] = g[i]
      <4>1. /\ h \o g \in Seq(Units) /\ Len(h \o g) = Len(h) + Len(g)
            /\ \A i \in 1 .. Len(h) : (h \o g)[i] = h[i]
            /\ \A i \in 1 .. Len(g) : (h \o g)[Len(h) + i] = g[i]
        <5>1. h \in Seq(Units) /\ g \in Seq(Units)
          BY <2>4, <2>5
        <5> QED BY ONLY <5>1, ConcatenationIs
      <4> QED BY ONLY <4>1, <2>4, <2>5, Zenon
    <3>2. ASSUME NEW i \in 3 .. 2 + M
          PROVE  (h \o g)[i] = g[i - 2]
      <4>1. i - 2 \in 1 .. M /\ 2 + (i - 2) = i
        BY <2>2
      <4> QED BY <4>1, <3>1
    <3>3. 1 \in 1 .. 2 /\ 2 \in 1 .. 2
      OBVIOUS
    <3> QED BY ONLY <3>1, <3>2, <3>3, Zenon
  <2>8. ASSUME NEW i \in 3 .. 2 + M
        PROVE  (h \o g)[i] = ScanUnit(1 + (i - 3) \div ScanUnits, (i - 3) % ScanUnits)
    <3>1. i - 2 \in 1 .. M /\ (i - 2) - 1 = i - 3
      BY <2>2
    <3> QED BY <3>1, <2>6, <2>7
  <2> QED BY <2>1, <2>2, <2>5, <2>7, <2>8, <1>1 DEF M
<1> QED BY <1>2, <1>3

(* What was cut off is made up for by an EOI. *)
LEMMA UnitIs ==
  ASSUME file \in Files
  PROVE  /\ N \in Nat /\ End \in Nat \ {0} /\ DOMAIN Unit = 1 .. End
         /\ N = 0 => End <= 2
         /\ End <= 3 + N * ScanUnits
         /\ Unit[End].is = "EOI"
         /\ \A i \in 1 .. End - 1 :
              /\ i = 1 => Unit[i].is = "SOI"
              /\ i = 2 => Unit[i].is = "SOF"
              /\ i > 2 => Unit[i] = ScanUnit(1 + (i - 3) \div ScanUnits, (i - 3) % ScanUnits)
<1>1. N \in Nat /\ file.cut \in Nat
  BY FilesAssumption DEF N
<1> DEFINE w == Whole(file)
           K == Len(w) - file.cut
           v == SubSeq(w, 1, K)
           L == IF K < 1 THEN 0 ELSE K
           e == <<[is |-> "EOI"]>>
<1>2. /\ w \in Seq(Units) /\ Len(w) \in Nat
      /\ N = 0 => Len(w) = 1
      /\ N # 0 => Len(w) = 2 + N * ScanUnits
      /\ w[1] = [is |-> "SOI"]
      /\ Len(w) >= 2 => w[2] = [is |-> "SOF"]
      /\ \A i \in 3 .. Len(w) : w[i] = ScanUnit(1 + (i - 3) \div ScanUnits, (i - 3) % ScanUnits)
  BY WholeIs DEF N
<1>3. Unit = v \o e
  BY DEF Unit, fill_input_buffer
<1>4. e \in Seq(Units) /\ Len(e) = 1 /\ e[1].is = "EOI"
  BY DEF Units
<1> HIDE DEF w, e
<1>5. K \in Int /\ K <= Len(w)
  BY <1>1, <1>2
<1>6. v \in Seq(Units) /\ Len(v) = L /\ \A i \in 1 .. L : v[i] = w[i]
  BY <1>2, <1>5
<1>7. L \in Nat /\ L <= Len(w) 
  BY <1>5, <1>2
<1> HIDE DEF v, L, K
<1>8. /\ Unit \in Seq(Units) /\ Len(Unit) = L + 1 /\ Unit[L + 1] = e[1] /\ DOMAIN Unit = 1 .. L + 1
      /\ \A i \in 1 .. L : Unit[i] = v[i]
  <2>1. /\ v \o e \in Seq(Units) /\ Len(v \o e) = L + 1
        /\ \A i \in 1 .. L : (v \o e)[i] = v[i]
        /\ \A i \in 1 .. 1 : (v \o e)[L + i] = e[i]
    BY ONLY <1>4, <1>6, ConcatenationIs
  <2> QED BY <2>1, <1>3, <1>7
<1>9. N * ScanUnits \in Nat
  BY <1>1, SizesNat, SMT
<1>10. N = 0 => N * ScanUnits = 0
  BY SizesNat, SMT
<1> DEFINE M == N * ScanUnits
<1>11. M \in Nat /\ (N = 0 => Len(w) = 1 /\ M = 0) /\ (N # 0 => Len(w) = 2 + M)
  BY <1>2, <1>9, <1>10
<1>12. End = L + 1 /\ (N = 0 => End <= 2) /\ End <= 3 + M
  <2> HIDE DEF M
  <2> QED BY <1>7, <1>8, <1>11, <1>2 DEF End
<1>13. ASSUME NEW i \in 1 .. End - 1
       PROVE  /\ i = 1 => Unit[i].is = "SOI"
              /\ i = 2 => Unit[i].is = "SOF"
              /\ i > 2 => Unit[i] = ScanUnit(1 + (i - 3) \div ScanUnits, (i - 3) % ScanUnits)
  <2>1. i \in 1 .. L /\ i <= Len(w) /\ Unit[i] = w[i]
    BY <1>12, <1>7, <1>6, <1>8
  <2> QED BY <2>1, <1>2, <1>7
<1> QED BY <1>1, <1>4, <1>7, <1>8, <1>12, <1>13

LEMMA PlaceIs ==
  ASSUME NEW n \in Nat \ {0}, NEW c \in Cell
  PROVE  /\ At(n) \in Nat /\ At(n) >= 3 /\ Place(n, c) \in Nat /\ At(n + 1) = At(n) + 1 + Rows * Cols
         /\ At(n) < Place(n, c) /\ Place(n, c) <= At(n) + Rows * Cols
<1>1. c.row \in 0 .. Rows - 1 /\ c.col \in 0 .. Cols - 1
  BY DEF Cell
<1>2. c.row * Cols + c.col \in 0 .. Rows * Cols - 1
  BY <1>1, CellPosition
<1> DEFINE a == (n - 1) * ScanUnits
           b == c.row * Cols
           e == Rows * Cols
<1>3. a \in Nat /\ b \in Nat /\ e \in Nat /\ n * ScanUnits = a + ScanUnits
  BY <1>1, SizesNat, SMT
<1>4. (n + 1) - 1 = n /\ ScanUnits = 1 + e
  BY DEF ScanUnits
<1>5. At(n) = 3 + a /\ Place(n, c) = At(n) + 1 + b + c.col /\ At(n + 1) = 3 + (a + ScanUnits)
  BY <1>3, <1>4, Zenon DEF At, Place
<1>6. c.col \in Int /\ b + c.col \in 0 .. e - 1
  BY <1>1, <1>2
<1> HIDE DEF a, b, e
<1>7. At(n) \in Nat /\ At(n) >= 3 /\ Place(n, c) \in Nat /\ At(n + 1) = At(n) + 1 + e
  BY <1>3, <1>4, <1>5, <1>6
<1>8. At(n) < Place(n, c) /\ Place(n, c) <= At(n) + e
  BY <1>3, <1>5, <1>6
<1> QED BY <1>7, <1>8 DEF e

(* What is where: the headers of the scans and the MCUs of a cell. *)
LEMMA LayoutIs ==
  ASSUME file \in Files
  PROVE  /\ \A n \in Nat \ {0} : At(n) < End =>
               /\ n <= N /\ Unit[At(n)] = [is |-> "SOS"]
         /\ \A n \in Nat \ {0}, c \in Cell : Place(n, c) < End =>
               /\ n <= N
               /\ Unit[Place(n, c)] = [is |-> "MCU", scan |-> n, row |-> c.row, col |-> c.col]
<1>1. /\ N \in Nat /\ End \in Nat \ {0} /\ End <= 3 + N * ScanUnits
      /\ \A i \in 1 .. End - 1 :
              i > 2 => Unit[i] = ScanUnit(1 + (i - 3) \div ScanUnits, (i - 3) % ScanUnits)
  BY UnitIs
<1>2. ASSUME NEW n \in Nat \ {0}, NEW k \in 0 .. ScanUnits - 1, At(n) + k < End
      PROVE  n <= N /\ Unit[At(n) + k] = ScanUnit(n, k)
  <2> DEFINE i == At(n) + k
             a == (n - 1) * ScanUnits
  <2>1. /\ a + k \in Nat /\ (a + k) \div ScanUnits = n - 1 /\ (a + k) % ScanUnits = k
    BY ScanPosition
  <2>2. a \in Nat /\ ScanUnits \in Nat
    BY SizesNat, SMT
  <2>3. i = 3 + a + k
    BY DEF At
  <2> HIDE DEF a
  <2>4. i \in 1 .. End - 1 /\ i > 2 /\ i - 3 = a + k
    BY <1>1, <1>2, <2>2, <2>3
  <2>5. 1 + (i - 3) \div ScanUnits = n /\ (i - 3) % ScanUnits = k
    BY <2>1, <2>4
  <2>6. n <= N
    <3> SUFFICES ASSUME ~(n <= N) PROVE FALSE
      OBVIOUS
    <3>1. N <= n - 1 /\ n - 1 \in Nat
      BY <1>1
    <3>2. N * ScanUnits <= a
      BY <3>1, <1>1, <2>2, SMT DEF a
    <3>3. N * ScanUnits \in Nat
      BY <1>1, <2>2, SMT
    <3> DEFINE M == N * ScanUnits
    <3>4. M \in Nat /\ M <= a /\ End <= 3 + M
      BY <3>2, <3>3, <1>1
    <3> HIDE DEF M
    <3> QED BY <3>4, <1>1, <1>2, <2>2, <2>3
  <2> HIDE DEF i
  <2>7. Unit[i] = ScanUnit(n, k)
    BY <1>1, <2>4, <2>5
  <2> QED BY <2>6, <2>7 DEF i
<1>3. ASSUME NEW n \in Nat \ {0}, At(n) < End
      PROVE  n <= N /\ Unit[At(n)] = [is |-> "SOS"]
  <2>1. 0 \in 0 .. ScanUnits - 1 /\ At(n) + 0 = At(n)
    <3>1. \E c \in Cell : TRUE
      <4>1. [row |-> 0, col |-> 0] \in Cell
        BY SizesNat DEF Cell
      <4> QED BY <4>1
    <3> QED BY <3>1, PlaceIs, SizesNat
  <2>2. n <= N /\ Unit[At(n)] = ScanUnit(n, 0)
    BY <1>2, <1>3, <2>1
  <2> QED BY <2>2 DEF ScanUnit
<1>4. ASSUME NEW n \in Nat \ {0}, NEW c \in Cell, Place(n, c) < End
      PROVE  /\ n <= N
             /\ Unit[Place(n, c)] = [is |-> "MCU", scan |-> n, row |-> c.row, col |-> c.col]
  <2> DEFINE k == c.row * Cols + c.col
  <2>1. c.row \in 0 .. Rows - 1 /\ c.col \in 0 .. Cols - 1
    BY DEF Cell
  <2>2. k \in 0 .. Rows * Cols - 1 /\ k \div Cols = c.row /\ k % Cols = c.col
    BY <2>1, CellPosition
  <2>3. Place(n, c) = At(n) + 1 + c.row * Cols + c.col /\ At(n) \in Nat /\ c.row * Cols \in Int
    BY <2>1, PlaceIs, SizesNat, SMT DEF Place
  <2>3a. Place(n, c) = At(n) + (k + 1)
    <3> DEFINE b == c.row * Cols
    <3>1. b \in Int /\ Place(n, c) = At(n) + 1 + b + c.col /\ k = b + c.col
      BY <2>3
    <3> HIDE DEF b, k
    <3> QED BY <3>1, <2>1, <2>3
  <2> HIDE DEF k
  <2>4. k + 1 \in 0 .. ScanUnits - 1 /\ k + 1 # 0 /\ (k + 1) - 1 = k
    BY <2>2, SizesNat DEF ScanUnits
  <2>5. n <= N /\ Unit[Place(n, c)] = ScanUnit(n, k + 1)
    BY <1>2, <1>4, <2>3a, <2>4
  <2>6. ScanUnit(n, k + 1) = [is |-> "MCU", scan |-> n, row |-> c.row, col |-> c.col]
    BY <2>2, <2>4 DEF ScanUnit
  <2> QED BY <2>5, <2>6
<1> QED BY <1>3, <1>4

(* Every other unit of a file is one of these. *)
LEMMA UnitsAre ==
  ASSUME file \in Files, NEW i \in 1 .. End
  PROVE  /\ Unit[i].is = "MCU" =>
              /\ i < End
              /\ \E n \in Nat \ {0}, c \in Cell : i = Place(n, c)
         /\ Unit[i].is = "SOS" => i < End /\ \E n \in Nat \ {0} : i = At(n)
         /\ Unit[i].is = "EOI" => i = End
<1>1. /\ End \in Nat \ {0} /\ Unit[End].is = "EOI"
      /\ \A j \in 1 .. End - 1 :
              /\ j = 1 => Unit[j].is = "SOI"
              /\ j = 2 => Unit[j].is = "SOF"
              /\ j > 2 => Unit[j] = ScanUnit(1 + (j - 3) \div ScanUnits, (j - 3) % ScanUnits)
  BY UnitIs
<1>2. CASE i = End \/ i <= 2
  BY <1>1, <1>2
<1>3. CASE i < End /\ i > 2
  <2> DEFINE n == 1 + (i - 3) \div ScanUnits
             k == (i - 3) % ScanUnits
  <2>1. Unit[i] = ScanUnit(n, k)
    BY <1>1, <1>3
  <2>2. ScanUnits \in Nat \ {0} /\ i - 3 \in Nat
    BY <1>3, SizesNat
  <2>3. (i - 3) \div ScanUnits \in Nat /\ k \in 0 .. ScanUnits - 1
        /\ i - 3 = ScanUnits * ((i - 3) \div ScanUnits) + k
    <3> DEFINE a == i - 3
    <3>1. a \in Nat /\ a \in Int
      BY <2>2
    <3> HIDE DEF a
    <3>2. a \div ScanUnits \in Nat /\ (a % ScanUnits) \in 0 .. ScanUnits - 1
          /\ a = ScanUnits * (a \div ScanUnits) + (a % ScanUnits)
      BY <2>2, <3>1, Division
    <3> QED BY <3>2 DEF a
  <2>4. n \in Nat \ {0} /\ n - 1 = (i - 3) \div ScanUnits
    <3> DEFINE q == (i - 3) \div ScanUnits
    <3>1. q \in Nat
      BY <2>3
    <3> HIDE DEF q
    <3> QED BY <3>1 DEF q
  <2>5. ScanUnits * ((i - 3) \div ScanUnits) = (n - 1) * ScanUnits
    <3> DEFINE m == n - 1
    <3>1. m \in Nat /\ m = (i - 3) \div ScanUnits
      BY <2>4
    <3> HIDE DEF m
    <3>2. ScanUnits * m = m * ScanUnits
      BY <3>1, <2>2, SMT
    <3> QED BY <3>1, <3>2 DEF m
  <2> HIDE DEF n, k
  <2> DEFINE a == (n - 1) * ScanUnits
  <2>6. a \in Nat /\ i - 3 = a + k
    <3>1. a \in Nat
      BY <2>2, <2>4, SMT
    <3> QED BY <3>1, <2>3, <2>5
  <2>7. i = At(n) + k /\ At(n) = 3 + a
    <3>1. At(n) = 3 + a
      BY DEF At
    <3> HIDE DEF a
    <3> QED BY <3>1, <2>6, <2>3
  <2>8. CASE k = 0
    <3>1. Unit[i].is = "SOS"
      BY <2>1, <2>8 DEF ScanUnit
    <3>2. i = At(n)
      BY <2>6, <2>7, <2>8
    <3> QED BY <3>1, <3>2, <2>4, <1>3
  <2>9. CASE k # 0
    <3> DEFINE c == [row |-> (k - 1) \div Cols, col |-> (k - 1) % Cols]
    <3>1. k - 1 \in 0 .. Rows * Cols - 1
      BY <2>3, <2>9, SizesNat DEF ScanUnits
    <3>2. /\ c.row \in 0 .. Rows - 1 /\ c.col \in 0 .. Cols - 1
          /\ k - 1 = c.row * Cols + c.col
      BY <3>1, CellAt
    <3>3. c \in Cell
      BY <3>2 DEF Cell
    <3>4. Unit[i].is = "MCU"
      BY <2>1, <2>9 DEF ScanUnit
    <3> HIDE DEF c
    <3>5. Place(n, c) = i
      <4> DEFINE b == c.row * Cols
      <4>1. b \in Int
        BY <3>2, SizesNat, SMT
      <4>2. Place(n, c) = At(n) + 1 + b + c.col /\ k - 1 = b + c.col
        BY <3>2 DEF Place
      <4> HIDE DEF b, a
      <4> QED BY <4>1, <4>2, <3>2, <2>3, <2>6, <2>7
    <3> QED BY <3>3, <3>4, <3>5, <2>4, <1>3
  <2> QED BY <2>8, <2>9
<1> QED BY <1>1, <1>2, <1>3

(* Two places are the same only if cells and scans are; later scans are    *)
(* further on.                                                             *)
LEMMA PlacesOrdered ==
  ASSUME NEW n \in Nat \ {0}, NEW m \in Nat \ {0}, NEW c \in Cell
  PROVE  /\ m <= n => Place(m, c) <= Place(n, c) /\ At(m) <= At(n)
         /\ m < n => Place(m, c) < At(n)
<1> DEFINE a == (n - 1) * ScanUnits
           b == (m - 1) * ScanUnits
           k == c.row * Cols + c.col
<1>1. c.row \in 0 .. Rows - 1 /\ c.col \in 0 .. Cols - 1
  BY DEF Cell
<1>2. k \in 0 .. Rows * Cols - 1 /\ c.row * Cols \in Int
  <2>1. c.row * Cols \in Int
    BY <1>1, SizesNat, SMT
  <2> QED BY <2>1, <1>1, CellPosition
<1>3. a \in Nat /\ b \in Nat /\ (m <= n => b <= a) /\ (m < n => b + ScanUnits <= a)
  <2> DEFINE p == n - 1
             q == m - 1
  <2>1. p \in Nat /\ q \in Nat /\ (m <= n => q <= p) /\ (m < n => q + 1 <= p) /\ ScanUnits \in Nat
    BY SizesNat
  <2> HIDE DEF p, q
  <2>2. p * ScanUnits \in Nat /\ q * ScanUnits \in Nat
    BY <2>1, SMT
  <2>3. q <= p => q * ScanUnits <= p * ScanUnits
    BY <2>1, SMT
  <2>4. q + 1 <= p => q * ScanUnits + ScanUnits <= p * ScanUnits
    <3>1. q + 1 <= p => (q + 1) * ScanUnits <= p * ScanUnits
      BY <2>1, SMT
    <3>2. (q + 1) * ScanUnits = q * ScanUnits + ScanUnits
      BY <2>1, SMT
    <3> QED BY <3>1, <3>2
  <2> QED BY <2>1, <2>2, <2>3, <2>4 DEF p, q
<1>4. At(n) = 3 + a /\ At(m) = 3 + b
  BY DEF At
<1>5. Place(n, c) = 3 + a + 1 + k /\ Place(m, c) = 3 + b + 1 + k
  <2> DEFINE e == c.row * Cols
  <2>1. e \in Int /\ k = e + c.col /\ Place(n, c) = At(n) + 1 + e + c.col /\ Place(m, c) = At(m) + 1 + e + c.col
    BY <1>2 DEF Place
  <2> HIDE DEF e, k, a, b
  <2> QED BY <2>1, <1>1, <1>3, <1>4
<1>6. ScanUnits = 1 + Rows * Cols /\ Rows * Cols \in Nat
  BY SizesNat DEF ScanUnits
<1> HIDE DEF a, b, k
<1> QED BY <1>2, <1>3, <1>4, <1>5, <1>6

(* What a decoded block is: the last scan up to n that the file has an MCU *)
(* of the cell in.                                                         *)
LEMMA FromFileIs ==
  ASSUME file \in Files, NEW c \in Cell, NEW n \in Nat
  PROVE  /\ FromFile(c, n) \in 0 .. n
         /\ FromFile(c, n) # 0 => Place(FromFile(c, n), c) < End
         /\ \A m \in 1 .. n : Place(m, c) < End => m <= FromFile(c, n)
<1> DEFINE here == {i \in DOMAIN Unit : /\ Unit[i].is = "MCU" /\ Unit[i].scan <= n
                                        /\ Unit[i].row = c.row /\ Unit[i].col = c.col}
           P == {m \in 1 .. n : Place(m, c) < End}
<1>1. FromFile(c, n) = IF here = {} THEN 0 ELSE Unit[CHOOSE i \in here : \A j \in here : j <= i].scan
  BY DEF FromFile
<1>2. End \in Nat \ {0} /\ DOMAIN Unit = 1 .. End
  BY UnitIs
<1>3. ASSUME NEW m \in P
      PROVE  Place(m, c) \in here /\ Unit[Place(m, c)].scan = m /\ m \in 1 .. n /\ Place(m, c) < End
  <2>1. m \in Nat \ {0} /\ m <= n /\ Place(m, c) < End
    BY <1>3
  <2>2. Unit[Place(m, c)] = [is |-> "MCU", scan |-> m, row |-> c.row, col |-> c.col]
    BY <2>1, LayoutIs
  <2>3. Place(m, c) \in 1 .. End
    <3>1. At(m) \in Nat /\ At(m) >= 3 /\ Place(m, c) \in Nat /\ At(m) < Place(m, c)
      BY <2>1, PlaceIs
    <3> QED BY <3>1, <2>1, <1>2
  <2> QED BY <2>1, <2>2, <2>3, <1>2
<1>4. ASSUME NEW i \in here
      PROVE  \E m \in P : i = Place(m, c)
  <2>1. i \in 1 .. End /\ Unit[i].is = "MCU" /\ Unit[i].scan <= n /\ Unit[i].row = c.row /\ Unit[i].col = c.col
    BY <1>2
  <2>2. PICK m \in Nat \ {0}, b \in Cell : i = Place(m, b)
    BY <2>1, UnitsAre
  <2>3. i < End
    BY <2>1, UnitsAre
  <2>4. Unit[i] = [is |-> "MCU", scan |-> m, row |-> b.row, col |-> b.col]
    BY <2>2, <2>3, LayoutIs
  <2>5. m <= n /\ b.row = c.row /\ b.col = c.col
    BY <2>1, <2>4
  <2>6. b = c
    BY <2>5 DEF Cell
  <2> QED BY <2>2, <2>3, <2>5, <2>6
<1>5. P \subseteq 1 .. n
  OBVIOUS
<1>6. \A m \in 1 .. n : Place(m, c) < End => m \in P
  OBVIOUS
<1> HIDE DEF here, P
<1>7. CASE P = {}
  <2>1. here = {}
    BY <1>4, <1>7
  <2> QED BY <1>1, <2>1, <1>6, <1>7
<1>8. CASE P # {}
  <2>1. P \in SUBSET (0 .. n)
    BY <1>5
  <2>2. PICK g \in P : \A m \in P : m <= g
    BY <1>8, <2>1, HasGreatest
  <2>3. Place(g, c) \in here /\ Unit[Place(g, c)].scan = g /\ g \in 1 .. n /\ Place(g, c) < End
    BY <1>3
  <2>4. \A j \in here : j <= Place(g, c)
    <3> SUFFICES ASSUME NEW j \in here PROVE j <= Place(g, c)
      OBVIOUS
    <3>1. PICK m \in P : j = Place(m, c)
      BY <1>4
    <3>2. m \in Nat \ {0} /\ g \in Nat \ {0} /\ m <= g
      BY <1>5, <2>2
    <3> QED BY <3>1, <3>2, PlacesOrdered
  <2>5. \A j \in here : j \in Int
    BY <1>4, <1>5, PlaceIs
  <2> DEFINE i == CHOOSE x \in here : \A j \in here : j <= x
  <2>6. i \in here /\ \A j \in here : j <= i
    BY <2>3, <2>4
  <2> HIDE DEF i
  <2>7. i = Place(g, c)
    BY <2>3, <2>4, <2>5, <2>6
  <2>8. FromFile(c, n) = g
    BY <1>1, <2>3, <2>7 DEF i
  <2> QED BY <2>2, <2>3, <2>8, <1>6
<1> QED BY <1>7, <1>8

LEMMA FromFileSteps ==
  ASSUME file \in Files, NEW c \in Cell, NEW n \in Nat
  PROVE  /\ n > 0 /\ Place(n, c) < End => FromFile(c, n) = n
         /\ n > 0 /\ End <= Place(n, c) => FromFile(c, n) = FromFile(c, n - 1)
         /\ \A m \in 0 .. n : FromFile(c, m) <= FromFile(c, n)
         /\ \A m \in 0 .. n : End <= Place(m + 1, c) => FromFile(c, n) = FromFile(c, m)
<1> DEFINE F(k) == FromFile(c, k)
<1>1. \A k \in Nat : /\ F(k) \in 0 .. k /\ (F(k) # 0 => Place(F(k), c) < End)
                     /\ \A m \in 1 .. k : Place(m, c) < End => m <= F(k)
  BY FromFileIs
<1>2. End \in Nat
  BY UnitIs
<1>3. \A m \in Nat \ {0} : Place(m, c) \in Nat
  BY PlaceIs
<1> HIDE DEF F
<1>4. n > 0 /\ Place(n, c) < End => F(n) = n
  <2>1. n > 0 => n \in 1 .. n
    OBVIOUS
  <2> QED BY <2>1, <1>1
<1>5. \A m \in 0 .. n : F(m) <= F(n)
  <2> SUFFICES ASSUME NEW m \in 0 .. n PROVE F(m) <= F(n)
    OBVIOUS
  <2>1. m \in Nat /\ F(m) \in 0 .. m /\ F(n) \in 0 .. n
    BY <1>1
  <2>2. CASE F(m) = 0
    BY <2>1, <2>2
  <2>3. CASE F(m) # 0
    <3>1. F(m) \in 1 .. n /\ Place(F(m), c) < End
      BY <2>1, <2>3, <1>1
    <3> QED BY <3>1, <1>1
  <2> QED BY <2>2, <2>3
<1>6. \A m \in 0 .. n : End <= Place(m + 1, c) => F(n) = F(m)
  <2> SUFFICES ASSUME NEW m \in 0 .. n, End <= Place(m + 1, c) PROVE F(n) = F(m)
    OBVIOUS
  <2>1. m \in Nat /\ F(m) \in 0 .. m /\ F(n) \in 0 .. n /\ F(m) <= F(n)
    BY <1>1, <1>5
  <2>2. CASE F(n) = 0
    BY <2>1, <2>2
  <2>3. CASE F(n) # 0
    <3>1. F(n) \in Nat \ {0} /\ Place(F(n), c) < End /\ m + 1 \in Nat \ {0}
      BY <2>1, <2>3, <1>1
    <3>2. F(n) <= m
      <4> SUFFICES ASSUME ~(F(n) <= m) PROVE FALSE
        OBVIOUS
      <4>1. m + 1 <= F(n)
        BY <2>1
      <4>2. Place(m + 1, c) <= Place(F(n), c)
        BY <3>1, <4>1, PlacesOrdered
      <4> QED BY <4>2, <3>1, <1>2, <1>3
    <3>3. F(n) \in 1 .. m
      BY <3>1, <3>2, <2>1
    <3>4. F(n) <= F(m)
      BY <3>1, <3>3, <1>1, <2>1
    <3> QED BY <3>4, <2>1
  <2> QED BY <2>2, <2>3
<1>7. n > 0 /\ End <= Place(n, c) => F(n) = F(n - 1)
  <2>1. n > 0 => n - 1 \in 0 .. n /\ (n - 1) + 1 = n
    OBVIOUS
  <2> QED BY <2>1, <1>6
<1> QED BY <1>4, <1>5, <1>6, <1>7 DEF F

(* A step that leaves the file alone leaves what is in it. *)
LEMMA FileSame ==
  ASSUME file' = file
  PROVE  /\ Unit' = Unit /\ N' = N /\ End' = End
         /\ \A c, n : FromFile(c, n)' = FromFile(c, n)
<1>1. Unit' = Unit
  BY DEF Unit
<1>2. N' = N /\ End' = End
  BY <1>1 DEF N, End
<1>3. \A c, n : FromFile(c, n)' = FromFile(c, n)
  <2> TAKE c, n
  <2> DEFINE S == {i \in DOMAIN Unit : /\ Unit[i].is = "MCU" /\ Unit[i].scan <= n
                                        /\ Unit[i].row = c.row /\ Unit[i].col = c.col}
             Last(T) == CHOOSE i \in T : \A j \in T : j <= i
  <2>1. S' = S
    BY <1>1
  <2>2. FromFile(c, n) = IF S = {} THEN 0 ELSE Unit[Last(S)].scan
    BY DEF FromFile
  <2>3. FromFile(c, n)' = IF S' = {} THEN 0 ELSE Unit'[Last(S')].scan
    BY DEF FromFile
  <2> HIDE DEF S, Last
  <2> QED BY <2>1, <2>2, <2>3, <1>1
<1> QED BY <1>1, <1>2, <1>3
-----------------------------------------------------------------------------
(* The invariant.  What the fields of the decompressor may hold. *)
States == {"START", "INHEADER", "READY", "PRELOAD", "PREPARE", "PRESCAN", "SCANNING",
           "RAW_OK", "BUFIMAGE", "BUFPOST", "RDCOEFS", "STOPPING"}
Active == States \ {"START", "INHEADER", "READY"}
Consumed == {"SOS", "EOI", "suspended", "error", "row", "scan", "mcu"}
Results == Consumed \cup {"ok", "more", "tables", "coefs", "done"}
Row == [0 .. Cols - 1 -> Int]

State ==
  [global_state : States, buffered_image : BOOLEAN, two_pass : BOOLEAN,
   smoothing : BOOLEAN, colormap : BOOLEAN, is_dummy_pass : BOOLEAN, raw : BOOLEAN,
   full_buffer : BOOLEAN, inheaders : BOOLEAN, eoi_reached : BOOLEAN,
   has_multiple_scans : BOOLEAN, saw_SOF : BOOLEAN, consume : {"markers", "data", "dummy"},
   input_scan : Nat, output_scan : Nat, input_row : 0 .. Rows, output_row : 0 .. Rows,
   MCU_ctr : 0 .. Cols - 1, output_line : 0 .. Rows,
   pos : Nat, coefs : [Cell -> Int], saved : Seq(Row), ret : Results]

Counted(s) == s.pos \in 0 .. arrived /\ s.input_scan \in 0 .. N

(* The file is being read up to the MCU the counters name: the coefficients*)
(* are those of the scan for the cells before it, of the scan before for   *)
(* the others.                                                             *)
Lesser(a, b) == IF a <= b THEN a ELSE b
Done(s, c) == c.row < s.input_row \/ (c.row = s.input_row /\ c.col < s.MCU_ctr)
Decoded(s) ==
  \A c \in Cell : s.coefs[c] = FromFile(c, IF Done(s, c) THEN s.input_scan ELSE s.input_scan - 1)

Reading(s) ==
  /\ ~s.inheaders /\ s.input_scan >= 1 /\ At(s.input_scan) < End
  /\ s.has_multiple_scans = file.multi /\ (file.multi \/ s.input_scan = 1)
  /\ IF s.input_row = Rows THEN s.consume = "markers" /\ s.MCU_ctr = 0
     ELSE s.consume = (IF s.full_buffer THEN "data" ELSE "dummy") /\ ~s.eoi_reached
  /\ IF s.eoi_reached THEN s.pos = End /\ End - 1 <= At(s.input_scan) + Rows * Cols
     ELSE s.pos = Lesser(At(s.input_scan) + (s.input_row * Cols + s.MCU_ctr), End - 1)
  /\ Decoded(s)

(* What a step of the input side leaves alone and what it says. *)
SameControl(s, t) ==
  /\ t.global_state = s.global_state /\ t.buffered_image = s.buffered_image
  /\ t.two_pass = s.two_pass /\ t.smoothing = s.smoothing /\ t.colormap = s.colormap
  /\ t.is_dummy_pass = s.is_dummy_pass /\ t.raw = s.raw /\ t.full_buffer = s.full_buffer
  /\ t.output_row = s.output_row /\ t.output_line = s.output_line /\ t.saved = s.saved

SameInput(s, t) ==
  /\ t.full_buffer = s.full_buffer /\ t.inheaders = s.inheaders /\ t.eoi_reached = s.eoi_reached
  /\ t.has_multiple_scans = s.has_multiple_scans /\ t.saw_SOF = s.saw_SOF
  /\ t.consume = s.consume /\ t.input_scan = s.input_scan /\ t.input_row = s.input_row
  /\ t.MCU_ctr = s.MCU_ctr /\ t.pos = s.pos /\ t.coefs = s.coefs

Advanced(s, t) ==
  /\ t \in State /\ Counted(t) /\ SameControl(s, t)
  /\ s.input_scan <= t.input_scan
  /\ \/ t.output_scan = s.output_scan
     \/ t.eoi_reached /\ t.output_scan = t.input_scan /\ t.input_scan < s.output_scan
  /\ s.eoi_reached => t.eoi_reached
  /\ t.ret = "EOI" => t.eoi_reached
  /\ t.ret = "suspended" => t.pos = arrived \/ t.consume = "dummy"
  /\ t.ret \in Consumed

LEMMA ReadingSame ==
  ASSUME NEW s, NEW t, SameInput(s, t), Reading(s)
  PROVE  Reading(t)
<1>1. \A c \in Cell : Done(s, c) = Done(t, c)
  BY DEF SameInput, Done
<1>2. Decoded(t)
  BY <1>1 DEF SameInput, Reading, Decoded
<1> QED BY <1>2 DEF SameInput, Reading

LEMMA RetIs ==
  ASSUME NEW s \in State, NEW r \in Results, NEW t, t = [s EXCEPT !.ret = r]
  PROVE  t \in State /\ t.ret = r /\ SameControl(s, t) /\ SameInput(s, t) /\ t.output_scan = s.output_scan
<1>1. t \in State
  BY DEF State
<1>2. t.ret = r /\ SameControl(s, t) /\ SameInput(s, t) /\ t.output_scan = s.output_scan
  BY DEF State, SameControl, SameInput
<1> QED BY <1>1, <1>2

(* One MCU of consume_data: what the counters, the position and the        *)
(* coefficients are after it.                                              *)
LEMMA DecodeMcuIs ==
  ASSUME file \in Files, arrived \in 0 .. End, NEW s \in State, Counted(s), Reading(s),
         s.input_row < Rows, s.full_buffer = (file.multi \/ s.buffered_image), s.pos # arrived,
         NEW t, t = decode_mcu(s)
  PROVE  /\ t \in State /\ SameControl(s, t) /\ Counted(t)
         /\ t.inheaders = s.inheaders /\ t.eoi_reached = s.eoi_reached
         /\ t.has_multiple_scans = s.has_multiple_scans /\ t.consume = s.consume
         /\ t.input_scan = s.input_scan /\ t.input_row = s.input_row /\ t.MCU_ctr = s.MCU_ctr
         /\ t.output_scan = s.output_scan
         /\ t.pos = Lesser(At(s.input_scan) + (s.input_row * Cols + s.MCU_ctr) + 1, End - 1)
         /\ \A c \in Cell : t.coefs[c] =
              IF c.row = s.input_row /\ c.col = s.MCU_ctr THEN FromFile(c, s.input_scan)
              ELSE s.coefs[c]
<1> DEFINE n == s.input_scan
           here == [row |-> s.input_row, col |-> s.MCU_ctr]
           k == s.input_row * Cols + s.MCU_ctr
           next == Unit[s.pos + 1]
           base == IF s.full_buffer THEN s.coefs ELSE [s.coefs EXCEPT ![here] = 0]
<1>1. /\ s.input_row \in 0 .. Rows - 1 /\ s.MCU_ctr \in 0 .. Cols - 1 /\ s.coefs \in [Cell -> Int]
      /\ n \in Nat \ {0} /\ s.pos \in Nat /\ s.pos < arrived /\ arrived <= End /\ End \in Nat \ {0}
      /\ arrived \in Nat
  <2>1. /\ s.input_row \in 0 .. Rows /\ s.MCU_ctr \in 0 .. Cols - 1 /\ s.coefs \in [Cell -> Int]
        /\ s.input_scan \in Nat /\ s.pos \in Nat
    BY ONLY s \in State DEF State
  <2>2. s.pos \in 0 .. arrived /\ s.input_scan >= 1
    BY DEF Counted, Reading
  <2>3. Rows \in Nat /\ End \in Nat \ {0}
    BY SizesNat, UnitIs
  <2> QED BY <2>1, <2>2, <2>3
<1>2. here \in Cell /\ here.row = s.input_row /\ here.col = s.MCU_ctr
  BY <1>1 DEF Cell
<1>3. k \in 0 .. Rows * Cols - 1
  BY <1>1, CellPosition
<1>4. At(n) \in Nat /\ At(n) < End
  BY <1>1, <1>2, PlaceIs DEF Reading
<1>5. Place(n, here) = At(n) + k + 1
  <2> DEFINE b == s.input_row * Cols
  <2>1. b \in Int
    BY <1>1, SizesNat, SMT
  <2>2. Place(n, here) = At(n) + 1 + b + s.MCU_ctr /\ k = b + s.MCU_ctr
    BY <1>2 DEF Place
  <2> HIDE DEF b, k
  <2> QED BY <2>1, <2>2, <1>1, <1>4
<1>6. s.pos = Lesser(At(n) + k, End - 1)
  BY <1>1 DEF Reading
<1>7. k \in Nat
  BY <1>3, SizesNat
<1>8. decode_mcu(s) =
        IF next.is = "MCU"
        THEN [s EXCEPT !.pos = @ + 1,
                       !.coefs = [base EXCEPT ![here] =
                                    IF next.row = here.row /\ next.col = here.col THEN next.scan
                                    ELSE -1]]
        ELSE [s EXCEPT !.coefs = base]
  BY DEF decode_mcu
<1>9. base \in [Cell -> Int] /\ \A c \in Cell : c # here => base[c] = s.coefs[c]
  BY <1>1, <1>2
<1>10. \A c \in Cell : (c.row = s.input_row /\ c.col = s.MCU_ctr) <=> c = here
  BY <1>2 DEF Cell
<1>11. CASE At(n) + k + 1 < End
  <2> HIDE DEF next, base, here, k
  <2>1. s.pos = At(n) + k
    BY <1>1, <1>4, <1>6, <1>7, <1>11 DEF Lesser
  <2>2. next = [is |-> "MCU", scan |-> n, row |-> here.row, col |-> here.col]
    <3>1. Unit[Place(n, here)] = [is |-> "MCU", scan |-> n, row |-> here.row, col |-> here.col]
      BY <1>1, <1>2, <1>5, <1>11, LayoutIs
    <3> QED BY <3>1, <2>1, <1>5 DEF next
  <2> DEFINE v == [base EXCEPT ![here] = n]
             p == s.pos + 1
  <2>3. t = [s EXCEPT !.pos = p, !.coefs = v]
    BY <1>8, <2>2
  <2>4. v \in [Cell -> Int] /\ v[here] = n /\ \A c \in Cell : c # here => v[c] = base[c]
    BY <1>9, <1>1, <1>2
  <2>5. p \in Nat /\ p <= arrived /\ p = At(n) + k + 1 /\ p = Lesser(At(n) + k + 1, End - 1)
    BY <1>1, <1>4, <1>7, <1>11, <2>1 DEF Lesser
  <2>6. FromFile(here, n) = n
    BY <1>1, <1>2, <1>5, <1>11, FromFileSteps
  <2> HIDE DEF v, p
  <2>7. t \in State
    BY ONLY <2>3, <2>4, <2>5, s \in State DEF State
  <2>8. /\ SameControl(s, t) /\ t.pos = p /\ t.coefs = v
        /\ t.inheaders = s.inheaders /\ t.eoi_reached = s.eoi_reached
        /\ t.has_multiple_scans = s.has_multiple_scans /\ t.consume = s.consume
        /\ t.input_scan = s.input_scan /\ t.input_row = s.input_row /\ t.MCU_ctr = s.MCU_ctr
        /\ t.output_scan = s.output_scan
    BY ONLY <2>3, s \in State DEF State, SameControl
  <2>9. Counted(t)
    BY <2>8, <2>5, <1>1 DEF Counted
  <2>10. ASSUME NEW c \in Cell
         PROVE  t.coefs[c] = IF c.row = s.input_row /\ c.col = s.MCU_ctr THEN FromFile(c, n) ELSE s.coefs[c]
    BY <2>4, <2>6, <2>8, <1>9, <1>10, <1>2
  <2> QED BY <2>5, <2>7, <2>8, <2>9, <2>10 DEF k
<1>12. CASE ~(At(n) + k + 1 < End)
  <2> HIDE DEF next, base, here, k
  <2>1. s.pos = End - 1
    BY <1>1, <1>4, <1>6, <1>7, <1>12 DEF Lesser
  <2>2. next.is # "MCU"
    <3>1. s.pos + 1 = End /\ Unit[End].is = "EOI"
      BY <2>1, <1>1, UnitIs
    <3> QED BY <3>1 DEF next
  <2>3. t = [s EXCEPT !.coefs = base]
    BY <1>8, <2>2
  <2>4. FromFile(here, n) = FromFile(here, n - 1)
    <3>1. End <= Place(n, here)
      BY <1>1, <1>4, <1>5, <1>7, <1>12
    <3> QED BY <3>1, <1>1, <1>2, FromFileSteps
  <2>5. base[here] = FromFile(here, n - 1)
    <3>1. ~Done(s, here)
      BY <1>1, <1>2 DEF Done
    <3>2. s.coefs[here] = FromFile(here, n - 1)
      BY <1>2, <3>1 DEF Reading, Decoded
    <3>3. CASE s.full_buffer
      BY <3>2, <3>3 DEF base
    <3>4. CASE ~s.full_buffer
      <4>1. n = 1
        BY <3>4 DEF Reading
      <4>2. base[here] = 0
        BY <3>4, <1>1, <1>2 DEF base
      <4>3. FromFile(here, 0) \in 0 .. 0
        BY <1>2, FromFileIs
      <4> QED BY <4>1, <4>2, <4>3
    <3> QED BY <3>3, <3>4
  <2>7. t \in State
    BY ONLY <2>3, <1>9, s \in State DEF State
  <2>8. /\ SameControl(s, t) /\ t.pos = s.pos /\ t.coefs = base
        /\ t.inheaders = s.inheaders /\ t.eoi_reached = s.eoi_reached
        /\ t.has_multiple_scans = s.has_multiple_scans /\ t.consume = s.consume
        /\ t.input_scan = s.input_scan /\ t.input_row = s.input_row /\ t.MCU_ctr = s.MCU_ctr
        /\ t.output_scan = s.output_scan
    BY ONLY <2>3, s \in State DEF State, SameControl
  <2>9. Counted(t)
    BY <2>8 DEF Counted
  <2>10. ASSUME NEW c \in Cell
         PROVE  t.coefs[c] = IF c.row = s.input_row /\ c.col = s.MCU_ctr THEN FromFile(c, n) ELSE s.coefs[c]
    BY <2>4, <2>5, <2>8, <1>9, <1>10, <1>2
  <2>11. t.pos = Lesser(At(n) + k + 1, End - 1)
    BY <2>1, <2>8, <1>1, <1>4, <1>7, <1>12 DEF Lesser
  <2> QED BY <2>7, <2>8, <2>9, <2>10, <2>11 DEF k
<1> QED BY <1>11, <1>12

(* The counters after an MCU: the next one of the row, the next row, or    *)
(* back to the markers.                                                    *)
LEMMA McuDoneIs ==
  ASSUME NEW s \in State, s.input_row < Rows, NEW t, t = MCUDone(s)
  PROVE  /\ t \in State /\ SameControl(s, t)
         /\ t.inheaders = s.inheaders /\ t.eoi_reached = s.eoi_reached
         /\ t.has_multiple_scans = s.has_multiple_scans /\ t.input_scan = s.input_scan
         /\ t.output_scan = s.output_scan /\ t.pos = s.pos /\ t.coefs = s.coefs
         /\ \/ /\ s.MCU_ctr + 1 < Cols /\ t.MCU_ctr = s.MCU_ctr + 1 /\ t.input_row = s.input_row
               /\ t.consume = s.consume /\ t.ret = "mcu"
            \/ /\ s.MCU_ctr + 1 = Cols /\ t.MCU_ctr = 0 /\ t.input_row = s.input_row + 1
               /\ IF t.input_row = Rows THEN t.consume = "markers" /\ t.ret = "scan"
                  ELSE t.consume = s.consume /\ t.ret = "row"
<1> DEFINE a == s.MCU_ctr + 1
           b == s.input_row + 1
<1>1. /\ s.input_row \in 0 .. Rows - 1 /\ s.MCU_ctr \in 0 .. Cols - 1
      /\ Rows \in Nat \ {0} /\ Cols \in Nat \ {0}
  <2>1. s.input_row \in 0 .. Rows /\ s.MCU_ctr \in 0 .. Cols - 1
    BY ONLY s \in State DEF State
  <2> QED BY <2>1, SizesNat
<1>2. b \in 0 .. Rows /\ 0 \in 0 .. Cols - 1 /\ (a < Cols => a \in 0 .. Cols - 1) /\ (~(a < Cols) => a = Cols)
      /\ (~(b < Rows) => b = Rows)
  BY <1>1
<1>3. t = IF a < Cols THEN [s EXCEPT !.MCU_ctr = a, !.ret = "mcu"]
          ELSE IF b < Rows THEN [s EXCEPT !.MCU_ctr = 0, !.input_row = b, !.ret = "row"]
          ELSE [[s EXCEPT !.consume = "markers"] EXCEPT !.MCU_ctr = 0, !.input_row = b, !.ret = "scan"]
  <2>1. [[s EXCEPT !.consume = "markers"] EXCEPT !.MCU_ctr = 0, !.input_row = @ + 1, !.ret = "scan"]
        = [[s EXCEPT !.consume = "markers"] EXCEPT !.MCU_ctr = 0, !.input_row = b, !.ret = "scan"]
    <3>1. [s EXCEPT !.consume = "markers"].input_row = s.input_row
      BY ONLY s \in State DEF State
    <3> QED BY <3>1
  <2> QED BY <2>1 DEF MCUDone, RowDone, finish_input_pass
<1> HIDE DEF a, b
<1>4. CASE a < Cols
  <2>1. t = [s EXCEPT !.MCU_ctr = a, !.ret = "mcu"]
    BY <1>3, <1>4
  <2>2. t \in State
    BY ONLY <2>1, <1>2, <1>4, s \in State DEF State, Results, Consumed
  <2> QED BY ONLY <2>1, <2>2, <1>4, s \in State DEF State, SameControl, a
<1>5. CASE ~(a < Cols) /\ b < Rows
  <2>1. t = [s EXCEPT !.MCU_ctr = 0, !.input_row = b, !.ret = "row"]
    BY <1>3, <1>5
  <2>2. t \in State
    BY ONLY <2>1, <1>2, s \in State DEF State, Results, Consumed
  <2>3. b # Rows /\ s.MCU_ctr + 1 = Cols
    BY <1>1, <1>2, <1>5 DEF a, b
  <2> QED BY ONLY <2>1, <2>2, <2>3, s \in State DEF State, SameControl, b
<1>6. CASE ~(a < Cols) /\ ~(b < Rows)
  <2> DEFINE u == [s EXCEPT !.consume = "markers"]
  <2>1. t = [u EXCEPT !.MCU_ctr = 0, !.input_row = b, !.ret = "scan"]
    BY <1>3, <1>6
  <2>2. u \in State /\ SameControl(s, u) /\ u.consume = "markers"
        /\ u.inheaders = s.inheaders /\ u.eoi_reached = s.eoi_reached
        /\ u.has_multiple_scans = s.has_multiple_scans /\ u.input_scan = s.input_scan
        /\ u.output_scan = s.output_scan /\ u.pos = s.pos /\ u.coefs = s.coefs
    BY ONLY s \in State DEF State, SameControl
  <2> HIDE DEF u
  <2>3. t \in State
    BY ONLY <2>1, <2>2, <1>2 DEF State, Results, Consumed
  <2>4. t.consume = u.consume /\ SameControl(u, t) /\ t.MCU_ctr = 0 /\ t.input_row = b /\ t.ret = "scan"
        /\ t.inheaders = u.inheaders /\ t.eoi_reached = u.eoi_reached
        /\ t.has_multiple_scans = u.has_multiple_scans /\ t.input_scan = u.input_scan
        /\ t.output_scan = u.output_scan /\ t.pos = u.pos /\ t.coefs = u.coefs
    BY ONLY <2>1, <2>2 DEF State, SameControl
  <2>5. b = Rows /\ s.MCU_ctr + 1 = Cols
    BY <1>2, <1>6 DEF a
  <2>6. SameControl(s, t)
    BY <2>2, <2>4 DEF SameControl
  <2> QED BY <2>2, <2>3, <2>4, <2>5, <2>6 DEF b
<1> QED BY <1>4, <1>5, <1>6

(* consume_data goes on to the next MCU, or waits for it. *)
LEMMA DataConsumed ==
  ASSUME file \in Files, arrived \in 0 .. End, NEW s \in State, Counted(s), Reading(s),
         s.input_row < Rows, s.full_buffer = (file.multi \/ s.buffered_image),
         NEW t, t = consume_data(s)
  PROVE  /\ Advanced(s, t) /\ Reading(t) /\ t.input_scan = s.input_scan
         /\ t.output_scan = s.output_scan /\ t.ret # "error"
         /\ IF t.ret \in {"row", "scan"} THEN t.input_row = s.input_row + 1
            ELSE t.input_row = s.input_row
<1>1. CASE s.pos = arrived
  <2>1. t = [s EXCEPT !.ret = "suspended"]
    BY <1>1 DEF consume_data
  <2>2. /\ t \in State /\ t.ret = "suspended" /\ SameControl(s, t) /\ SameInput(s, t)
        /\ t.output_scan = s.output_scan
    BY ONLY <2>1, s \in State, RetIs DEF Results, Consumed
  <2>3. Reading(t)
    BY <2>2, ReadingSame
  <2>4. t.input_scan \in Nat
    BY <2>2 DEF State
  <2> QED BY <2>2, <2>3, <2>4, <1>1 DEF Advanced, Counted, SameInput, Consumed
<1>2. CASE s.pos # arrived
  <2> DEFINE u == decode_mcu(s)
             n == s.input_scan
             k == s.input_row * Cols + s.MCU_ctr
  <2>1. t = MCUDone(u)
    BY <1>2 DEF consume_data
  <2>2. /\ u \in State /\ SameControl(s, u) /\ Counted(u)
        /\ u.inheaders = s.inheaders /\ u.eoi_reached = s.eoi_reached
        /\ u.has_multiple_scans = s.has_multiple_scans /\ u.consume = s.consume
        /\ u.input_scan = s.input_scan /\ u.input_row = s.input_row /\ u.MCU_ctr = s.MCU_ctr
        /\ u.output_scan = s.output_scan
        /\ u.pos = Lesser(At(n) + k + 1, End - 1)
        /\ \A c \in Cell : u.coefs[c] =
              IF c.row = s.input_row /\ c.col = s.MCU_ctr THEN FromFile(c, n) ELSE s.coefs[c]
    BY <1>2, DecodeMcuIs
  <2> HIDE DEF u
  <2>3. /\ t \in State /\ SameControl(u, t)
        /\ t.inheaders = u.inheaders /\ t.eoi_reached = u.eoi_reached
        /\ t.has_multiple_scans = u.has_multiple_scans /\ t.input_scan = u.input_scan
        /\ t.output_scan = u.output_scan /\ t.pos = u.pos /\ t.coefs = u.coefs
        /\ \/ /\ u.MCU_ctr + 1 < Cols /\ t.MCU_ctr = u.MCU_ctr + 1 /\ t.input_row = u.input_row
              /\ t.consume = u.consume /\ t.ret = "mcu"
           \/ /\ u.MCU_ctr + 1 = Cols /\ t.MCU_ctr = 0 /\ t.input_row = u.input_row + 1
              /\ IF t.input_row = Rows THEN t.consume = "markers" /\ t.ret = "scan"
                 ELSE t.consume = u.consume /\ t.ret = "row"
    <3>1. u.input_row < Rows
      BY <2>2
    <3>2. u \in State
      BY <2>2
    <3> QED BY ONLY <3>1, <3>2, <2>1, McuDoneIs
  <2>4. SameControl(s, t)
    BY <2>2, <2>3 DEF SameControl
  <2>5. /\ s.input_row \in 0 .. Rows - 1 /\ s.MCU_ctr \in 0 .. Cols - 1
        /\ Rows \in Nat \ {0} /\ Cols \in Nat \ {0} /\ n \in Nat
    <3>1. s.input_row \in 0 .. Rows /\ s.MCU_ctr \in 0 .. Cols - 1 /\ n \in Nat
      BY ONLY s \in State DEF State
    <3> QED BY <3>1, SizesNat
  <2>6. s.input_row # Rows /\ s.consume = (IF s.full_buffer THEN "data" ELSE "dummy") /\ ~s.eoi_reached
    BY <2>5 DEF Reading
  <2>7. IF t.input_row = Rows THEN t.consume = "markers" /\ t.MCU_ctr = 0
        ELSE t.consume = (IF t.full_buffer THEN "data" ELSE "dummy") /\ ~t.eoi_reached
    BY <2>2, <2>3, <2>4, <2>5, <2>6 DEF SameControl
  <2>8. t.pos = Lesser(At(n) + (t.input_row * Cols + t.MCU_ctr), End - 1)
    <3> DEFINE b == s.input_row * Cols
    <3>1. b \in Nat /\ (s.input_row + 1) * Cols = b + Cols
      BY <2>5, SMT
    <3>2. t.input_row * Cols + t.MCU_ctr = k + 1 /\ k \in Nat
      <4>1. CASE t.input_row = s.input_row /\ t.MCU_ctr = s.MCU_ctr + 1
        <5>1. k = b + s.MCU_ctr /\ t.input_row * Cols + t.MCU_ctr = b + (s.MCU_ctr + 1)
          BY <4>1
        <5> HIDE DEF b, k
        <5> QED BY <5>1, <3>1, <2>5
      <4>2. CASE t.input_row = s.input_row + 1 /\ t.MCU_ctr = 0 /\ s.MCU_ctr + 1 = Cols
        <5>1. k = b + s.MCU_ctr /\ t.input_row * Cols + t.MCU_ctr = (b + Cols) + 0
          BY <4>2, <3>1
        <5> HIDE DEF b, k
        <5> QED BY <5>1, <3>1, <2>5, <4>2
      <4> QED BY <4>1, <4>2, <2>2, <2>3
    <3> HIDE DEF k
    <3>3. At(n) \in Nat
      <4>1. n \in Nat \ {0}
        BY <2>5 DEF Reading
      <4>2. [row |-> s.input_row, col |-> s.MCU_ctr] \in Cell
        BY <2>5 DEF Cell
      <4> QED BY <4>1, <4>2, PlaceIs
    <3>4. At(n) + k + 1 = At(n) + (k + 1)
      BY <3>2, <3>3
    <3> QED BY <3>2, <3>4, <2>2, <2>3
  <2>9. Decoded(t)
    <3> SUFFICES ASSUME NEW c \in Cell
                 PROVE  t.coefs[c] = FromFile(c, IF Done(t, c) THEN n ELSE n - 1)
      BY <2>2, <2>3 DEF Decoded
    <3>1. c.row \in 0 .. Rows - 1 /\ c.col \in 0 .. Cols - 1
      BY DEF Cell
    <3>2. s.coefs[c] = FromFile(c, IF Done(s, c) THEN n ELSE n - 1)
      BY DEF Reading, Decoded
    <3>3. Done(t, c) <=> Done(s, c) \/ (c.row = s.input_row /\ c.col = s.MCU_ctr)
      <4>1. CASE t.MCU_ctr = s.MCU_ctr + 1 /\ t.input_row = s.input_row
        BY ONLY <3>1, <2>5, <4>1 DEF Done
      <4>2. CASE s.MCU_ctr + 1 = Cols /\ t.MCU_ctr = 0 /\ t.input_row = s.input_row + 1
        BY ONLY <3>1, <2>5, <4>2 DEF Done
      <4> QED BY <4>1, <4>2, <2>2, <2>3
    <3> QED BY <3>2, <3>3, <2>2, <2>3
  <2>10. Reading(t)
    BY <2>2, <2>3, <2>6, <2>7, <2>8, <2>9 DEF Reading
  <2>11. t.ret \in {"mcu", "row", "scan"} /\ Counted(t)
         /\ IF t.ret \in {"row", "scan"} THEN t.input_row = s.input_row + 1 ELSE t.input_row = s.input_row
    BY <2>2, <2>3 DEF Counted
  <2> QED BY <2>2, <2>3, <2>4, <2>5, <2>10, <2>11 DEF Advanced, Consumed
<1> QED BY <1>1, <1>2

LEMMA PassedIs ==
  ASSUME NEW s \in State, NEW p \in Nat, NEW t, t = Passed(s, p)
  PROVE  /\ t \in State /\ SameControl(s, t) /\ t.pos = p
         /\ t.inheaders = s.inheaders /\ t.eoi_reached = s.eoi_reached
         /\ t.has_multiple_scans = s.has_multiple_scans /\ t.consume = s.consume
         /\ t.input_scan = s.input_scan /\ t.input_row = s.input_row /\ t.MCU_ctr = s.MCU_ctr
         /\ t.output_scan = s.output_scan /\ t.coefs = s.coefs /\ t.ret = s.ret
<1> DEFINE b == s.saw_SOF \/ \E i \in s.pos + 1 .. p : Unit[i].is = "SOF"
<1>1. t = [s EXCEPT !.pos = p, !.saw_SOF = b] /\ b \in BOOLEAN
  BY DEF Passed
<1> HIDE DEF b
<1>2. t \in State
  BY ONLY <1>1, s \in State, p \in Nat DEF State
<1> QED BY ONLY <1>1, <1>2, s \in State DEF State, SameControl

(* The marker that ends the file, and the header of a scan. *)
LEMMA AtEoiIs ==
  ASSUME NEW s \in State, NEW t, t = AtEOI(s)
  PROVE  /\ t \in State /\ SameControl(s, t) /\ t.eoi_reached /\ t.pos = s.pos
         /\ t.inheaders = s.inheaders /\ t.has_multiple_scans = s.has_multiple_scans
         /\ t.consume = s.consume /\ t.input_scan = s.input_scan /\ t.input_row = s.input_row
         /\ t.MCU_ctr = s.MCU_ctr /\ t.coefs = s.coefs
         /\ t.ret = (IF s.inheaders /\ s.saw_SOF THEN "error" ELSE "EOI")
         /\ \/ t.output_scan = s.output_scan
            \/ t.output_scan = t.input_scan /\ t.input_scan < s.output_scan
<1> DEFINE o == IF ~s.inheaders /\ s.output_scan > s.input_scan THEN s.input_scan ELSE s.output_scan
<1>1. s.output_scan \in Nat /\ s.input_scan \in Nat
  BY ONLY s \in State DEF State
<1>2. o \in Nat /\ (o = s.output_scan \/ (o = s.input_scan /\ s.input_scan < s.output_scan))
  BY <1>1
<1>3. CASE s.inheaders /\ s.saw_SOF
  <2>1. t = [s EXCEPT !.eoi_reached = TRUE, !.ret = "error"]
    BY <1>3 DEF AtEOI
  <2>2. t \in State
    BY ONLY <2>1, s \in State DEF State, Results, Consumed
  <2>3. /\ SameControl(s, t) /\ t.eoi_reached /\ t.pos = s.pos
        /\ t.inheaders = s.inheaders /\ t.has_multiple_scans = s.has_multiple_scans
        /\ t.consume = s.consume /\ t.input_scan = s.input_scan /\ t.input_row = s.input_row
        /\ t.MCU_ctr = s.MCU_ctr /\ t.coefs = s.coefs
        /\ t.ret = "error" /\ t.output_scan = s.output_scan
    BY ONLY <2>1, s \in State DEF State, SameControl
  <2> QED BY ONLY <2>2, <2>3, <1>3
<1>4. CASE ~(s.inheaders /\ s.saw_SOF)
  <2>1. t = [s EXCEPT !.eoi_reached = TRUE, !.ret = "EOI", !.output_scan = o]
    BY <1>4 DEF AtEOI
  <2> HIDE DEF o
  <2>2. t \in State
    BY ONLY <2>1, <1>2, s \in State DEF State, Results, Consumed
  <2> QED BY ONLY <2>1, <2>2, <1>2, <1>4, s \in State DEF State, SameControl
<1> QED BY <1>3, <1>4

LEMMA StartInputPassIs ==
  ASSUME NEW s \in State, NEW t, t = start_input_pass(s)
  PROVE  /\ t \in State /\ SameControl(s, t) /\ t.pos = s.pos
         /\ t.inheaders = s.inheaders /\ t.eoi_reached = s.eoi_reached
         /\ t.has_multiple_scans = s.has_multiple_scans /\ t.input_scan = s.input_scan
         /\ t.output_scan = s.output_scan /\ t.coefs = s.coefs /\ t.ret = s.ret
         /\ t.input_row = 0 /\ t.MCU_ctr = 0
         /\ t.consume = IF s.full_buffer THEN "data" ELSE "dummy"
<1> DEFINE c == IF s.full_buffer THEN "data" ELSE "dummy"
<1>1. t = [s EXCEPT !.input_row = 0, !.MCU_ctr = 0, !.consume = c] /\ c \in {"markers", "data", "dummy"}
      /\ 0 \in 0 .. Rows /\ 0 \in 0 .. Cols - 1
  BY SizesNat DEF start_input_pass
<1> HIDE DEF c
<1>2. t \in State
  BY ONLY <1>1, s \in State DEF State
<1>3. /\ SameControl(s, t) /\ t.pos = s.pos
      /\ t.inheaders = s.inheaders /\ t.eoi_reached = s.eoi_reached
      /\ t.has_multiple_scans = s.has_multiple_scans /\ t.input_scan = s.input_scan
      /\ t.output_scan = s.output_scan /\ t.coefs = s.coefs /\ t.ret = s.ret
      /\ t.input_row = 0 /\ t.MCU_ctr = 0 /\ t.consume = c
  BY ONLY <1>1, s \in State DEF State, SameControl
<1> QED BY <1>2, <1>3 DEF c

LEMMA AtSosIs ==
  ASSUME NEW s \in State, file \in Files, NEW t, t = AtSOS(s)
  PROVE  /\ t \in State /\ SameControl(s, t) /\ t.pos = s.pos
         /\ t.eoi_reached = s.eoi_reached /\ t.input_scan = s.input_scan
         /\ t.output_scan = s.output_scan /\ t.coefs = s.coefs
         /\ s.inheaders => /\ ~t.inheaders /\ t.has_multiple_scans = file.multi /\ t.ret = "SOS"
                           /\ t.input_row = s.input_row /\ t.MCU_ctr = s.MCU_ctr
                           /\ t.consume = s.consume
         /\ ~s.inheaders => t.inheaders = s.inheaders /\ t.has_multiple_scans = s.has_multiple_scans
         /\ ~s.inheaders /\ ~s.has_multiple_scans => t.ret = "error"
         /\ ~s.inheaders /\ s.has_multiple_scans =>
              /\ t.input_row = 0 /\ t.MCU_ctr = 0 /\ t.ret = "SOS"
              /\ t.consume = IF s.full_buffer THEN "data" ELSE "dummy"
<1>1. CASE s.inheaders
  <2>1. t = [s EXCEPT !.inheaders = FALSE, !.has_multiple_scans = file.multi, !.ret = "SOS"]
    BY <1>1 DEF AtSOS
  <2>2. file.multi \in BOOLEAN
    BY FilesAssumption
  <2>3. t \in State
    BY ONLY <2>1, <2>2, s \in State DEF State, Results, Consumed
  <2> QED BY ONLY <2>1, <2>3, <1>1, s \in State DEF State, SameControl
<1>2. CASE ~s.inheaders /\ ~s.has_multiple_scans
  <2>1. t = [s EXCEPT !.ret = "error"]
    BY <1>2 DEF AtSOS
  <2>2. t \in State
    BY ONLY <2>1, s \in State DEF State, Results, Consumed
  <2> QED BY ONLY <2>1, <2>2, <1>2, s \in State DEF State, SameControl
<1>3. CASE ~s.inheaders /\ s.has_multiple_scans
  <2> DEFINE u == start_input_pass(s)
  <2>1. t = [u EXCEPT !.ret = "SOS"]
    BY <1>3 DEF AtSOS
  <2>2. /\ u \in State /\ SameControl(s, u) /\ u.pos = s.pos
        /\ u.inheaders = s.inheaders /\ u.eoi_reached = s.eoi_reached
        /\ u.has_multiple_scans = s.has_multiple_scans /\ u.input_scan = s.input_scan
        /\ u.output_scan = s.output_scan /\ u.coefs = s.coefs
        /\ u.input_row = 0 /\ u.MCU_ctr = 0
        /\ u.consume = IF s.full_buffer THEN "data" ELSE "dummy"
    BY StartInputPassIs
  <2> HIDE DEF u
  <2>3. u \in State
    BY <2>2
  <2>4. t \in State /\ t.ret = "SOS" /\ SameControl(u, t) /\ SameInput(u, t) /\ t.output_scan = u.output_scan
    BY ONLY <2>1, <2>3, RetIs DEF Results, Consumed
  <2>5. SameControl(s, t)
    BY ONLY <2>2, <2>4 DEF SameControl
  <2>6. ~s.inheaders /\ s.has_multiple_scans
    BY <1>3
  <2> QED BY ONLY <2>2, <2>4, <2>5, <2>6 DEF SameInput
<1> QED BY <1>1, <1>2, <1>3

(* consume_markers while the file is being read: after the last MCU of a   *)
(* scan comes the header of the next or the end.                           *)
LEMMA MarkersConsumed ==
  ASSUME file \in Files, arrived \in 0 .. End, NEW s \in State, Counted(s), Reading(s),
         s.consume = "markers", s.full_buffer = (file.multi \/ s.buffered_image),
         NEW t, t = consume_markers(s)
  PROVE  /\ Advanced(s, t) /\ (t.ret = "error" \/ Reading(t))
         /\ ~s.full_buffer /\ t.ret # "error" => t.input_row = s.input_row
<1> DEFINE n == s.input_scan
           e == Rows * Cols
           a == At(n)
<1>1. /\ n \in Nat \ {0} /\ s.pos \in Nat /\ s.pos <= arrived /\ arrived \in Nat /\ arrived <= End
      /\ End \in Nat \ {0} /\ s.output_scan \in Nat /\ s.coefs \in [Cell -> Int] /\ n <= N /\ N \in Nat
  <2>1. s.input_scan \in Nat /\ s.pos \in Nat /\ s.output_scan \in Nat /\ s.coefs \in [Cell -> Int]
    BY ONLY s \in State DEF State
  <2>2. s.pos \in 0 .. arrived /\ s.input_scan >= 1 /\ s.input_scan \in 0 .. N
    BY DEF Counted, Reading
  <2>3. End \in Nat \ {0} /\ N \in Nat
    BY UnitIs
  <2> QED BY <2>1, <2>2, <2>3
<1>2. s.input_row = Rows /\ s.MCU_ctr = 0
  BY DEF Reading
<1>3. CASE s.eoi_reached
  <2>1. t = [s EXCEPT !.ret = "EOI"]
    BY <1>3 DEF consume_markers
  <2>2. /\ t \in State /\ t.ret = "EOI" /\ SameControl(s, t) /\ SameInput(s, t)
        /\ t.output_scan = s.output_scan
    BY ONLY <2>1, s \in State, RetIs DEF Results, Consumed
  <2>3. Reading(t)
    BY <2>2, ReadingSame
  <2> QED BY <2>2, <2>3, <1>1, <1>3 DEF Advanced, Counted, SameInput, Consumed
<1>4. CASE ~s.eoi_reached
  <2> DEFINE p == s.pos + 1
             ends == {i \in p .. arrived : Unit[i].is \in {"SOS", "EOI"}}
  <2>1. a \in Nat /\ e \in Nat /\ a < End /\ At(n + 1) = a + 1 + e
        /\ \A c \in Cell : At(n + 1) < Place(n + 1, c)
    <3>1. [row |-> 0, col |-> 0] \in Cell
      BY SizesNat DEF Cell
    <3>2. n + 1 \in Nat \ {0} /\ a < End
      BY <1>1 DEF Reading
    <3> QED BY <3>1, <3>2, <1>1, SizesNat, PlaceIs
  <2>2. s.pos = Lesser(a + e, End - 1)
    <3>1. s.pos = Lesser(a + (s.input_row * Cols + s.MCU_ctr), End - 1)
      BY <1>4 DEF Reading
    <3>2. s.input_row * Cols + s.MCU_ctr = e
      <4>1. s.input_row * Cols = e /\ e \in Nat
        BY <1>2, SizesNat
      <4> HIDE DEF e
      <4> QED BY <4>1, <1>2
    <3> QED BY <3>1, <3>2
  <2> HIDE DEF e, a
  <2>3. p \in Nat /\ p <= End /\ (p = End \/ (p < End /\ p = At(n + 1)))
    BY <1>1, <2>1, <2>2 DEF Lesser
  <2>4. p < End => n + 1 <= N /\ Unit[p] = [is |-> "SOS"]
    <3>1. n + 1 \in Nat \ {0}
      BY <1>1
    <3> QED BY <3>1, <2>3, LayoutIs
  <2>5. Unit[p].is = (IF p = End THEN "EOI" ELSE "SOS")
    BY <2>3, <2>4, UnitIs
  <2>6. consume_markers(s) =
          IF ends = {} THEN [Passed(s, arrived) EXCEPT !.ret = "suspended"]
          ELSE MarkerRead(s, CHOOSE i \in ends : \A j \in ends : i <= j)
    BY <1>4 DEF consume_markers
  <2>7. CASE s.pos = arrived
    <3>1. ends = {}
      BY <1>1, <2>7
    <3> DEFINE u == Passed(s, arrived)
    <3>2. /\ u \in State /\ SameControl(s, u) /\ u.pos = arrived
          /\ u.inheaders = s.inheaders /\ u.eoi_reached = s.eoi_reached
          /\ u.has_multiple_scans = s.has_multiple_scans /\ u.consume = s.consume
          /\ u.input_scan = s.input_scan /\ u.input_row = s.input_row /\ u.MCU_ctr = s.MCU_ctr
          /\ u.output_scan = s.output_scan /\ u.coefs = s.coefs
      <4>1. u = Passed(s, arrived) /\ arrived \in Nat
        BY <1>1
      <4> HIDE DEF u
      <4> QED BY ONLY s \in State, <4>1, PassedIs
    <3>3. t = [u EXCEPT !.ret = "suspended"]
      BY <2>6, <3>1
    <3> HIDE DEF u
    <3>4. u \in State
      BY <3>2
    <3>5. /\ t \in State /\ t.ret = "suspended" /\ SameControl(u, t) /\ SameInput(u, t)
          /\ t.output_scan = u.output_scan
      BY ONLY <3>3, <3>4, RetIs DEF Results, Consumed
    <3>6. SameControl(s, t)
      BY ONLY <3>2, <3>5 DEF SameControl
    <3>7. Reading(u)
      <4>1. \A c \in Cell : Done(u, c) = Done(s, c)
        BY <3>2 DEF Done
      <4>2. u.full_buffer = s.full_buffer
        BY <3>2 DEF SameControl
      <4> QED BY <4>1, <4>2, <3>2, <2>7 DEF Reading, Decoded
    <3>8. Reading(t)
      BY <3>5, <3>7, ReadingSame
    <3> QED BY <3>2, <3>5, <3>6, <3>8, <1>1 DEF Advanced, Counted, SameInput, Consumed
  <2>8. CASE s.pos # arrived
    <3>1. p \in ends /\ \A j \in ends : j \in Int /\ p <= j
      BY <1>1, <2>3, <2>5, <2>8
    <3> DEFINE q == CHOOSE i \in ends : \A j \in ends : i <= j
    <3>2. q \in ends /\ \A j \in ends : q <= j
      BY <3>1
    <3>3. t = MarkerRead(s, q)
      BY <2>6, <3>1
    <3> HIDE DEF q, ends
    <3>4. q = p
      BY <3>1, <3>2, <2>3
    <3> DEFINE u == Passed(s, p)
    <3>5. /\ u \in State /\ SameControl(s, u) /\ u.pos = p
          /\ u.inheaders = s.inheaders /\ u.eoi_reached = s.eoi_reached
          /\ u.has_multiple_scans = s.has_multiple_scans /\ u.consume = s.consume
          /\ u.input_scan = s.input_scan /\ u.input_row = s.input_row /\ u.MCU_ctr = s.MCU_ctr
          /\ u.output_scan = s.output_scan /\ u.coefs = s.coefs
      <4>1. u = Passed(s, p) /\ p \in Nat
        BY <2>3
      <4> HIDE DEF u, p
      <4> QED BY ONLY s \in State, <4>1, PassedIs
    <3>6. t = IF Unit[p].is = "EOI" THEN AtEOI(u) ELSE AtSOS([u EXCEPT !.input_scan = @ + 1])
      BY <3>3, <3>4 DEF MarkerRead
    <3>7. p <= arrived /\ ~s.inheaders /\ s.has_multiple_scans = file.multi
      BY <1>1, <2>8 DEF Reading
    <3>8. \A c \in Cell : s.coefs[c] = FromFile(c, n)
      <4>1. \A c \in Cell : Done(s, c)
        <5>1. \A c \in Cell : c.row < Rows
          BY SizesNat DEF Cell
        <5> QED BY <5>1, <1>2 DEF Done
      <4> QED BY <4>1 DEF Reading, Decoded
    <3> HIDE DEF u, p
    <3>9. CASE p = End
      <4>1. t = AtEOI(u) /\ u \in State
        BY <3>5, <3>6, <3>9, <2>5
      <4>2. /\ t \in State /\ SameControl(u, t) /\ t.eoi_reached /\ t.pos = u.pos
            /\ t.inheaders = u.inheaders /\ t.has_multiple_scans = u.has_multiple_scans
            /\ t.consume = u.consume /\ t.input_scan = u.input_scan /\ t.input_row = u.input_row
            /\ t.MCU_ctr = u.MCU_ctr /\ t.coefs = u.coefs
            /\ t.ret = (IF u.inheaders /\ u.saw_SOF THEN "error" ELSE "EOI")
            /\ \/ t.output_scan = u.output_scan
               \/ t.output_scan = t.input_scan /\ t.input_scan < u.output_scan
        BY ONLY <4>1, AtEoiIs
      <4>3. SameControl(s, t) /\ t.ret = "EOI"
        BY <3>5, <3>7, <4>2 DEF SameControl
      <4>4. Advanced(s, t)
        BY <4>2, <4>3, <3>5, <3>7, <3>9, <2>3, <1>1 DEF Advanced, Counted, Consumed
      <4>5. End - 1 <= a + e
        BY <2>1, <2>2, <3>9, <1>1 DEF Lesser, p
      <4>6. \A c \in Cell : Done(t, c) = Done(s, c)
        BY <3>5, <4>2 DEF Done
      <4>7. Reading(t)
        <5>1. t.full_buffer = s.full_buffer
          BY <4>3 DEF SameControl
        <5>2. IF t.input_row = Rows THEN t.consume = "markers" /\ t.MCU_ctr = 0
              ELSE t.consume = (IF t.full_buffer THEN "data" ELSE "dummy") /\ ~t.eoi_reached
          BY <1>2, <3>5, <4>2
        <5>3. t.eoi_reached /\ t.pos = End /\ End - 1 <= At(t.input_scan) + Rows * Cols
          BY <3>5, <3>9, <4>2, <4>5 DEF a, e
        <5>4. Decoded(t)
          BY <3>5, <4>2, <4>6 DEF Reading, Decoded
        <5> QED BY <3>5, <3>7, <4>2, <5>2, <5>3, <5>4 DEF Reading
      <4>8. t.input_row = s.input_row
        BY <3>5, <4>2
      <4> QED BY <4>4, <4>7, <4>8
    <3>10. CASE p # End
      <4> DEFINE m == u.input_scan + 1
                 v == [u EXCEPT !.input_scan = m]
      <4>1. t = AtSOS(v)
        BY <3>6, <3>10, <2>5
      <4>2. m = n + 1 /\ m \in Nat /\ m <= N /\ At(m) = p /\ p < End /\ Unit[p].is = "SOS" /\ m - 1 = n
        BY <3>5, <3>10, <2>3, <2>4, <1>1
      <4> HIDE DEF m
      <4>3. /\ v \in State /\ SameControl(u, v) /\ v.pos = u.pos
            /\ v.inheaders = u.inheaders /\ v.eoi_reached = u.eoi_reached
            /\ v.has_multiple_scans = u.has_multiple_scans /\ v.consume = u.consume
            /\ v.input_scan = m
            /\ v.output_scan = u.output_scan /\ v.coefs = u.coefs
        <5>1. u \in State
          BY <3>5
        <5>2. v \in State
          BY ONLY <5>1, <4>2 DEF State
        <5> QED BY ONLY <5>1, <5>2 DEF State, SameControl
      <4> HIDE DEF v
      <4>4. v \in State
        BY <4>3
      <4>5. /\ t \in State /\ SameControl(v, t) /\ t.pos = v.pos
            /\ t.eoi_reached = v.eoi_reached /\ t.input_scan = v.input_scan
            /\ t.output_scan = v.output_scan /\ t.coefs = v.coefs
            /\ ~v.inheaders => t.inheaders = v.inheaders /\ t.has_multiple_scans = v.has_multiple_scans
            /\ ~v.inheaders /\ ~v.has_multiple_scans => t.ret = "error"
            /\ ~v.inheaders /\ v.has_multiple_scans =>
                 /\ t.input_row = 0 /\ t.MCU_ctr = 0 /\ t.ret = "SOS"
                 /\ t.consume = IF v.full_buffer THEN "data" ELSE "dummy"
        BY ONLY file \in Files, <4>1, <4>4, AtSosIs
      <4>6. SameControl(s, t)
        <5>1. SameControl(s, u) /\ SameControl(u, v) /\ SameControl(v, t)
          BY <3>5, <4>3, <4>5
        <5> QED BY ONLY <5>1 DEF SameControl
      <4>7. /\ t.pos = p /\ t.input_scan = m /\ t.output_scan = s.output_scan /\ t.coefs = s.coefs
            /\ t.eoi_reached = s.eoi_reached /\ ~t.inheaders /\ t.has_multiple_scans = file.multi
            /\ ~file.multi => t.ret = "error"
            /\ file.multi => /\ t.input_row = 0 /\ t.MCU_ctr = 0 /\ t.ret = "SOS"
                             /\ t.consume = IF t.full_buffer THEN "data" ELSE "dummy"
        <5>1. /\ ~v.inheaders /\ v.has_multiple_scans = file.multi /\ t.full_buffer = v.full_buffer
              /\ v.pos = p /\ v.input_scan = m /\ v.output_scan = s.output_scan /\ v.coefs = s.coefs
              /\ v.eoi_reached = s.eoi_reached
          BY <3>5, <3>7, <4>3, <4>5 DEF SameControl
        <5> QED BY ONLY <5>1, <4>5
      <4>8. Advanced(s, t)
        <5>1. Counted(t) /\ s.input_scan <= t.input_scan
          BY <4>2, <4>7, <3>7, <1>1, <2>3 DEF Counted
        <5>2. t.ret \in {"SOS", "error"}
          BY <4>7, FilesAssumption
        <5>3. t \in State
          BY <4>5
        <5> QED BY <5>1, <5>2, <5>3, <4>6, <4>7, <1>4 DEF Advanced, Consumed
      <4>9. CASE ~file.multi
        BY <4>7, <4>8, <4>9
      <4>10. CASE file.multi
        <5>1. \A c \in Cell : ~Done(t, c)
          BY <4>7, <4>10, SizesNat DEF Done, Cell
        <5>2. Decoded(t)
          BY <5>1, <4>2, <4>7, <3>8 DEF Decoded
        <5>3. t.pos = Lesser(At(m) + (t.input_row * Cols + t.MCU_ctr), End - 1)
          <6>1. t.input_row * Cols + t.MCU_ctr = 0
            BY <4>7, <4>10, SizesNat
          <6> QED BY <6>1, <4>2, <4>7, <2>3, <1>1 DEF Lesser
        <5>4. t.input_row = 0 /\ 0 # Rows /\ ~t.eoi_reached
          BY <4>7, <4>10, <1>4, SizesNat
        <5>5. Reading(t)
          BY <5>2, <5>3, <5>4, <4>2, <4>7, <4>10, <1>1 DEF Reading
        <5> QED BY <4>8, <5>5, <4>10
      <4> QED BY <4>9, <4>10
    <3> QED BY <3>9, <3>10
  <2> QED BY <2>7, <2>8
<1> QED BY <1>3, <1>4

(* All the input side. *)
LEMMA InputConsumed ==
  ASSUME file \in Files, arrived \in 0 .. End, NEW s \in State, Counted(s), Reading(s),
         s.full_buffer = (file.multi \/ s.buffered_image), NEW t, t = consume_input(s)
  PROVE  /\ Advanced(s, t) /\ (t.ret = "error" \/ Reading(t))
         /\ ~s.full_buffer /\ t.ret # "error" => t.input_row = s.input_row
<1>1. s.consume \in {"markers", "data", "dummy"} /\ s.input_row \in 0 .. Rows /\ s.input_scan \in Nat
  BY ONLY s \in State DEF State
<1>2. CASE s.consume = "markers"
  <2>1. t = consume_markers(s)
    BY <1>2 DEF consume_input
  <2> QED BY <2>1, <1>2, MarkersConsumed
<1>3. CASE s.consume = "data"
  <2>1. t = consume_data(s) /\ s.input_row < Rows /\ s.full_buffer
    BY <1>1, <1>3, SizesNat DEF consume_input, Reading
  <2> QED BY <2>1, DataConsumed
<1>4. CASE s.consume = "dummy"
  <2>1. t = [s EXCEPT !.ret = "suspended"]
    BY <1>4 DEF consume_input, dummy_consume_data
  <2>2. /\ t \in State /\ t.ret = "suspended" /\ SameControl(s, t) /\ SameInput(s, t)
        /\ t.output_scan = s.output_scan
    BY ONLY <2>1, s \in State, RetIs DEF Results, Consumed
  <2>3. Reading(t)
    BY <2>2, ReadingSame
  <2> QED BY <2>2, <2>3, <1>1, <1>4 DEF Advanced, Counted, SameInput, Consumed
<1> QED BY <1>1, <1>2, <1>3, <1>4

(* Before the first scan: in the header of the file, and at the header of  *)
(* the first scan.                                                         *)
InHeaders(s) ==
  /\ s.inheaders /\ s.input_scan = 0 /\ s.consume = "markers" /\ ~s.has_multiple_scans
  /\ ~s.eoi_reached => s.pos < End /\ s.pos <= 2

Started(s) ==
  /\ ~s.inheaders /\ s.input_scan = 1 /\ ~s.eoi_reached
  /\ s.pos = At(1) /\ At(1) < End /\ s.has_multiple_scans = file.multi

LEMMA HeaderConsumed ==
  ASSUME file \in Files, arrived \in 0 .. End, NEW s \in State, Counted(s), InHeaders(s),
         NEW t, t = consume_markers(s)
  PROVE  /\ t \in State /\ Counted(t) /\ SameControl(s, t)
         /\ t.ret \in {"SOS", "EOI", "suspended", "error"}
         /\ IF t.ret = "SOS" THEN Started(t) ELSE InHeaders(t)
         /\ t.ret = "suspended" => t.pos = arrived
<1>1. /\ s.pos \in Nat /\ s.pos <= arrived /\ arrived \in Nat /\ arrived <= End
      /\ End \in Nat \ {0} /\ s.output_scan \in Nat /\ N \in Nat
  <2>1. s.pos \in Nat /\ s.output_scan \in Nat
    BY ONLY s \in State DEF State
  <2>2. s.pos \in 0 .. arrived
    BY DEF Counted
  <2>3. End \in Nat \ {0} /\ N \in Nat
    BY UnitIs
  <2> QED BY <2>1, <2>2, <2>3
<1>2. s.inheaders /\ s.input_scan = 0 /\ s.consume = "markers" /\ ~s.has_multiple_scans
  BY DEF InHeaders
<1>3. CASE s.eoi_reached
  <2>1. t = [s EXCEPT !.ret = "EOI"]
    BY <1>3 DEF consume_markers
  <2>2. /\ t \in State /\ t.ret = "EOI" /\ SameControl(s, t) /\ SameInput(s, t)
        /\ t.output_scan = s.output_scan
    BY ONLY <2>1, s \in State, RetIs DEF Results, Consumed
  <2>3. InHeaders(t) /\ Counted(t)
    BY <2>2, <1>3 DEF SameInput, InHeaders, Counted
  <2> QED BY <2>2, <2>3
<1>4. CASE ~s.eoi_reached
  <2> DEFINE ends == {i \in s.pos + 1 .. arrived : Unit[i].is \in {"SOS", "EOI"}}
  <2>1. consume_markers(s) =
          IF ends = {} THEN [Passed(s, arrived) EXCEPT !.ret = "suspended"]
          ELSE MarkerRead(s, CHOOSE i \in ends : \A j \in ends : i <= j)
    BY <1>4 DEF consume_markers
  <2>2. s.pos < End /\ s.pos <= 2
    BY <1>4 DEF InHeaders
  <2>3. At(1) = 3
    <3>1. (1 - 1) * ScanUnits = 0
      BY SizesNat, SMT
    <3> QED BY <3>1 DEF At
  <2>4. 3 < End => Unit[3] = [is |-> "SOS"] /\ 1 <= N
    <3>1. 1 \in Nat \ {0}
      OBVIOUS
    <3> QED BY <3>1, <2>3, LayoutIs
  <2>5. Unit[End].is = "EOI"
    BY UnitIs
  <2>6. CASE ends = {}
    <3>1. arrived < End /\ arrived <= 2
      <4>1. arrived # End
        <5>1. arrived = End => End \in ends
          BY <1>1, <2>2, <2>5
        <5> QED BY <5>1, <2>6
      <4>2. arrived <= 2
        <5>1. ~(arrived <= 2) => 3 \in ends
          BY <4>1, <1>1, <2>2, <2>4
        <5> QED BY <5>1, <2>6
      <4> QED BY <4>1, <4>2, <1>1
    <3> DEFINE u == Passed(s, arrived)
    <3>2. /\ u \in State /\ SameControl(s, u) /\ u.pos = arrived
          /\ u.inheaders = s.inheaders /\ u.eoi_reached = s.eoi_reached
          /\ u.has_multiple_scans = s.has_multiple_scans /\ u.consume = s.consume
          /\ u.input_scan = s.input_scan
      <4>1. u = Passed(s, arrived) /\ arrived \in Nat
        BY <1>1
      <4> HIDE DEF u
      <4> QED BY ONLY s \in State, <4>1, PassedIs
    <3>3. t = [u EXCEPT !.ret = "suspended"]
      BY <2>1, <2>6
    <3> HIDE DEF u
    <3>4. u \in State
      BY <3>2
    <3>5. /\ t \in State /\ t.ret = "suspended" /\ SameControl(u, t) /\ SameInput(u, t)
          /\ t.output_scan = u.output_scan
      BY ONLY <3>3, <3>4, RetIs DEF Results, Consumed
    <3>6. SameControl(s, t)
      BY ONLY <3>2, <3>5 DEF SameControl
    <3>7. t.pos = arrived /\ InHeaders(t)
      BY <3>1, <3>2, <3>5, <1>2 DEF SameInput, InHeaders
    <3>8. Counted(t)
      BY <3>2, <3>5, <1>1, <1>2 DEF Counted, SameInput
    <3> QED BY <3>5, <3>6, <3>7, <3>8
  <2>7. CASE ends # {}
    <3>1. ends \in SUBSET Nat
      BY <1>1
    <3>2. \E i \in ends : \A j \in ends : i <= j
      <4> HIDE DEF ends
      <4> QED BY <2>7, <3>1, HasLeast
    <3> DEFINE p == CHOOSE i \in ends : \A j \in ends : i <= j
    <3>3. p \in ends /\ \A j \in ends : p <= j
      BY <3>2
    <3>4. t = MarkerRead(s, p)
      BY <2>1, <2>7
    <3> HIDE DEF p
    <3>5. p \in Nat /\ s.pos < p /\ p <= arrived /\ p <= End /\ Unit[p].is \in {"SOS", "EOI"}
      BY <3>3, <1>1
    <3>6. IF Unit[p].is = "EOI" THEN p = End ELSE p = At(1) /\ p < End
      <4>0. p \in 1 .. End
        BY <3>5, <1>1
      <4>1. Unit[p].is = "EOI" => p = End
        BY <4>0, UnitsAre
      <4>2. ASSUME Unit[p].is = "SOS" PROVE p = At(1) /\ p < End
        <5>1. PICK n \in Nat \ {0} : p = At(n)
          BY <4>0, <4>2, UnitsAre
        <5>2. p < End
          BY <4>0, <4>2, UnitsAre
        <5>3. 3 <= p
          <6>1. [row |-> 0, col |-> 0] \in Cell
            BY SizesNat DEF Cell
          <6> QED BY <5>1, <6>1, PlaceIs
        <5>4. 3 \in ends
          BY <5>2, <5>3, <3>5, <1>1, <2>2, <2>4
        <5> QED BY <5>2, <5>3, <5>4, <3>3, <3>5, <2>3
      <4> QED BY <4>1, <4>2, <3>5
    <3> DEFINE u == Passed(s, p)
    <3>7. /\ u \in State /\ SameControl(s, u) /\ u.pos = p
          /\ u.inheaders = s.inheaders /\ u.eoi_reached = s.eoi_reached
          /\ u.has_multiple_scans = s.has_multiple_scans /\ u.consume = s.consume
          /\ u.input_scan = s.input_scan
      <4>1. u = Passed(s, p) /\ p \in Nat
        BY <3>5
      <4> HIDE DEF u
      <4> QED BY ONLY s \in State, <4>1, PassedIs
    <3>8. t = IF Unit[p].is = "EOI" THEN AtEOI(u) ELSE AtSOS([u EXCEPT !.input_scan = @ + 1])
      BY <3>4 DEF MarkerRead
    <3> HIDE DEF u
    <3>9. CASE Unit[p].is = "EOI"
      <4>1. t = AtEOI(u) /\ u \in State
        BY <3>7, <3>8, <3>9
      <4>2. /\ t \in State /\ SameControl(u, t) /\ t.eoi_reached /\ t.pos = u.pos
            /\ t.inheaders = u.inheaders /\ t.has_multiple_scans = u.has_multiple_scans
            /\ t.consume = u.consume /\ t.input_scan = u.input_scan
            /\ t.ret = (IF u.inheaders /\ u.saw_SOF THEN "error" ELSE "EOI")
        BY ONLY <4>1, AtEoiIs
      <4>3. SameControl(s, t)
        BY ONLY <3>7, <4>2 DEF SameControl
      <4>4. InHeaders(t)
        BY <3>7, <4>2, <1>2 DEF InHeaders
      <4>5. Counted(t)
        BY <3>5, <3>7, <4>2, <1>1, <1>2 DEF Counted
      <4> QED BY <4>2, <4>3, <4>4, <4>5
    <3>10. CASE Unit[p].is # "EOI"
      <4> DEFINE v == [u EXCEPT !.input_scan = 1]
      <4>1. t = AtSOS(v)
        <5>1. u.input_scan + 1 = 1
          BY <3>7, <1>2
        <5> QED BY <3>8, <3>10, <5>1
      <4>2. p = At(1) /\ p < End /\ 1 <= N
        BY <3>6, <3>10, <2>3, <2>4
      <4>3. /\ v \in State /\ SameControl(u, v) /\ v.pos = u.pos
            /\ v.inheaders = u.inheaders /\ v.eoi_reached = u.eoi_reached /\ v.input_scan = 1
        <5>1. u \in State /\ 1 \in Nat
          BY <3>7
        <5>2. v \in State
          BY ONLY <5>1 DEF State
        <5> QED BY ONLY <5>1, <5>2 DEF State, SameControl
      <4> HIDE DEF v
      <4>4. v \in State
        BY <4>3
      <4>5. /\ t \in State /\ SameControl(v, t) /\ t.pos = v.pos
            /\ t.eoi_reached = v.eoi_reached /\ t.input_scan = v.input_scan
            /\ v.inheaders => /\ ~t.inheaders /\ t.has_multiple_scans = file.multi /\ t.ret = "SOS"
        BY ONLY file \in Files, <4>1, <4>4, AtSosIs
      <4>6. SameControl(s, t)
        <5>1. SameControl(s, u) /\ SameControl(u, v) /\ SameControl(v, t)
          BY <3>7, <4>3, <4>5
        <5> QED BY ONLY <5>1 DEF SameControl
      <4>7. Started(t) /\ t.ret = "SOS"
        BY <3>7, <4>2, <4>3, <4>5, <1>2, <1>4 DEF Started
      <4>8. Counted(t)
        BY <3>5, <3>7, <4>2, <4>3, <4>5, <1>1 DEF Counted
      <4> QED BY <4>5, <4>6, <4>7, <4>8
    <3> QED BY <3>9, <3>10
  <2> QED BY <2>6, <2>7
<1> QED BY <1>3, <1>4
-----------------------------------------------------------------------------
(* A row that was put out is as good as the scan shown and, if it was the  *)
(* whole image that was asked for, as the last one.                        *)
Final == IF file.multi THEN N ELSE 1

GoodRow(s, row, r) ==
  \A col \in 0 .. Cols - 1 : LET c == [row |-> r, col |-> col] IN
    /\ \E n \in 0 .. s.input_scan : row[col] = FromFile(c, n)
    /\ row[col] >= FromFile(c, s.output_scan)
    /\ ~s.buffered_image => row[col] = FromFile(c, Final)

Showing(s, shown) ==
  /\ \A i \in 1 .. Len(s.saved) : GoodRow(s, s.saved[i], i - 1)
  /\ \A i \in 1 .. Len(shown) : GoodRow(s, shown[i], i - 1)
  /\ IF s.is_dummy_pass
     THEN Len(s.saved) = s.output_line /\ s.output_row = s.output_line /\ shown = <<>>
     ELSE /\ IF s.saved = <<>> THEN s.output_row = s.output_line ELSE Len(s.saved) = Rows
          /\ Len(shown) = s.output_line
  /\ s.smoothing => /\ s.full_buffer
                    /\ \E n \in 1 .. s.input_scan : file.scans[n] = "dc"

(* Without a buffer output and input are in the same row. *)
Abreast(s) == ~s.full_buffer /\ s.ret # "error" => s.output_row = s.input_row

LEMMA GoodRowKept ==
  ASSUME file \in Files, NEW s \in State, NEW t \in State, NEW row \in Row, NEW r \in 0 .. Rows - 1,
         t.buffered_image = s.buffered_image, s.input_scan <= t.input_scan,
         t.output_scan <= s.output_scan, GoodRow(s, row, r)
  PROVE  GoodRow(t, row, r)
<1> SUFFICES ASSUME NEW col \in 0 .. Cols - 1
             PROVE  LET c == [row |-> r, col |-> col] IN
                      /\ \E n \in 0 .. t.input_scan : row[col] = FromFile(c, n)
                      /\ row[col] >= FromFile(c, t.output_scan)
                      /\ ~t.buffered_image => row[col] = FromFile(c, Final)
  BY DEF GoodRow
<1> DEFINE c == [row |-> r, col |-> col]
<1>1. c \in Cell /\ row[col] \in Int
  BY DEF Cell, Row
<1>2. /\ s.input_scan \in Nat /\ s.output_scan \in Nat
  BY ONLY s \in State DEF State
<1>3. /\ t.input_scan \in Nat /\ t.output_scan \in Nat
  BY ONLY t \in State DEF State
<1>4. /\ \E n \in 0 .. s.input_scan : row[col] = FromFile(c, n)
      /\ row[col] >= FromFile(c, s.output_scan)
      /\ ~s.buffered_image => row[col] = FromFile(c, Final)
  BY DEF GoodRow
<1> HIDE DEF c
<1>5. /\ FromFile(c, t.output_scan) <= FromFile(c, s.output_scan)
      /\ FromFile(c, t.output_scan) \in Nat /\ FromFile(c, s.output_scan) \in Nat
  <2>1. t.output_scan \in 0 .. s.output_scan
    BY <1>2, <1>3
  <2> QED BY <2>1, <1>1, <1>2, <1>3, FromFileSteps, FromFileIs
<1>6. \E n \in 0 .. t.input_scan : row[col] = FromFile(c, n)
  BY <1>2, <1>3, <1>4
<1>7. row[col] >= FromFile(c, t.output_scan)
  BY <1>1, <1>4, <1>5
<1> QED BY <1>4, <1>6, <1>7 DEF c

LEMMA ShowingKept ==
  ASSUME file \in Files, NEW s \in State, NEW t \in State, NEW o \in Seq(Row), Showing(s, o),
         SameControl(s, t), s.input_scan <= t.input_scan, t.output_scan <= s.output_scan
  PROVE  Showing(t, o)
<1>1. /\ s.saved \in Seq(Row) /\ s.input_scan \in Nat /\ s.output_line \in 0 .. Rows
  BY ONLY s \in State DEF State
<1>2. t.input_scan \in Nat
  BY ONLY t \in State DEF State
<1>3. /\ t.buffered_image = s.buffered_image /\ t.smoothing = s.smoothing
      /\ t.is_dummy_pass = s.is_dummy_pass /\ t.full_buffer = s.full_buffer
      /\ t.output_row = s.output_row /\ t.output_line = s.output_line /\ t.saved = s.saved
  BY DEF SameControl
<1>4. Len(s.saved) <= Rows /\ Len(o) <= Rows /\ Rows \in Nat
  BY <1>1, SizesNat DEF Showing
<1>5. ASSUME NEW i \in 1 .. Len(s.saved) PROVE GoodRow(t, s.saved[i], i - 1)
  <2>1. GoodRow(s, s.saved[i], i - 1) /\ s.saved[i] \in Row /\ i - 1 \in 0 .. Rows - 1
    BY <1>1, <1>4 DEF Showing
  <2> QED BY <2>1, <1>3, GoodRowKept
<1>6. ASSUME NEW i \in 1 .. Len(o) PROVE GoodRow(t, o[i], i - 1)
  <2>1. GoodRow(s, o[i], i - 1) /\ o[i] \in Row /\ i - 1 \in 0 .. Rows - 1
    BY <1>1, <1>4 DEF Showing
  <2> QED BY <2>1, <1>3, GoodRowKept
<1>7. t.smoothing => /\ t.full_buffer
                     /\ \E n \in 1 .. t.input_scan : file.scans[n] = "dc"
  BY <1>1, <1>2, <1>3 DEF Showing
<1>8. IF t.is_dummy_pass
      THEN Len(t.saved) = t.output_line /\ t.output_row = t.output_line /\ o = <<>>
      ELSE /\ IF t.saved = <<>> THEN t.output_row = t.output_line ELSE Len(t.saved) = Rows
           /\ Len(o) = t.output_line
  BY <1>3 DEF Showing
<1> QED BY <1>3, <1>5, <1>6, <1>7, <1>8 DEF Showing

(* The row that is put out. *)
Shown(s, cranking) == IF cranking THEN s.saved[s.output_line + 1] ELSE RowOf(s, s.output_row)

LEMMA EmittedIs ==
  ASSUME NEW s \in State, s.output_line < Rows, NEW cranking \in BOOLEAN,
         cranking => Len(s.saved) = Rows, ~cranking => s.output_row < Rows,
         NEW t, t = Emitted(s, cranking)
  PROVE  /\ t \in State /\ Shown(s, cranking) \in Row /\ SameInput(s, t)
         /\ t.global_state = s.global_state /\ t.buffered_image = s.buffered_image
         /\ t.two_pass = s.two_pass /\ t.smoothing = s.smoothing /\ t.colormap = s.colormap
         /\ t.is_dummy_pass = s.is_dummy_pass /\ t.raw = s.raw /\ t.output_scan = s.output_scan
         /\ t.output_line = s.output_line + 1 /\ t.ret = "row"
         /\ t.output_row = (IF cranking THEN s.output_row ELSE s.output_row + 1)
         /\ t.saved = (IF s.is_dummy_pass THEN Append(s.saved, Shown(s, cranking)) ELSE s.saved)
<1> DEFINE row == Shown(s, cranking)
           a == IF cranking THEN s.output_row ELSE s.output_row + 1
           b == IF s.is_dummy_pass THEN Append(s.saved, row) ELSE s.saved
           e == s.output_line + 1
<1>1. /\ s.saved \in Seq(Row) /\ s.output_row \in 0 .. Rows /\ s.output_line \in 0 .. Rows
      /\ s.coefs \in [Cell -> Int]
  BY ONLY s \in State DEF State
<1>2. row \in Row
  <2>1. CASE cranking
    BY <2>1, <1>1, SizesNat DEF Shown
  <2>2. CASE ~cranking
    <3>1. \A col \in 0 .. Cols - 1 : [row |-> s.output_row, col |-> col] \in Cell
      BY <2>2, <1>1, SizesNat DEF Cell
    <3> QED BY <2>2, <3>1, <1>1 DEF Shown, RowOf, Row
  <2> QED BY <2>1, <2>2
<1>3. t = [s EXCEPT !.output_line = e, !.output_row = a, !.saved = b, !.ret = "row"]
  BY DEF Emitted, Shown
<1>4. e \in 0 .. Rows /\ a \in 0 .. Rows /\ b \in Seq(Row)
  <2>1. e \in 0 .. Rows /\ a \in 0 .. Rows
    BY <1>1, SizesNat
  <2>2. b \in Seq(Row)
    <3> HIDE DEF row
    <3> QED BY <1>1, <1>2
  <2> QED BY <2>1, <2>2
<1> HIDE DEF a, b, e, row
<1>5. t \in State
  BY ONLY <1>3, <1>4, s \in State DEF State, Results, Consumed
<1>6. /\ SameInput(s, t)
      /\ t.global_state = s.global_state /\ t.buffered_image = s.buffered_image
      /\ t.two_pass = s.two_pass /\ t.smoothing = s.smoothing /\ t.colormap = s.colormap
      /\ t.is_dummy_pass = s.is_dummy_pass /\ t.raw = s.raw /\ t.output_scan = s.output_scan
      /\ t.output_line = e /\ t.ret = "row" /\ t.output_row = a /\ t.saved = b
  BY ONLY <1>3, s \in State DEF State, SameInput
<1> QED BY <1>2, <1>5, <1>6 DEF a, b, e, row

(* What is in the coefficients is good enough to be shown once the input   *)
(* is past it.                                                             *)
Ready(s, r) ==
  IF s.full_buffer
  THEN \/ s.eoi_reached \/ s.output_scan < s.input_scan
       \/ s.output_scan = s.input_scan /\ r < s.input_row
  ELSE r < s.input_row /\ s.output_scan <= s.input_scan

Wanted(s) == ~s.buffered_image => s.output_scan <= s.input_scan /\ (file.multi => s.eoi_reached)

LEMMA RowOfGood ==
  ASSUME file \in Files, NEW s \in State, Counted(s), Reading(s), Wanted(s),
         s.full_buffer = (file.multi \/ s.buffered_image), NEW r \in 0 .. Rows - 1, Ready(s, r)
  PROVE  GoodRow(s, RowOf(s, r), r)
<1> DEFINE n == s.input_scan
           m == s.output_scan
           row == RowOf(s, r)
<1> SUFFICES ASSUME NEW col \in 0 .. Cols - 1
             PROVE  LET c == [row |-> r, col |-> col] IN
                      /\ \E k \in 0 .. n : row[col] = FromFile(c, k)
                      /\ row[col] >= FromFile(c, m)
                      /\ ~s.buffered_image => row[col] = FromFile(c, Final)
  BY DEF GoodRow
<1> DEFINE c == [row |-> r, col |-> col]
<1>1. c \in Cell /\ c.row = r /\ row[col] = s.coefs[c]
  BY DEF Cell, RowOf
<1>2. n \in Nat \ {0} /\ m \in Nat /\ n <= N /\ N \in Nat /\ s.input_row \in 0 .. Rows
  <2>1. s.input_scan \in Nat /\ s.output_scan \in Nat /\ s.input_row \in 0 .. Rows
    BY ONLY s \in State DEF State
  <2>2. N \in Nat /\ n \in 0 .. N /\ n >= 1
    BY UnitIs DEF Counted, Reading
  <2> QED BY <2>1, <2>2
<1>3. s.coefs[c] = FromFile(c, IF Done(s, c) THEN n ELSE n - 1)
  BY <1>1 DEF Reading, Decoded
<1>4. r < s.input_row => Done(s, c)
  BY <1>1 DEF Done
<1>5. s.eoi_reached => Done(s, c) /\ End <= Place(n + 1, c)
  <2> SUFFICES ASSUME s.eoi_reached PROVE Done(s, c) /\ End <= Place(n + 1, c)
    OBVIOUS
  <2>1. s.input_row = Rows
    BY DEF Reading
  <2>2. Done(s, c)
    BY <2>1, <1>4, SizesNat
  <2> DEFINE e == Rows * Cols
  <2>3. End - 1 <= At(n) + e
    BY DEF Reading
  <2>4. At(n) \in Nat /\ At(n + 1) = At(n) + 1 + e /\ e \in Nat
    BY <1>1, <1>2, PlaceIs, SizesNat
  <2>5. At(n + 1) < Place(n + 1, c) /\ Place(n + 1, c) \in Nat /\ At(n + 1) \in Nat
    <3>1. n + 1 \in Nat \ {0}
      BY <1>2
    <3> QED BY <3>1, <1>1, PlaceIs
  <2>6. End \in Nat
    BY UnitIs
  <2> HIDE DEF e, c
  <2> QED BY <2>2, <2>3, <2>4, <2>5, <2>6
<1> HIDE DEF c, row
<1>6. \A k \in Nat : FromFile(c, k) \in Nat
  BY <1>1, FromFileIs
<1>7. \A k \in Nat : \A j \in 0 .. k : FromFile(c, j) <= FromFile(c, k)
  BY <1>1, FromFileSteps
<1>8. s.eoi_reached => \A k \in Nat : k >= n => FromFile(c, k) = FromFile(c, n)
  <2> SUFFICES ASSUME s.eoi_reached, NEW k \in Nat, k >= n PROVE FromFile(c, k) = FromFile(c, n)
    OBVIOUS
  <2>1. n \in 0 .. k
    BY <1>2
  <2> QED BY <2>1, <1>1, <1>5, FromFileSteps
<1>9. \E k \in 0 .. n : row[col] = FromFile(c, k)
  <2>1. n \in 0 .. n /\ n - 1 \in 0 .. n
    BY <1>2
  <2> QED BY <2>1, <1>1, <1>3
<1>10. row[col] >= FromFile(c, m)
  <2>1. CASE s.eoi_reached
    <3>1. row[col] = FromFile(c, n)
      BY <2>1, <1>1, <1>3, <1>5
    <3>2. CASE m <= n
      <4>1. m \in 0 .. n
        BY <3>2, <1>2
      <4> QED BY <4>1, <3>1, <1>2, <1>6, <1>7
    <3>3. CASE ~(m <= n)
      <4>1. FromFile(c, m) = FromFile(c, n)
        BY <2>1, <3>3, <1>2, <1>8
      <4> QED BY <4>1, <3>1, <1>2, <1>6
    <3> QED BY <3>2, <3>3
  <2>2. CASE m < n
    <3>1. m \in 0 .. n - 1 /\ m \in 0 .. n /\ n - 1 \in Nat
      BY <2>2, <1>2
    <3>2. FromFile(c, m) <= FromFile(c, n) /\ FromFile(c, m) <= FromFile(c, n - 1)
      BY <3>1, <1>2, <1>7
    <3> QED BY <3>1, <3>2, <1>1, <1>2, <1>3, <1>6
  <2>3. CASE m <= n /\ r < s.input_row
    <3>1. m \in 0 .. n /\ row[col] = FromFile(c, n)
      BY <2>3, <1>1, <1>2, <1>3, <1>4
    <3> QED BY <3>1, <1>2, <1>6, <1>7
  <2> QED BY <2>1, <2>2, <2>3, <1>2 DEF Ready
<1>11. ~s.buffered_image => row[col] = FromFile(c, Final)
  <2> SUFFICES ASSUME ~s.buffered_image PROVE row[col] = FromFile(c, Final)
    OBVIOUS
  <2>1. CASE file.multi
    <3>1. s.eoi_reached /\ Final = N
      BY <2>1 DEF Wanted, Final
    <3>2. FromFile(c, N) = FromFile(c, n)
      BY <3>1, <1>2, <1>8
    <3> QED BY <3>1, <3>2, <1>1, <1>3, <1>5
  <2>2. CASE ~file.multi
    <3>1. n = 1 /\ Final = 1 /\ ~s.full_buffer
      BY <2>2 DEF Reading, Final
    <3>2. Done(s, c)
      BY <3>1, <1>4 DEF Ready
    <3> QED BY <3>1, <3>2, <1>1, <1>3
  <2> QED BY <2>1, <2>2
<1> QED BY <1>9, <1>10, <1>11 DEF c, row

(* An input that decompress_waits for has the row ready. *)
LEMMA WaitedFor ==
  ASSUME file \in Files, NEW s \in State, Reading(s), s.full_buffer, ~decompress_waits(s)
  PROVE  Ready(s, s.output_row)
<1>1. /\ s.input_scan \in Nat /\ s.output_scan \in Nat /\ s.input_row \in 0 .. Rows
      /\ s.output_row \in 0 .. Rows
  BY ONLY s \in State DEF State
<1>2. CASE s.smoothing
  <2>1. ~smooth_data_waits(s)
    BY <1>2 DEF decompress_waits
  <2> DEFINE e == IF file.scans[s.input_scan] = "dc" THEN 1 ELSE 0
  <2>2. \/ s.input_scan > s.output_scan \/ s.eoi_reached
        \/ s.input_scan = s.output_scan /\ s.input_row > s.output_row + e
    BY <2>1, <1>1 DEF smooth_data_waits
  <2>3. e \in Nat
    OBVIOUS
  <2> HIDE DEF e
  <2> QED BY <2>2, <2>3, <1>1, SizesNat DEF Ready
<1>3. CASE ~s.smoothing
  <2>1. ~decompress_data_waits(s)
    BY <1>3 DEF decompress_waits
  <2> QED BY <2>1, <1>1, SizesNat DEF Ready, decompress_data_waits
<1> QED BY <1>2, <1>3

(* What a step of a loop does that calls consume_input. *)
Consuming(s, t) ==
  /\ t \in State /\ Counted(t) /\ SameControl(s, t) /\ (t.ret = "error" \/ Reading(t))
  /\ s.input_scan <= t.input_scan /\ t.output_scan <= s.output_scan
  /\ t.output_scan = s.output_scan \/ t.output_scan = t.input_scan
  /\ s.eoi_reached => t.eoi_reached
  /\ t.ret = "suspended" => t.pos = arrived \/ t.consume = "dummy"
  /\ t.ret = "EOI" => t.eoi_reached
  /\ t.ret \in Consumed \cup {"more"}
  /\ ~s.full_buffer /\ t.ret # "error" => t.input_row = s.input_row

LEMMA InputConsumes ==
  ASSUME file \in Files, arrived \in 0 .. End, NEW s \in State, Counted(s), Reading(s),
         s.full_buffer = (file.multi \/ s.buffered_image), NEW t, t = consume_input(s)
  PROVE  Consuming(s, t) /\ t.ret \in Consumed
<1>1. /\ Advanced(s, t) /\ (t.ret = "error" \/ Reading(t))
      /\ ~s.full_buffer /\ t.ret # "error" => t.input_row = s.input_row
  BY InputConsumed
<1>2. s.output_scan \in Nat
  BY ONLY s \in State DEF State
<1>3. t \in State
  BY <1>1 DEF Advanced
<1>4. t.input_scan \in Nat /\ t.output_scan \in Nat
  BY ONLY <1>3 DEF State
<1>5. t.output_scan <= s.output_scan
  BY <1>1, <1>2, <1>4 DEF Advanced
<1> QED BY <1>1, <1>3, <1>5 DEF Advanced, Consuming

LEMMA MoreConsumes ==
  ASSUME NEW s, NEW u, Consuming(s, u), ~Stuck(u), NEW t, t = [u EXCEPT !.ret = "more"]
  PROVE  Consuming(s, t) /\ t.ret = "more"
<1>1. u \in State /\ Reading(u) /\ Counted(u) /\ u.ret # "error"
  BY DEF Consuming, Stuck
<1>2. /\ t \in State /\ t.ret = "more" /\ SameControl(u, t) /\ SameInput(u, t)
      /\ t.output_scan = u.output_scan
  BY ONLY <1>1, t = [u EXCEPT !.ret = "more"], RetIs DEF Results, Consumed
<1>3. Reading(t)
  BY <1>1, <1>2, ReadingSame
<1>4. SameControl(s, t)
  <2>1. SameControl(s, u)
    BY DEF Consuming
  <2> QED BY ONLY <2>1, <1>2 DEF SameControl
<1>5. Counted(t)
  BY <1>1, <1>2 DEF SameInput, Counted
<1>6. /\ t.input_scan = u.input_scan /\ t.eoi_reached = u.eoi_reached /\ t.input_row = u.input_row
  BY <1>2 DEF SameInput
<1>7. /\ s.input_scan <= u.input_scan /\ u.output_scan <= s.output_scan
      /\ u.output_scan = s.output_scan \/ u.output_scan = u.input_scan
      /\ s.eoi_reached => u.eoi_reached
      /\ ~s.full_buffer /\ u.ret # "error" => u.input_row = s.input_row
  BY DEF Consuming
<1> QED BY <1>1, <1>2, <1>3, <1>4, <1>5, <1>6, <1>7 DEF Consuming

(* A row more is shown. *)
LEMMA ShowingMore ==
  ASSUME file \in Files, NEW s \in State, NEW o \in Seq(Row), Showing(s, o), s.output_line < Rows,
         ~Cranking(s) => s.output_row < Rows /\ GoodRow(s, RowOf(s, s.output_row), s.output_row),
         NEW t, t = Emitted(s, Cranking(s))
  PROVE  Showing(t, IF s.is_dummy_pass THEN o ELSE Append(o, Shown(s, Cranking(s))))
<1> DEFINE row == Shown(s, Cranking(s))
           o2 == IF s.is_dummy_pass THEN o ELSE Append(o, row)
<1>1. /\ s.saved \in Seq(Row) /\ s.input_scan \in Nat /\ s.output_line \in 0 .. Rows
      /\ s.output_row \in 0 .. Rows /\ Len(s.saved) \in Nat /\ Len(o) \in Nat
      /\ s.is_dummy_pass \in BOOLEAN
  BY ONLY s \in State, o \in Seq(Row) DEF State
<1>2. Cranking(s) => Len(s.saved) = Rows /\ ~s.is_dummy_pass
  BY DEF Cranking, Showing
<1>3. Cranking(s) \in BOOLEAN
  BY DEF Cranking
<1>4. /\ t \in State /\ row \in Row /\ SameInput(s, t)
      /\ t.global_state = s.global_state /\ t.buffered_image = s.buffered_image
      /\ t.two_pass = s.two_pass /\ t.smoothing = s.smoothing /\ t.colormap = s.colormap
      /\ t.is_dummy_pass = s.is_dummy_pass /\ t.raw = s.raw /\ t.output_scan = s.output_scan
      /\ t.output_line = s.output_line + 1 /\ t.ret = "row"
      /\ t.output_row = (IF Cranking(s) THEN s.output_row ELSE s.output_row + 1)
      /\ t.saved = (IF s.is_dummy_pass THEN Append(s.saved, row) ELSE s.saved)
  BY <1>2, <1>3, EmittedIs
<1>5. t.input_scan = s.input_scan /\ t.full_buffer = s.full_buffer
  BY <1>4 DEF SameInput
<1>6. ~Cranking(s) => s.output_row = s.output_line
  BY DEF Cranking, Showing
<1>7. GoodRow(s, row, s.output_line)
  <2>1. CASE Cranking(s)
    <3>1. s.output_line + 1 \in 1 .. Len(s.saved) /\ (s.output_line + 1) - 1 = s.output_line
      BY <2>1, <1>1, <1>2, SizesNat
    <3> QED BY <2>1, <3>1 DEF Showing, Shown
  <2>2. CASE ~Cranking(s)
    BY <2>2, <1>6 DEF Shown
  <2> QED BY <2>1, <2>2
<1>8. ASSUME NEW x \in Row, NEW r, GoodRow(s, x, r) PROVE GoodRow(t, x, r)
  BY <1>4, <1>5, <1>8 DEF GoodRow
<1> HIDE DEF row
<1>9. Len(Append(o, row)) = Len(o) + 1 /\ \A i \in 1 .. Len(o) : Append(o, row)[i] = o[i]
      /\ Append(o, row)[Len(o) + 1] = row
  BY <1>4
<1>10. /\ Len(Append(s.saved, row)) = Len(s.saved) + 1
       /\ \A i \in 1 .. Len(s.saved) : Append(s.saved, row)[i] = s.saved[i]
       /\ Append(s.saved, row)[Len(s.saved) + 1] = row
  BY <1>1, <1>4
<1>11. \A i \in 1 .. Len(t.saved) : GoodRow(t, t.saved[i], i - 1)
  <2> SUFFICES ASSUME NEW i \in 1 .. Len(t.saved) PROVE GoodRow(t, t.saved[i], i - 1)
    OBVIOUS
  <2>1. ASSUME i \in 1 .. Len(s.saved), t.saved[i] = s.saved[i] PROVE GoodRow(t, t.saved[i], i - 1)
    <3>1. GoodRow(s, s.saved[i], i - 1) /\ s.saved[i] \in Row
      BY <2>1, <1>1 DEF Showing
    <3> QED BY <2>1, <3>1, <1>8
  <2>2. CASE s.is_dummy_pass
    <3>1. Len(s.saved) = s.output_line /\ Len(t.saved) = Len(s.saved) + 1
      BY <2>2, <1>4, <1>10 DEF Showing
    <3>2. CASE i = Len(s.saved) + 1
      <4>1. t.saved[i] = row /\ i - 1 = s.output_line
        BY <2>2, <3>1, <3>2, <1>1, <1>4, <1>10
      <4> QED BY <4>1, <1>4, <1>7, <1>8
    <3>3. CASE i # Len(s.saved) + 1
      <4>1. i \in 1 .. Len(s.saved)
        BY <3>1, <3>3, <1>1
      <4> QED BY <2>1, <2>2, <4>1, <1>4, <1>10
    <3> QED BY <3>2, <3>3
  <2>3. CASE ~s.is_dummy_pass
    BY <2>1, <2>3, <1>4
  <2> QED BY <2>2, <2>3
<1>12. \A i \in 1 .. Len(o2) : GoodRow(t, o2[i], i - 1)
  <2> SUFFICES ASSUME NEW i \in 1 .. Len(o2) PROVE GoodRow(t, o2[i], i - 1)
    OBVIOUS
  <2>1. ASSUME i \in 1 .. Len(o), o2[i] = o[i] PROVE GoodRow(t, o2[i], i - 1)
    <3>1. GoodRow(s, o[i], i - 1) /\ o[i] \in Row
      BY <2>1 DEF Showing
    <3> QED BY <2>1, <3>1, <1>8
  <2>2. CASE s.is_dummy_pass
    BY <2>1, <2>2
  <2>3. CASE ~s.is_dummy_pass
    <3>1. Len(o) = s.output_line /\ o2 = Append(o, row)
      BY <2>3 DEF Showing
    <3> HIDE DEF o2
    <3>2. CASE i = Len(o) + 1
      <4>1. o2[i] = row /\ i - 1 = s.output_line
        BY <3>1, <3>2, <1>1, <1>9
      <4> QED BY <4>1, <1>4, <1>7, <1>8
    <3>3. CASE i # Len(o) + 1
      <4>1. i \in 1 .. Len(o)
        BY <3>1, <3>3, <1>1, <1>9
      <4> QED BY <2>1, <4>1, <3>1, <1>9
    <3> QED BY <3>2, <3>3
  <2> QED BY <2>2, <2>3
<1>13. IF t.is_dummy_pass
       THEN Len(t.saved) = t.output_line /\ t.output_row = t.output_line /\ o2 = <<>>
       ELSE /\ IF t.saved = <<>> THEN t.output_row = t.output_line ELSE Len(t.saved) = Rows
            /\ Len(o2) = t.output_line
  <2>1. CASE s.is_dummy_pass
    <3>1. ~Cranking(s)
      BY <2>1 DEF Cranking
    <3> QED BY <2>1, <3>1, <1>1, <1>4, <1>6, <1>10 DEF Showing
  <2>2. CASE ~s.is_dummy_pass
    <3>1. t.saved = s.saved /\ Len(o) = s.output_line /\ Len(o2) = t.output_line
      BY <2>2, <1>1, <1>4, <1>9 DEF Showing
    <3>2. CASE Cranking(s)
      BY <2>2, <3>1, <3>2, <1>2, <1>4 DEF Cranking
    <3>3. CASE ~Cranking(s)
      BY <2>2, <3>1, <3>3, <1>4, <1>6 DEF Cranking
    <3> QED BY <3>2, <3>3
  <2> QED BY <2>1, <2>2
<1>14. t.smoothing => /\ t.full_buffer
                      /\ \E n \in 1 .. t.input_scan : file.scans[n] = "dc"
  BY <1>4, <1>5 DEF Showing
<1> HIDE DEF o2
<1>15. Showing(t, o2)
  BY <1>11, <1>12, <1>13, <1>14 DEF Showing
<1> QED BY <1>15 DEF o2, row

(* A step towards a row shown either consumes input or makes the row.      *)
Making(s, o) ==
  /\ s \in State /\ Counted(s) /\ Reading(s) /\ s.full_buffer = (file.multi \/ s.buffered_image)
  /\ Wanted(s) /\ Showing(s, o) /\ Abreast(s) /\ s.ret # "error" /\ s.output_line < Rows
  /\ o \in Seq(Row)

RowMade(s, t) == IF Cranking(s) THEN s.saved[s.output_line + 1] ELSE RowOf(t, s.output_row)

Made(s, t, o) ==
  /\ t \in State /\ Counted(t) /\ Reading(t) /\ t.ret = "row" /\ RowMade(s, t) \in Row
  /\ t.global_state = s.global_state /\ t.buffered_image = s.buffered_image
  /\ t.is_dummy_pass = s.is_dummy_pass /\ t.full_buffer = s.full_buffer
  /\ t.input_scan = s.input_scan /\ t.output_scan = s.output_scan
  /\ s.eoi_reached => t.eoi_reached
  /\ t.output_line = s.output_line + 1 /\ Abreast(t)
  /\ Showing(t, IF s.is_dummy_pass THEN o ELSE Append(o, RowMade(s, t)))

LEMMA MadeByEmitting ==
  ASSUME file \in Files, NEW s, NEW o, Making(s, o), NEW u \in State, Counted(u), Reading(u),
         SameControl(s, u), u.input_scan = s.input_scan, u.output_scan = s.output_scan,
         s.eoi_reached => u.eoi_reached,
         ~Cranking(s) => u.output_row < Rows /\ Ready(u, u.output_row),
         ~u.full_buffer => u.input_row = IF Cranking(s) THEN u.output_row ELSE u.output_row + 1,
         NEW t, t = Emitted(u, Cranking(s))
  PROVE  Made(s, t, o)
<1>1. /\ Cranking(u) = Cranking(s) /\ Cranking(u) \in BOOLEAN /\ u.output_line < Rows
      /\ u.buffered_image = s.buffered_image /\ u.full_buffer = s.full_buffer
      /\ u.saved = s.saved /\ u.output_line = s.output_line /\ u.output_row = s.output_row
      /\ u.is_dummy_pass = s.is_dummy_pass /\ u.global_state = s.global_state
  BY DEF Cranking, SameControl, Making
<1>2. s \in State /\ o \in Seq(Row) /\ Showing(s, o)
  BY DEF Making
<1>3. s.input_scan \in Nat /\ s.output_scan \in Nat
  BY ONLY <1>2 DEF State
<1>4. Showing(u, o)
  <2>1. s.input_scan <= u.input_scan /\ u.output_scan <= s.output_scan
    BY <1>3
  <2> QED BY <1>2, <2>1, ShowingKept
<1>5. u.output_row \in 0 .. Rows
  BY ONLY u \in State DEF State
<1>6. ~Cranking(u) => u.output_row < Rows /\ GoodRow(u, RowOf(u, u.output_row), u.output_row)
  <2> SUFFICES ASSUME ~Cranking(u)
               PROVE  u.output_row < Rows /\ GoodRow(u, RowOf(u, u.output_row), u.output_row)
    OBVIOUS
  <2>1. u.output_row \in 0 .. Rows - 1 /\ Ready(u, u.output_row)
    BY <1>1, <1>5, SizesNat
  <2>2. Wanted(u) /\ u.full_buffer = (file.multi \/ u.buffered_image)
    BY <1>1 DEF Making, Wanted
  <2> QED BY <2>1, <2>2, <1>1, RowOfGood
<1>7. t = Emitted(u, Cranking(u))
  BY <1>1
<1>8. Showing(t, IF u.is_dummy_pass THEN o ELSE Append(o, Shown(u, Cranking(u))))
  BY ONLY file \in Files, u \in State, <1>1, <1>2, <1>4, <1>6, <1>7, ShowingMore
<1>9. Cranking(u) => Len(u.saved) = Rows
  BY <1>4 DEF Cranking, Showing
<1>10. /\ t \in State /\ Shown(u, Cranking(u)) \in Row /\ SameInput(u, t)
       /\ t.global_state = u.global_state /\ t.buffered_image = u.buffered_image
       /\ t.is_dummy_pass = u.is_dummy_pass /\ t.output_scan = u.output_scan
       /\ t.output_line = u.output_line + 1 /\ t.ret = "row"
       /\ t.output_row = (IF Cranking(u) THEN u.output_row ELSE u.output_row + 1)
  BY ONLY u \in State, <1>1, <1>6, <1>7, <1>9, EmittedIs
<1>11. /\ t.coefs = u.coefs /\ t.input_scan = u.input_scan /\ t.eoi_reached = u.eoi_reached
       /\ t.full_buffer = u.full_buffer /\ t.input_row = u.input_row /\ t.pos = u.pos
  BY <1>10 DEF SameInput
<1>12. RowMade(s, t) = Shown(u, Cranking(u))
  BY <1>1, <1>11 DEF RowMade, Shown, RowOf
<1>13. Reading(t) /\ Counted(t)
  BY <1>10, <1>11, ReadingSame DEF Counted
<1>14. Abreast(t)
  BY <1>1, <1>10, <1>11 DEF Abreast
<1> QED BY <1>1, <1>8, <1>10, <1>11, <1>12, <1>13, <1>14 DEF Made

LEMMA Processed ==
  ASSUME file \in Files, arrived \in 0 .. End, NEW s, NEW o, Making(s, o),
         NEW t, t = main_process_data(s)
  PROVE  \/ Consuming(s, t) /\ Showing(t, o) /\ Abreast(t)
         \/ Made(s, t, o)
<1>1. /\ s \in State /\ Counted(s) /\ Reading(s) /\ s.full_buffer = (file.multi \/ s.buffered_image)
      /\ Wanted(s) /\ Showing(s, o) /\ Abreast(s) /\ s.ret # "error" /\ s.output_line < Rows
      /\ o \in Seq(Row)
  BY DEF Making
<1>2. /\ s.input_scan \in Nat /\ s.output_scan \in Nat /\ s.input_row \in 0 .. Rows
      /\ s.output_row \in 0 .. Rows /\ s.output_line \in 0 .. Rows /\ s.full_buffer \in BOOLEAN
  BY ONLY <1>1 DEF State
<1>3. SameControl(s, s)
  BY DEF SameControl
<1>4. ~Cranking(s) => s.output_row = s.output_line /\ s.output_row < Rows
  BY <1>1 DEF Cranking, Showing
<1>5. CASE Cranking(s)
  <2>1. t = Emitted(s, Cranking(s))
    BY <1>5 DEF main_process_data
  <2>2. ~s.full_buffer => s.input_row = IF Cranking(s) THEN s.output_row ELSE s.output_row + 1
    BY <1>1, <1>5 DEF Abreast
  <2>3. Made(s, t, o)
    BY ONLY file \in Files, Making(s, o), <1>1, <1>3, <1>5, <2>1, <2>2, MadeByEmitting
  <2> QED BY <2>3
<1>6. CASE ~Cranking(s) /\ ~s.full_buffer
  <2> DEFINE u == consume_data(s)
  <2>1. t = EmittedRow(u)
    BY <1>6 DEF main_process_data, decompress_onepass
  <2>2. s.input_row < Rows /\ s.input_row = s.output_row
    BY <1>1, <1>4, <1>6 DEF Abreast
  <2>3. /\ Advanced(s, u) /\ Reading(u) /\ u.input_scan = s.input_scan
        /\ u.output_scan = s.output_scan /\ u.ret # "error"
        /\ IF u.ret \in {"row", "scan"} THEN u.input_row = s.input_row + 1
           ELSE u.input_row = s.input_row
    BY <1>1, <2>2, DataConsumed
  <2> HIDE DEF u
  <2>4. u \in State /\ Counted(u) /\ SameControl(s, u) /\ (s.eoi_reached => u.eoi_reached)
    BY <2>3 DEF Advanced
  <2>5. u.output_row = s.output_row /\ u.full_buffer = s.full_buffer /\ u.buffered_image = s.buffered_image
    BY <2>4 DEF SameControl
  <2>6. CASE u.ret \in {"row", "scan"}
    <3>1. t = Emitted(u, Cranking(s))
      <4>1. Cranking(s) = FALSE
        BY <1>6 DEF Cranking
      <4> QED BY <2>1, <2>6, <4>1 DEF EmittedRow
    <3>2. ~Cranking(s) => u.output_row < Rows /\ Ready(u, u.output_row)
      <4>1. s.output_scan <= s.input_scan
        BY <1>1, <1>6 DEF Wanted
      <4> QED BY <4>1, <1>2, <1>4, <1>6, <2>2, <2>3, <2>5, <2>6 DEF Ready
    <3>3. ~u.full_buffer => u.input_row = IF Cranking(s) THEN u.output_row ELSE u.output_row + 1
      BY <1>6, <2>2, <2>3, <2>5, <2>6
    <3>4. Made(s, t, o)
      BY ONLY file \in Files, Making(s, o), <2>3, <2>4, <3>1, <3>2, <3>3, MadeByEmitting
    <3> QED BY <3>4
  <2>7. CASE u.ret \notin {"row", "scan"}
    <3>1. t = u
      BY <2>1, <2>7 DEF EmittedRow
    <3>2. s.input_scan <= u.input_scan /\ u.output_scan <= s.output_scan
      BY <1>2, <2>3
    <3>3. Consuming(s, u)
      BY <2>3, <2>4, <2>7, <3>2 DEF Consuming, Advanced
    <3>4. Showing(u, o)
      BY <1>1, <2>4, <3>2, ShowingKept
    <3>5. Abreast(u)
      BY <2>2, <2>3, <2>5, <2>7 DEF Abreast
    <3> QED BY <3>1, <3>3, <3>4, <3>5
  <2> QED BY <2>6, <2>7
<1>7. CASE ~Cranking(s) /\ s.full_buffer /\ ~decompress_waits(s)
  <2>1. t = Emitted(s, Cranking(s))
    <3>1. Cranking(s) = FALSE
      BY <1>7 DEF Cranking
    <3> QED BY <1>7, <3>1 DEF main_process_data
  <2>2. Ready(s, s.output_row)
    BY <1>1, <1>7, WaitedFor
  <2>3. Made(s, t, o)
    BY ONLY file \in Files, Making(s, o), <1>1, <1>3, <1>4, <1>7, <2>1, <2>2, MadeByEmitting
  <2> QED BY <2>3
<1>8. CASE ~Cranking(s) /\ s.full_buffer /\ decompress_waits(s)
  <2> DEFINE u == consume_input(s)
  <2>1. t = GoesOn(u)
    BY <1>8 DEF main_process_data
  <2>2. Consuming(s, u)
    BY <1>1, InputConsumes
  <2> HIDE DEF u
  <2>3. Consuming(s, t)
    <3>1. CASE Stuck(u)
      BY <2>1, <2>2, <3>1 DEF GoesOn
    <3>2. CASE ~Stuck(u)
      BY <2>1, <2>2, <3>2, MoreConsumes DEF GoesOn
    <3> QED BY <3>1, <3>2
  <2>4. t \in State /\ SameControl(s, t) /\ s.input_scan <= t.input_scan /\ t.output_scan <= s.output_scan
    BY <2>3 DEF Consuming
  <2>5. Showing(t, o)
    BY <1>1, <2>4, ShowingKept
  <2>6. Abreast(t)
    BY <2>4, <1>8 DEF Abreast, SameControl
  <2> QED BY <2>3, <2>5, <2>6
<1> QED BY <1>5, <1>6, <1>7, <1>8
-----------------------------------------------------------------------------
(* The invariant: where the decompressor is in the file, and what it has   *)
(* shown, in each of its states; and which state a running call is in.     *)
ShowingStates == {"PRESCAN", "SCANNING", "RAW_OK"}

Mode(s, o) ==
  /\ s.global_state = "INHEADER" => InHeaders(s)
  /\ s.global_state = "READY" => Started(s)
  /\ s.global_state \in Active =>
       /\ s.full_buffer = (file.multi \/ s.buffered_image) /\ s.input_scan >= 1
       /\ s.ret # "error" => Reading(s)
  /\ s.global_state \in {"PRELOAD", "PREPARE"} /\ ~s.full_buffer /\ s.ret # "error" => s.input_row = 0
  /\ s.global_state \in {"PRELOAD", "PREPARE", "SCANNING", "RAW_OK", "BUFIMAGE", "BUFPOST"}
       => ~s.is_dummy_pass
  /\ s.global_state \in ShowingStates \cup {"PREPARE"} => s.output_scan >= 1 /\ Wanted(s)
  /\ s.global_state \in ShowingStates => Showing(s, o) /\ Abreast(s)
  /\ s.global_state \in {"BUFIMAGE", "BUFPOST"} => s.buffered_image
  /\ s.global_state = "BUFPOST" => s.output_scan >= 1

Calls(s, c) ==
  /\ c \in {"none", "start_decompress", "start_output", "read_scanlines", "finish_output",
            "finish_decompress", "read_coefficients"}
  /\ s.ret = "error" => c = "none"
  /\ s.ret = "coefs" => s.global_state = "STOPPING" /\ s.eoi_reached
  /\ c = "start_decompress" => s.global_state \in {"PRELOAD", "PREPARE", "PRESCAN"}
  /\ c = "start_output" => s.global_state \in {"PREPARE", "PRESCAN"}
  /\ c = "read_scanlines" => s.global_state \in {"SCANNING", "RAW_OK"} /\ s.output_line < Rows
  /\ c = "finish_output" => s.global_state = "BUFPOST"
  /\ c = "finish_decompress" => s.global_state = "STOPPING"
  /\ c = "read_coefficients" => s.global_state = "RDCOEFS"

Good(s, c, o) ==
  s \in State /\ Counted(s) /\ o \in Seq(Row) /\ Mode(s, o) /\ Calls(s, c)

DecInv == file \in Files /\ arrived \in 0 .. End /\ images \in Nat /\ Good(d, call, out)

(* A step of the input side keeps all this. *)
LEMMA ConsumingKeeps ==
  ASSUME file \in Files, NEW s, NEW t, NEW c, NEW c2, NEW o, Good(s, c, o),
         s.global_state \in Active, s.ret # "error", Consuming(s, t),
         c2 = "none" \/ (c2 = c /\ t.ret # "error")
  PROVE  Good(t, c2, o)
<1>1. s \in State /\ Counted(s) /\ o \in Seq(Row) /\ Mode(s, o) /\ Calls(s, c)
  BY DEF Good
<1>2. /\ t \in State /\ Counted(t) /\ SameControl(s, t) /\ (t.ret = "error" \/ Reading(t))
      /\ s.input_scan <= t.input_scan /\ t.output_scan <= s.output_scan
      /\ t.output_scan = s.output_scan \/ t.output_scan = t.input_scan
      /\ s.eoi_reached => t.eoi_reached
      /\ t.ret \in Consumed \cup {"more"}
      /\ ~s.full_buffer /\ t.ret # "error" => t.input_row = s.input_row
  BY DEF Consuming
<1>3. s.input_scan \in Nat /\ s.output_scan \in Nat /\ s.global_state \in States
  BY ONLY <1>1 DEF State
<1>4. t.input_scan \in Nat /\ t.output_scan \in Nat
  BY ONLY <1>2 DEF State
<1>5. /\ t.global_state = s.global_state /\ t.buffered_image = s.buffered_image
      /\ t.is_dummy_pass = s.is_dummy_pass /\ t.full_buffer = s.full_buffer
      /\ t.output_row = s.output_row /\ t.output_line = s.output_line
  BY <1>2 DEF SameControl
<1>6. s.full_buffer = (file.multi \/ s.buffered_image) /\ s.input_scan >= 1
  BY <1>1 DEF Mode
<1>7. t.global_state \notin {"INHEADER", "READY"} /\ t.ret # "coefs"
  BY <1>2, <1>5 DEF Active, Consumed
<1>8. s.global_state \in ShowingStates \cup {"PREPARE"} => t.output_scan >= 1 /\ Wanted(t)
  <2> SUFFICES ASSUME s.global_state \in ShowingStates \cup {"PREPARE"}
               PROVE  t.output_scan >= 1 /\ Wanted(t)
    OBVIOUS
  <2>1. s.output_scan >= 1 /\ Wanted(s)
    BY <1>1 DEF Mode
  <2> QED BY <2>1, <1>2, <1>3, <1>4, <1>5, <1>6 DEF Wanted
<1>9. s.global_state \in ShowingStates => Showing(t, o) /\ Abreast(t)
  <2> SUFFICES ASSUME s.global_state \in ShowingStates
               PROVE  Showing(t, o) /\ Abreast(t)
    OBVIOUS
  <2>1. Showing(s, o) /\ Abreast(s)
    BY <1>1 DEF Mode
  <2>2. Showing(t, o)
    BY <2>1, <1>1, <1>2, ShowingKept
  <2>3. Abreast(t)
    BY <2>1, <1>2, <1>5 DEF Abreast
  <2> QED BY <2>2, <2>3
<1>10. Mode(t, o)
  <2>1. s.global_state = "BUFPOST" => t.output_scan >= 1
    <3>1. s.global_state = "BUFPOST" => s.output_scan >= 1
      BY <1>1 DEF Mode
    <3> QED BY <3>1, <1>2, <1>3, <1>4, <1>6
  <2>2. t.input_scan >= 1
    BY <1>2, <1>3, <1>4, <1>6
  <2>3. s.global_state \in {"PRELOAD", "PREPARE"} /\ ~s.full_buffer => s.input_row = 0
    BY <1>1 DEF Mode
  <2>4. /\ s.global_state \in {"PRELOAD", "PREPARE", "SCANNING", "RAW_OK", "BUFIMAGE", "BUFPOST"}
             => ~s.is_dummy_pass
        /\ s.global_state \in {"BUFIMAGE", "BUFPOST"} => s.buffered_image
    BY <1>1 DEF Mode
  <2> QED BY <2>1, <2>2, <2>3, <2>4, <1>2, <1>5, <1>6, <1>7, <1>8, <1>9 DEF Mode
<1>11. Calls(t, c2)
  BY <1>1, <1>2, <1>5, <1>7 DEF Calls
<1> QED BY <1>1, <1>2, <1>10, <1>11 DEF Good

(* The invariant after a step within one file. *)
LEMMA GoodStays ==
  ASSUME file' = file, arrived' \in Nat, arrived \in Nat, arrived <= arrived',
         NEW t, NEW c, NEW o, d' = t, call' = c, out' = o, Good(t, c, o)
  PROVE  Good(d, call, out)'
<1>1. /\ N' = N /\ End' = End /\ \A x, n : FromFile(x, n)' = FromFile(x, n)
  BY FileSame
<1>2. t \in State /\ Counted(t) /\ o \in Seq(Row) /\ Mode(t, o) /\ Calls(t, c)
  BY DEF Good
<1>3. InHeaders(d)' = InHeaders(t) /\ Started(d)' = Started(t)
  BY <1>1 DEF InHeaders, Started, At, ScanUnits
<1>4. \A x : Done(d, x)' = Done(t, x)
  BY DEF Done
<1>5. Decoded(d)' = Decoded(t)
  BY <1>1, <1>4 DEF Decoded
<1>6. Reading(d)' = Reading(t)
  BY <1>1, <1>5 DEF Reading, At, ScanUnits, Lesser
<1>7. Final' = Final
  BY <1>1 DEF Final
<1>8. \A row, r : GoodRow(d, row, r)' = GoodRow(t, row, r)
  BY <1>1, <1>7 DEF GoodRow
<1>9. Showing(d, out)' = Showing(t, o)
  BY <1>8 DEF Showing
<1>10. Wanted(d)' = Wanted(t) /\ Abreast(d)' = Abreast(t)
  BY DEF Wanted, Abreast
<1>11. Mode(d, out)'
  BY <1>2, <1>3, <1>6, <1>9, <1>10 DEF Mode
<1>12. Calls(d, call)'
  BY <1>2 DEF Calls
<1>13. Counted(d)'
  <2>1. t.pos \in 0 .. arrived'
    BY <1>2 DEF Counted
  <2> QED BY <2>1, <1>1, <1>2 DEF Counted
<1>14. (d \in State)' /\ (out \in Seq(Row))'
  BY <1>2
<1> QED BY <1>11, <1>12, <1>13, <1>14 DEF Good

LEMMA Kept ==
  ASSUME DecInv, file' = file, arrived' = arrived, images' = images,
         NEW t, NEW c, NEW o, d' = t, call' = c, out' = o, Good(t, c, o)
  PROVE  DecInv'
<1>1. arrived \in Nat /\ End' = End
  BY UnitIs, FileSame DEF DecInv
<1>2. arrived' \in Nat /\ arrived <= arrived'
  BY <1>1
<1>3. Good(d, call, out)'
  BY <1>1, <1>2, GoodStays
<1> QED BY <1>1, <1>3 DEF DecInv

(* What is known of a decompressor between calls and within one. *)
LEMMA Known ==
  ASSUME DecInv
  PROVE  /\ file \in Files /\ arrived \in 0 .. End /\ d \in State /\ Counted(d) /\ out \in Seq(Row)
         /\ Mode(d, out) /\ Calls(d, call) /\ Good(d, call, out)
         /\ d.global_state \in States /\ d.output_line \in 0 .. Rows /\ d.input_scan \in Nat
         /\ d.output_scan \in Nat /\ d.output_row \in 0 .. Rows /\ d.input_row \in 0 .. Rows
         /\ d.buffered_image \in BOOLEAN /\ d.eoi_reached \in BOOLEAN /\ d.full_buffer \in BOOLEAN
         /\ d.saved \in Seq(Row)
         /\ (Idle \/ call # "none") => d.ret # "error"
<1>1. file \in Files /\ arrived \in 0 .. End /\ d \in State /\ Counted(d) /\ out \in Seq(Row)
      /\ Mode(d, out) /\ Calls(d, call) /\ Good(d, call, out)
  BY DEF DecInv, Good
<1>2. /\ d.global_state \in States /\ d.output_line \in 0 .. Rows /\ d.input_scan \in Nat
      /\ d.output_scan \in Nat /\ d.output_row \in 0 .. Rows /\ d.input_row \in 0 .. Rows
      /\ d.buffered_image \in BOOLEAN /\ d.eoi_reached \in BOOLEAN /\ d.full_buffer \in BOOLEAN
      /\ d.saved \in Seq(Row)
  BY ONLY <1>1 DEF State
<1>3. (Idle \/ call # "none") => d.ret # "error"
  BY <1>1 DEF Idle, Calls
<1> QED BY <1>1, <1>2, <1>3

LEMMA DeliverKeeps == DecInv /\ Deliver => DecInv'
<1> SUFFICES ASSUME DecInv, Deliver PROVE DecInv'
  OBVIOUS
<1>1. /\ file' = file /\ arrived < End /\ arrived' = arrived + 1 /\ d' = d /\ call' = call /\ out' = out
      /\ images' = images
  BY DEF Deliver, End
<1>2. arrived \in 0 .. End /\ End \in Nat /\ End' = End /\ Good(d, call, out)
  BY <1>1, UnitIs, FileSame DEF DecInv
<1>3. arrived \in Nat /\ arrived' \in Nat /\ arrived <= arrived' /\ arrived' \in 0 .. End'
  BY <1>1, <1>2
<1>4. Good(d, call, out)'
  BY <1>1, <1>2, <1>3, GoodStays
<1> QED BY <1>1, <1>3, <1>4 DEF DecInv

(* A new file, of which nothing has arrived. *)
LEMMA FileBegins ==
  ASSUME NEW f \in Files
  PROVE  Len(f.scans) \in Nat /\ Len(fill_input_buffer(f)) \in Nat \ {0}
<1> DEFINE v == SubSeq(Whole(f), 1, Len(Whole(f)) - f.cut)
           e == <<[is |-> "EOI"]>>
<1>1. f.cut \in Nat /\ Whole(f) \in Seq(Units) /\ Len(f.scans) \in Nat
  BY FilesAssumption, WholeIs
<1>2. v \in Seq(Units)
  BY <1>1
<1>3. e \in Seq(Units) /\ Len(e) = 1
  BY DEF Units
<1> HIDE DEF v, e
<1>4. Len(v \o e) = Len(v) + Len(e) /\ Len(v) \in Nat
  BY <1>2, <1>3, ConcatenationIs
<1>5. fill_input_buffer(f) = v \o e
  BY DEF fill_input_buffer, v, e
<1> QED BY <1>1, <1>3, <1>4, <1>5

LEMMA BeginFileKeeps == DecInv /\ BeginFile => DecInv'
<1> SUFFICES ASSUME DecInv, BeginFile PROVE DecInv'
  OBVIOUS
<1>1. /\ file' \in Files /\ arrived' = 0 /\ images' = images + 1 /\ out' = <<>> /\ call' = "none"
      /\ d' = [reset_input_controller(d) EXCEPT !.global_state = "INHEADER", !.ret = "suspended"]
  BY DEF BeginFile, Return
<1>2. d \in State
  BY Known
<1> DEFINE u == reset_input_controller(d)
<1>3. /\ u \in State /\ u.consume = "markers" /\ ~u.has_multiple_scans /\ ~u.eoi_reached
      /\ u.inheaders /\ u.input_scan = 0 /\ u.pos = 0
  <2>1. u = [d EXCEPT !.consume = "markers", !.has_multiple_scans = FALSE, !.eoi_reached = FALSE,
            !.inheaders = TRUE, !.input_scan = 0, !.saw_SOF = FALSE, !.pos = 0]
    BY DEF reset_input_controller
  <2> HIDE DEF u
  <2>2. u \in State
    BY ONLY <2>1, <1>2 DEF State
  <2> QED BY ONLY <2>1, <2>2, <1>2 DEF State
<1> HIDE DEF u
<1> DEFINE t == [u EXCEPT !.global_state = "INHEADER", !.ret = "suspended"]
<1>4. d' = t
  BY <1>1 DEF u
<1>5. /\ t \in State /\ t.consume = "markers" /\ ~t.has_multiple_scans /\ ~t.eoi_reached
      /\ t.inheaders /\ t.input_scan = 0 /\ t.pos = 0 /\ t.global_state = "INHEADER"
      /\ t.ret = "suspended"
  <2> QED BY ONLY <1>3 DEF State, States, Results, Consumed
<1> HIDE DEF t
<1>6. End' \in Nat \ {0} /\ N' \in Nat
  <2>1. End' = Len(fill_input_buffer(file')) /\ N' = Len(file'.scans)
    BY DEF End, N, Unit
  <2> QED BY <2>1, <1>1, FileBegins
<1>7. (d \in State)' /\ Counted(d)' /\ (out \in Seq(Row))'
  <2>1. (d \in State)'
    BY <1>4, <1>5
  <2>2. Counted(d)'
    <3>1. d'.pos = 0 /\ d'.input_scan = 0 /\ arrived' = 0
      BY <1>1, <1>4, <1>5
    <3> QED BY <3>1, <1>6 DEF Counted
  <2>3. (out \in Seq(Row))'
    BY <1>1
  <2> QED BY <2>1, <2>2, <2>3
<1>8. Mode(d, out)'
  <2>1. InHeaders(d)'
    BY <1>4, <1>5, <1>6 DEF InHeaders
  <2> QED BY <2>1, <1>4, <1>5 DEF Mode, Active, ShowingStates
<1>9. Calls(d, call)'
  BY <1>1, <1>4, <1>5 DEF Calls
<1>10. images' \in Nat /\ arrived' \in 0 .. End'
  BY <1>1, <1>6 DEF DecInv
<1> QED BY <1>1, <1>7, <1>8, <1>9, <1>10 DEF DecInv, Good

LEMMA Blank == [c \in Cell |-> 0] \in [Cell -> Int] /\ <<>> \in Seq(Row)
  OBVIOUS

(* jpeg_abort leads back to the start. *)
LEMMA AbortKeeps ==
  ASSUME NEW s \in State, Counted(s), NEW o \in Seq(Row), NEW r \in {"ok", "tables", "done"},
         NEW t, t = [jpeg_abort(s) EXCEPT !.ret = r]
  PROVE  Good(t, "none", o)
<1> DEFINE u == jpeg_abort(s)
           z == [c \in Cell |-> 0]
<1>1. u = [s EXCEPT !.global_state = "START", !.coefs = z, !.saved = <<>>]
  BY DEF jpeg_abort
<1>2. z \in [Cell -> Int] /\ <<>> \in Seq(Row)
  BY Blank
<1>3. t = [u EXCEPT !.ret = r]
  OBVIOUS
<1> HIDE DEF u, z
<1>4. u \in State
  BY ONLY <1>1, <1>2, s \in State DEF State, States
<1>5. u.global_state = "START" /\ u.pos = s.pos /\ u.input_scan = s.input_scan
  BY ONLY <1>1, s \in State DEF State
<1>6. t \in State /\ t.ret = r /\ t.global_state = "START" /\ t.pos = s.pos /\ t.input_scan = s.input_scan
  BY ONLY <1>3, <1>4, <1>5, r \in {"ok", "tables", "done"} DEF State, Results
<1>7. Mode(t, o)
  BY <1>6 DEF Mode, Active, ShowingStates
<1>8. Calls(t, "none") /\ Counted(t)
  BY <1>6 DEF Calls, Counted
<1> QED BY <1>6, <1>7, <1>8 DEF Good

LEMMA AbortDecompressKeeps == DecInv /\ jpeg_abort_decompress => DecInv'
<1> SUFFICES ASSUME DecInv, jpeg_abort_decompress PROVE DecInv'
  OBVIOUS
<1> DEFINE t == [jpeg_abort(d) EXCEPT !.ret = "ok"]
<1>1. /\ d' = t /\ call' = "none" /\ file' = file /\ arrived' = arrived /\ out' = out /\ images' = images
  BY DEF jpeg_abort_decompress, Return
<1>2. d \in State /\ Counted(d) /\ out \in Seq(Row)
  BY Known
<1>3. Good(t, "none", out)
  BY ONLY <1>2, AbortKeeps
<1> HIDE DEF t
<1> QED BY <1>1, <1>3, Kept

(* The header of the file. *)
LEMMA HeaderReadKeeps ==
  ASSUME file \in Files, NEW s \in State, Counted(s), NEW o \in Seq(Row),
         s.ret \in {"SOS", "EOI", "suspended", "error"}, s.global_state = "INHEADER",
         IF s.ret = "SOS" THEN Started(s) ELSE InHeaders(s), NEW t, t = HeaderRead(s)
  PROVE  /\ Good(t, "none", o) /\ t.ret = s.ret /\ t.global_state # "START"
         /\ t.pos = s.pos /\ t.consume = s.consume /\ t \in State /\ Counted(t)
         /\ t.ret # "SOS" => t.global_state = "INHEADER" /\ InHeaders(t)
<1>1. CASE s.ret = "SOS"
  <2>1. t = [s EXCEPT !.global_state = "READY", !.buffered_image = FALSE, !.colormap = FALSE]
    BY <1>1 DEF HeaderRead, default_decompress_parms
  <2>2. t \in State
    BY ONLY <2>1, s \in State DEF State, States
  <2>3. /\ t.global_state = "READY" /\ t.inheaders = s.inheaders /\ t.input_scan = s.input_scan
        /\ t.eoi_reached = s.eoi_reached /\ t.pos = s.pos /\ t.ret = s.ret /\ t.consume = s.consume
        /\ t.has_multiple_scans = s.has_multiple_scans
    BY ONLY <2>1, s \in State DEF State
  <2>4. Mode(t, o)
    BY <1>1, <2>3 DEF Mode, Active, ShowingStates, Started
  <2>5. Calls(t, "none") /\ Counted(t)
    BY <1>1, <2>3 DEF Calls, Counted
  <2> QED BY <1>1, <2>2, <2>3, <2>4, <2>5 DEF Good
<1>2. CASE s.ret # "SOS"
  <2>1. t = s
    BY <1>2 DEF HeaderRead
  <2>2. Mode(t, o)
    BY <1>2, <2>1 DEF Mode, Active, ShowingStates
  <2>3. Calls(t, "none")
    BY <2>1 DEF Calls
  <2> QED BY <1>2, <2>1, <2>2, <2>3 DEF Good
<1> QED BY <1>1, <1>2

LEMMA InHeaderConsumes ==
  ASSUME DecInv, d.global_state = "INHEADER", NEW s, s = HeaderRead(consume_markers(d))
  PROVE  /\ Good(s, "none", out) /\ s.ret \in {"SOS", "EOI", "suspended", "error"}
         /\ s.ret = "suspended" => s.pos = arrived
         /\ s \in State /\ Counted(s)
         /\ s.ret # "SOS" => s.global_state = "INHEADER" /\ InHeaders(s)
<1> DEFINE u == consume_markers(d)
<1>1. file \in Files /\ arrived \in 0 .. End /\ d \in State /\ Counted(d) /\ out \in Seq(Row)
      /\ InHeaders(d)
  BY Known DEF Mode
<1>2. /\ u \in State /\ Counted(u) /\ SameControl(d, u)
      /\ u.ret \in {"SOS", "EOI", "suspended", "error"}
      /\ IF u.ret = "SOS" THEN Started(u) ELSE InHeaders(u)
      /\ u.ret = "suspended" => u.pos = arrived
  BY ONLY <1>1, HeaderConsumed
<1>3. s = HeaderRead(u)
  OBVIOUS
<1> HIDE DEF u
<1>4. u.global_state = "INHEADER"
  BY <1>2 DEF SameControl
<1>5. /\ Good(s, "none", out) /\ s.ret = u.ret /\ s.pos = u.pos /\ s \in State /\ Counted(s)
      /\ s.ret # "SOS" => s.global_state = "INHEADER" /\ InHeaders(s)
  BY ONLY <1>1, <1>2, <1>3, <1>4, HeaderReadKeeps
<1> QED BY <1>2, <1>5

LEMMA ReadHeaderKeeps == DecInv /\ jpeg_read_header => DecInv'
<1> SUFFICES ASSUME DecInv, jpeg_read_header PROVE DecInv'
  OBVIOUS
<1> DEFINE s == HeaderRead(consume_markers(d))
<1>1. PICK require_image \in BOOLEAN : d' = TablesOnly(s, require_image)
  BY DEF jpeg_read_header, Return
<1>2. call' = "none" /\ file' = file /\ arrived' = arrived /\ out' = out /\ images' = images
      /\ d.global_state = "INHEADER"
  BY DEF jpeg_read_header, Return
<1>3. /\ Good(s, "none", out) /\ s.ret \in {"SOS", "EOI", "suspended", "error"}
      /\ s \in State /\ Counted(s)
      /\ s.ret # "SOS" => s.global_state = "INHEADER" /\ InHeaders(s)
  BY <1>2, InHeaderConsumes
<1>4. out \in Seq(Row)
  BY Known
<1> HIDE DEF s
<1>5. CASE s.ret # "EOI"
  <2>1. d' = s
    BY <1>1, <1>5 DEF TablesOnly
  <2> QED BY <2>1, <1>2, <1>3, Kept
<1>6. CASE s.ret = "EOI" /\ require_image
  <2> DEFINE t == [s EXCEPT !.ret = "error"]
  <2>1. d' = t
    BY <1>1, <1>6 DEF TablesOnly
  <2>2. s \in State
    BY <1>3
  <2>3. t \in State /\ t.ret = "error" /\ SameControl(s, t) /\ SameInput(s, t)
    BY ONLY <2>2, RetIs DEF Results, Consumed
  <2> HIDE DEF t
  <2>4. InHeaders(t) /\ Counted(t) /\ t.global_state = "INHEADER"
    BY <1>3, <1>6, <2>3 DEF SameInput, SameControl, InHeaders, Counted
  <2>5. Mode(t, out) /\ Calls(t, "none")
    BY <2>3, <2>4 DEF Mode, Calls, Active, ShowingStates
  <2>6. Good(t, "none", out)
    BY <2>3, <2>4, <2>5, <1>4 DEF Good
  <2> QED BY <2>1, <2>6, <1>2, Kept
<1>7. CASE s.ret = "EOI" /\ ~require_image
  <2> DEFINE t == [jpeg_abort(s) EXCEPT !.ret = "tables"]
  <2>1. d' = t
    BY <1>1, <1>7 DEF TablesOnly
  <2>2. Good(t, "none", out)
    BY ONLY <1>3, <1>4, AbortKeeps
  <2> HIDE DEF t
  <2> QED BY <2>1, <2>2, <1>2, Kept
<1> QED BY <1>5, <1>6, <1>7

LEMMA ConsumeInputKeeps == DecInv /\ jpeg_consume_input => DecInv'
<1> SUFFICES ASSUME DecInv, jpeg_consume_input PROVE DecInv'
  OBVIOUS
<1>1. /\ call' = "none" /\ file' = file /\ arrived' = arrived /\ out' = out /\ images' = images
      /\ Idle /\ d.global_state \notin {"START", "RDCOEFS"}
      /\ d' = CASE d.global_state = "INHEADER" -> HeaderRead(consume_markers(d))
                [] d.global_state = "READY" -> [d EXCEPT !.ret = "SOS"]
                [] OTHER -> consume_input(d)
  BY DEF jpeg_consume_input, Return
<1>2. /\ file \in Files /\ arrived \in 0 .. End /\ d \in State /\ Counted(d) /\ out \in Seq(Row)
      /\ Mode(d, out) /\ Calls(d, call) /\ Good(d, call, out) /\ d.ret # "error"
      /\ d.global_state \in States
  BY <1>1, Known
<1>3. CASE d.global_state = "INHEADER"
  <2>1. d' = HeaderRead(consume_markers(d))
    BY <1>1, <1>3
  <2>2. Good(d', "none", out)
    BY <2>1, <1>3, InHeaderConsumes
  <2> QED BY <2>2, <1>1, Kept
<1>4. CASE d.global_state = "READY"
  <2> DEFINE t == [d EXCEPT !.ret = "SOS"]
  <2>1. d' = t
    BY <1>1, <1>4
  <2>2. t \in State /\ t.ret = "SOS" /\ SameControl(d, t) /\ SameInput(d, t)
    BY ONLY <1>2, RetIs DEF Results, Consumed
  <2> HIDE DEF t
  <2>3. Started(t) /\ Counted(t) /\ t.global_state = "READY"
    BY <1>2, <1>4, <2>2 DEF Mode, SameInput, SameControl, Started, Counted
  <2>4. Mode(t, out) /\ Calls(t, "none")
    BY <2>2, <2>3 DEF Mode, Calls, Active, ShowingStates
  <2>5. Good(t, "none", out)
    BY <1>2, <2>2, <2>3, <2>4 DEF Good
  <2> QED BY <2>1, <2>5, <1>1, Kept
<1>5. CASE d.global_state \notin {"INHEADER", "READY"}
  <2>1. d' = consume_input(d)
    BY <1>1, <1>5
  <2>2. d.global_state \in Active
    BY <1>1, <1>2, <1>5 DEF Active
  <2>3. Reading(d) /\ d.full_buffer = (file.multi \/ d.buffered_image)
    BY <1>2, <2>2 DEF Mode
  <2>4. Consuming(d, d')
    BY <1>2, <2>1, <2>3, InputConsumes
  <2>5. Good(d', "none", out)
    BY <1>2, <2>2, <2>4, ConsumingKeeps
  <2> QED BY <2>5, <1>1, Kept
<1> QED BY <1>3, <1>4, <1>5

(* jinit_master_decompress sets the coefficients up for the first scan.    *)
LEMMA MasterIs ==
  ASSUME file \in Files, NEW s \in State, Started(s), NEW buffered \in BOOLEAN,
         NEW quantize \in BOOLEAN, NEW raw \in BOOLEAN, Counted(s),
         NEW t, t = jinit_master_decompress(s, buffered, quantize, raw)
  PROVE  /\ t \in State /\ Counted(t) /\ Reading(t) /\ t.buffered_image = buffered
         /\ t.full_buffer = (file.multi \/ buffered) /\ t.input_scan = 1 /\ t.input_row = 0
         /\ ~t.is_dummy_pass /\ t.ret = s.ret
<1> DEFINE z == [c \in Cell |-> 0]
           b == s.has_multiple_scans \/ buffered
           u == [s EXCEPT !.buffered_image = buffered, !.two_pass = quantize, !.raw = raw,
                          !.is_dummy_pass = FALSE, !.full_buffer = b,
                          !.coefs = z, !.saved = <<>>]
<1>1. t = start_input_pass(u)
  BY DEF jinit_master_decompress
<1>2. z \in [Cell -> Int] /\ <<>> \in Seq(Row) /\ b \in BOOLEAN /\ \A c \in Cell : z[c] = 0
  BY Blank
<1>2a. b = (file.multi \/ buffered)
  BY DEF Started
<1> HIDE DEF z, b
<1>3. u \in State
  BY ONLY <1>2, s \in State, buffered \in BOOLEAN, quantize \in BOOLEAN, raw \in BOOLEAN DEF State
<1>4. /\ u.buffered_image = buffered /\ u.full_buffer = b /\ u.coefs = z /\ ~u.is_dummy_pass
      /\ u.inheaders = s.inheaders /\ u.eoi_reached = s.eoi_reached /\ u.input_scan = s.input_scan
      /\ u.has_multiple_scans = s.has_multiple_scans /\ u.pos = s.pos /\ u.ret = s.ret
  BY ONLY <1>2, s \in State DEF State
<1> HIDE DEF u
<1>5. /\ t \in State /\ SameControl(u, t) /\ t.pos = u.pos
      /\ t.inheaders = u.inheaders /\ t.eoi_reached = u.eoi_reached
      /\ t.has_multiple_scans = u.has_multiple_scans /\ t.input_scan = u.input_scan
      /\ t.coefs = u.coefs /\ t.input_row = 0 /\ t.MCU_ctr = 0
      /\ t.consume = (IF u.full_buffer THEN "data" ELSE "dummy") /\ t.ret = u.ret
  BY ONLY <1>1, <1>3, StartInputPassIs
<1>6. /\ t.buffered_image = buffered /\ t.full_buffer = (file.multi \/ buffered)
      /\ ~t.is_dummy_pass
  BY <1>2a, <1>4, <1>5 DEF SameControl
<1>7. /\ ~t.inheaders /\ t.input_scan = 1 /\ ~t.eoi_reached /\ t.pos = At(1) /\ At(1) < End
      /\ t.has_multiple_scans = file.multi /\ t.coefs = z
  BY <1>4, <1>5 DEF Started
<1>8. Decoded(t)
  <2>1. \A c \in Cell : FromFile(c, 0) = 0
    <3>1. \A c \in Cell : FromFile(c, 0) \in 0 .. 0
      BY FromFileIs
    <3> QED BY <3>1
  <2>2. \A c \in Cell : ~Done(t, c)
    BY <1>5, SizesNat DEF Done, Cell
  <2> QED BY <2>1, <2>2, <1>2, <1>7 DEF Decoded
<1>9. t.pos = Lesser(At(1) + (t.input_row * Cols + t.MCU_ctr), End - 1)
  <2>1. t.input_row * Cols + t.MCU_ctr = 0
    BY <1>5, SizesNat
  <2>2. End \in Nat /\ At(1) \in Nat
    <3>1. [row |-> 0, col |-> 0] \in Cell
      BY SizesNat DEF Cell
    <3> QED BY <3>1, PlaceIs, UnitIs
  <2> QED BY <2>1, <2>2, <1>7 DEF Lesser
<1>10. Reading(t)
  <2>1. 0 # Rows /\ 1 >= 1
    BY SizesNat
  <2>2. t.consume = (IF t.full_buffer THEN "data" ELSE "dummy")
    BY <1>5 DEF SameControl
  <2> QED BY <2>1, <2>2, <1>5, <1>7, <1>8, <1>9 DEF Reading
<1>11. Counted(t)
  BY <1>4, <1>5 DEF Counted
<1> QED BY <1>4, <1>5, <1>6, <1>7, <1>10, <1>11

LEMMA StartDecompressKeeps == DecInv /\ jpeg_start_decompress => DecInv'
<1> SUFFICES ASSUME DecInv, jpeg_start_decompress PROVE DecInv'
  OBVIOUS
<1>1. Idle /\ file' = file /\ arrived' = arrived /\ out' = out /\ images' = images
  BY Zenon DEF jpeg_start_decompress
<1>2. /\ file \in Files /\ d \in State /\ Counted(d) /\ out \in Seq(Row)
      /\ Mode(d, out) /\ Calls(d, call) /\ d.ret # "error"
  BY <1>1, Known
<1>3. CASE d.global_state = "READY"
  <2>1. PICK buffered \in BOOLEAN, quantize \in BOOLEAN, raw \in BOOLEAN :
          LET s == jinit_master_decompress(d, buffered, quantize, raw) IN
            IF buffered THEN Return([s EXCEPT !.global_state = "BUFIMAGE", !.ret = "ok"])
            ELSE call' = "start_decompress" /\ d' = [s EXCEPT !.global_state = "PRELOAD"]
    BY <1>3, Zenon DEF jpeg_start_decompress
  <2> DEFINE s == jinit_master_decompress(d, buffered, quantize, raw)
  <2>2. Started(d)
    BY <1>2, <1>3 DEF Mode
  <2>3. /\ s \in State /\ Counted(s) /\ Reading(s) /\ s.buffered_image = buffered
        /\ s.full_buffer = (file.multi \/ buffered) /\ s.input_scan = 1 /\ s.input_row = 0
        /\ ~s.is_dummy_pass /\ s.ret = d.ret
    BY ONLY <1>2, <2>2, buffered \in BOOLEAN, quantize \in BOOLEAN, raw \in BOOLEAN, MasterIs
  <2>4. IF buffered THEN call' = "none" /\ d' = [s EXCEPT !.global_state = "BUFIMAGE", !.ret = "ok"]
        ELSE call' = "start_decompress" /\ d' = [s EXCEPT !.global_state = "PRELOAD"]
    BY <2>1 DEF Return
  <2> HIDE DEF s
  <2>5. CASE buffered
    <3> DEFINE t == [s EXCEPT !.global_state = "BUFIMAGE", !.ret = "ok"]
    <3>1. t \in State
      <4>1. s \in State
        BY <2>3
      <4> QED BY ONLY <4>1 DEF State, States, Results
    <3>2. t.global_state = "BUFIMAGE" /\ t.ret = "ok" /\ SameInput(s, t) /\ t.buffered_image = s.buffered_image
          /\ t.is_dummy_pass = s.is_dummy_pass
      BY ONLY <2>3 DEF State, SameInput
    <3>3. d' = t
      BY <2>4, <2>5
    <3> HIDE DEF t
    <3>4. Reading(t) /\ Counted(t) /\ t.full_buffer = (file.multi \/ t.buffered_image) /\ t.input_scan = 1
      BY <2>3, <3>2, ReadingSame DEF SameInput, Counted
    <3>5. Mode(t, out)
      BY <2>3, <2>5, <3>2, <3>4 DEF Mode, Active, ShowingStates
    <3>6. Calls(t, "none")
      BY <3>2 DEF Calls
    <3>7. Good(t, "none", out)
      BY <1>2, <3>1, <3>4, <3>5, <3>6 DEF Good
    <3> QED BY <3>3, <3>7, <2>4, <2>5, <1>1, Kept
  <2>6. CASE ~buffered
    <3> DEFINE t == [s EXCEPT !.global_state = "PRELOAD"]
    <3>1. t \in State
      <4>1. s \in State
        BY <2>3
      <4> QED BY ONLY <4>1 DEF State, States, Results
    <3>2. t.global_state = "PRELOAD" /\ t.ret = s.ret /\ SameInput(s, t) /\ t.buffered_image = s.buffered_image
          /\ t.is_dummy_pass = s.is_dummy_pass
      BY ONLY <2>3 DEF State, SameInput
    <3>3. d' = t
      BY <2>4, <2>6
    <3> HIDE DEF t
    <3>4. /\ Reading(t) /\ Counted(t) /\ t.full_buffer = (file.multi \/ t.buffered_image)
          /\ t.input_scan = 1 /\ t.input_row = 0
      BY <2>3, <3>2, ReadingSame DEF SameInput, Counted
    <3>5. Mode(t, out)
      BY <2>3, <2>6, <3>2, <3>4 DEF Mode, Active, ShowingStates
    <3>6. Calls(t, "start_decompress")
      BY <1>2, <1>3, <2>3, <3>2 DEF Calls
    <3>7. Good(t, "start_decompress", out)
      BY <1>2, <3>1, <3>4, <3>5, <3>6 DEF Good
    <3> QED BY <3>3, <3>7, <2>4, <2>6, <1>1, Kept
  <2> QED BY <2>5, <2>6
<1>4. CASE d.global_state # "READY"
  <2>1. d.global_state \in {"PRELOAD", "PRESCAN"} /\ call' = "start_decompress" /\ d' = d
    BY <1>4, Zenon DEF jpeg_start_decompress
  <2>2. Calls(d, "start_decompress")
    BY <1>2, <2>1 DEF Calls
  <2>3. Good(d, "start_decompress", out)
    BY <1>2, <2>2 DEF Good
  <2> QED BY <2>1, <2>3, <1>1, Kept
<1> QED BY <1>3, <1>4

(* The loops that call consume_input. *)
LEMMA LoopKeeps ==
  ASSUME DecInv, d.global_state \in Active, call # "none", d' = consume_input(d),
         call' = "none" \/ (call' = call /\ ~Stuck(d')),
         file' = file, arrived' = arrived, out' = out, images' = images
  PROVE  DecInv'
<1>1. /\ file \in Files /\ arrived \in 0 .. End /\ d \in State /\ Counted(d)
      /\ Mode(d, out) /\ Good(d, call, out) /\ d.ret # "error"
  BY Known
<1>2. Reading(d) /\ d.full_buffer = (file.multi \/ d.buffered_image)
  BY <1>1 DEF Mode
<1>3. Consuming(d, d')
  BY <1>1, <1>2, InputConsumes
<1>4. call' = "none" \/ (call' = call /\ d'.ret # "error")
  BY DEF Stuck
<1>5. Good(d', call', out)
  BY <1>1, <1>3, <1>4, ConsumingKeeps
<1> QED BY <1>5, Kept

LEMMA FinishOutputKeeps == DecInv /\ FinishOutput => DecInv'
<1> SUFFICES ASSUME DecInv, FinishOutput PROVE DecInv'
  OBVIOUS
<1>1. call = "finish_output" /\ file' = file /\ arrived' = arrived /\ out' = out /\ images' = images
  BY Zenon DEF FinishOutput
<1>2. /\ d \in State /\ Counted(d) /\ out \in Seq(Row) /\ Mode(d, out) /\ Calls(d, call)
      /\ d.ret # "error"
  BY <1>1, Known
<1>3. d.global_state = "BUFPOST"
  BY <1>1, <1>2 DEF Calls
<1>4. CASE d.input_scan <= d.output_scan /\ ~d.eoi_reached
  <2>1. Continue(consume_input(d))
    BY <1>4, Zenon DEF FinishOutput
  <2>2. d' = consume_input(d) /\ (call' = "none" \/ (call' = call /\ ~Stuck(d')))
    BY <2>1 DEF Continue, Return, Go
  <2>3. d.global_state \in Active /\ call # "none"
    BY <1>1, <1>3 DEF Active, States
  <2> QED BY <1>1, <2>2, <2>3, LoopKeeps
<1>5. CASE ~(d.input_scan <= d.output_scan /\ ~d.eoi_reached)
  <2> DEFINE t == [d EXCEPT !.global_state = "BUFIMAGE", !.ret = "ok"]
  <2>1. d' = t /\ call' = "none"
    BY <1>5, Zenon DEF FinishOutput, Return
  <2>2. t \in State
    BY ONLY <1>2 DEF State, States, Results
  <2>3. t.global_state = "BUFIMAGE" /\ t.ret = "ok" /\ SameInput(d, t) /\ t.buffered_image = d.buffered_image
        /\ t.is_dummy_pass = d.is_dummy_pass
    BY ONLY <1>2 DEF State, SameInput
  <2> HIDE DEF t
  <2>4. /\ Reading(d) /\ d.full_buffer = (file.multi \/ d.buffered_image) /\ d.buffered_image
        /\ ~d.is_dummy_pass /\ d.input_scan >= 1
    BY <1>2, <1>3 DEF Mode, Active, States
  <2>5. Reading(t) /\ Counted(t) /\ t.full_buffer = (file.multi \/ t.buffered_image) /\ t.input_scan >= 1
    BY <1>2, <2>3, <2>4, ReadingSame DEF SameInput, Counted
  <2>6. Mode(t, out)
    BY <2>3, <2>4, <2>5 DEF Mode, Active, ShowingStates
  <2>7. Calls(t, "none")
    BY <2>3 DEF Calls
  <2>8. Good(t, "none", out)
    BY <1>2, <2>2, <2>5, <2>6, <2>7 DEF Good
  <2> QED BY <1>1, <2>1, <2>8, Kept
<1> QED BY <1>4, <1>5

LEMMA FinishDecompressKeeps == DecInv /\ FinishDecompress => DecInv'
<1> SUFFICES ASSUME DecInv, FinishDecompress PROVE DecInv'
  OBVIOUS
<1>1. call = "finish_decompress" /\ file' = file /\ arrived' = arrived /\ out' = out /\ images' = images
  BY Zenon DEF FinishDecompress
<1>2. d \in State /\ Counted(d) /\ out \in Seq(Row) /\ Calls(d, call)
  BY <1>1, Known
<1>3. d.global_state = "STOPPING"
  BY <1>1, <1>2 DEF Calls
<1>4. CASE ~d.eoi_reached
  <2>1. Continue(consume_input(d))
    BY <1>4, Zenon DEF FinishDecompress
  <2>2. d' = consume_input(d) /\ (call' = "none" \/ (call' = call /\ ~Stuck(d')))
    BY <2>1 DEF Continue, Return, Go
  <2>3. d.global_state \in Active /\ call # "none"
    BY <1>1, <1>3 DEF Active, States
  <2> QED BY <1>1, <2>2, <2>3, LoopKeeps
<1>5. CASE d.eoi_reached
  <2> DEFINE t == [jpeg_abort(d) EXCEPT !.ret = "done"]
  <2>1. d' = t /\ call' = "none"
    BY <1>5, Zenon DEF FinishDecompress, Return
  <2>2. Good(t, "none", out)
    BY ONLY <1>2, AbortKeeps
  <2> HIDE DEF t
  <2> QED BY <1>1, <2>1, <2>2, Kept
<1> QED BY <1>4, <1>5

LEMMA ReadCoefficientsKeeps == DecInv /\ ReadCoefficients => DecInv'
<1> SUFFICES ASSUME DecInv, ReadCoefficients PROVE DecInv'
  OBVIOUS
<1> DEFINE s == consume_input(d)
<1>1. /\ call = "read_coefficients" /\ file' = file /\ arrived' = arrived /\ out' = out
      /\ images' = images /\ CoefficientsRead(s)
  BY Zenon DEF ReadCoefficients
<1>2. /\ file \in Files /\ arrived \in 0 .. End /\ d \in State /\ Counted(d)
      /\ Mode(d, out) /\ Calls(d, call) /\ d.ret # "error"
  BY <1>1, Known
<1>3. d.global_state = "RDCOEFS"
  BY <1>1, <1>2 DEF Calls
<1>3a. d.global_state \in Active /\ call # "none"
  BY <1>1, <1>3 DEF Active, States
<1>4. CASE Stuck(s) \/ s.ret # "EOI"
  <2>1. d' = s /\ (call' = "none" \/ (call' = call /\ ~Stuck(d')))
    <3> HIDE DEF s
    <3> QED BY <1>1, <1>4 DEF CoefficientsRead, Return, Go, Stuck
  <2> QED BY <1>1, <1>3a, <2>1, LoopKeeps
<1>5. CASE s.ret = "EOI"
  <2> DEFINE t == [s EXCEPT !.global_state = "STOPPING", !.ret = "coefs"]
  <2>1. d' = t /\ call' = "none"
    <3> HIDE DEF s
    <3> QED BY <1>1, <1>5 DEF CoefficientsRead, Return, Stuck
  <2>2. Reading(d) /\ d.full_buffer = (file.multi \/ d.buffered_image)
    BY <1>2, <1>3a DEF Mode
  <2>3. Consuming(d, s)
    BY <1>2, <2>2, InputConsumes
  <2> HIDE DEF s
  <2>4. s \in State /\ Counted(s) /\ SameControl(d, s) /\ Reading(s) /\ s.eoi_reached
    BY <1>5, <2>3 DEF Consuming
  <2>5. t \in State
    BY ONLY <2>4 DEF State, States, Results
  <2>6. t.global_state = "STOPPING" /\ t.ret = "coefs" /\ SameInput(s, t) /\ t.buffered_image = s.buffered_image
    BY ONLY <2>4 DEF State, SameInput
  <2> HIDE DEF t
  <2>7. /\ Reading(t) /\ Counted(t) /\ t.full_buffer = (file.multi \/ t.buffered_image)
        /\ t.input_scan >= 1 /\ t.eoi_reached
    <3>1. Reading(t)
      BY <2>4, <2>6, ReadingSame
    <3> QED BY <3>1, <2>2, <2>4, <2>6 DEF SameInput, SameControl, Counted, Reading
  <2>8. Mode(t, out)
    BY <2>6, <2>7 DEF Mode, Active, ShowingStates
  <2>9. Calls(t, "none")
    BY <2>6, <2>7 DEF Calls
  <2>10. out \in Seq(Row)
    BY Known
  <2>11. Good(t, "none", out)
    BY <2>5, <2>7, <2>8, <2>9, <2>10 DEF Good
  <2> QED BY <1>1, <2>1, <2>11, Kept
<1> QED BY <1>4, <1>5

LEMMA PreloadKeeps == DecInv /\ Preload => DecInv'
<1> SUFFICES ASSUME DecInv, Preload PROVE DecInv'
  OBVIOUS
<1> DEFINE s == IF d.has_multiple_scans THEN consume_input(d) ELSE [d EXCEPT !.ret = "EOI"]
<1>1. /\ call = "start_decompress" /\ d.global_state = "PRELOAD" /\ file' = file
      /\ arrived' = arrived /\ out' = out /\ images' = images /\ Absorbed(s)
  BY Zenon DEF Preload
<1>2. /\ file \in Files /\ arrived \in 0 .. End /\ d \in State /\ Counted(d) /\ out \in Seq(Row)
      /\ Mode(d, out) /\ Calls(d, call) /\ d.ret # "error" /\ Good(d, call, out)
      /\ d.full_buffer \in BOOLEAN
  BY <1>1, Known
<1>3. d.global_state \in Active /\ call # "none"
  BY <1>1 DEF Active, States
<1>4. /\ Reading(d) /\ d.full_buffer = (file.multi \/ d.buffered_image) /\ ~d.is_dummy_pass
      /\ ~d.full_buffer => d.input_row = 0
  BY <1>1, <1>2, <1>3 DEF Mode
<1>5. /\ d.has_multiple_scans => Consuming(d, s)
      /\ ~d.has_multiple_scans => s.ret = "EOI"
      /\ s.ret = "EOI" => /\ s \in State /\ Counted(s) /\ SameControl(d, s) /\ Reading(s)
                          /\ ~d.full_buffer => s.input_row = d.input_row
                          /\ file.multi => s.eoi_reached
  <2>1. CASE d.has_multiple_scans
    <3>1. s = consume_input(d)
      BY <2>1
    <3> HIDE DEF s
    <3>2. Consuming(d, s)
      BY <1>2, <1>4, <3>1, InputConsumes
    <3> QED BY <2>1, <3>2 DEF Consuming
  <2>2. CASE ~d.has_multiple_scans
    <3>1. s = [d EXCEPT !.ret = "EOI"]
      BY <2>2
    <3> HIDE DEF s
    <3>2. s \in State /\ s.ret = "EOI" /\ SameControl(d, s) /\ SameInput(d, s) /\ s.output_scan = d.output_scan
      BY ONLY <1>2, <3>1, RetIs DEF Results, Consumed
    <3>3. Reading(s) /\ Counted(s) /\ s.input_row = d.input_row
      BY <1>2, <1>4, <3>2, ReadingSame DEF SameInput, Counted
    <3>4. ~file.multi
      BY <1>4, <2>2 DEF Reading
    <3> QED BY <2>2, <3>2, <3>3, <3>4
  <2> QED BY <2>1, <2>2
<1> HIDE DEF s
<1>6. CASE Stuck(s) \/ s.ret # "EOI"
  <2>1. d' = s /\ (call' = "none" \/ (call' = call /\ s.ret # "error"))
    BY <1>1, <1>6 DEF Absorbed, Return, Go, Stuck
  <2>2. Good(s, call', out)
    <3>1. Consuming(d, s)
      BY <1>5, <1>6 DEF Stuck
    <3> QED BY <1>2, <1>3, <2>1, <3>1, ConsumingKeeps
  <2> QED BY <1>1, <2>1, <2>2, Kept
<1>7. CASE s.ret = "EOI"
  <2> DEFINE n == s.input_scan
             t == [s EXCEPT !.output_scan = n, !.global_state = "PREPARE"]
  <2>1. d' = t /\ call' = "start_decompress"
    BY <1>1, <1>7 DEF Absorbed, Go, Stuck
  <2>2. s \in State /\ Counted(s) /\ SameControl(d, s) /\ Reading(s)
        /\ (~d.full_buffer => s.input_row = d.input_row)
    BY <1>5, <1>7
  <2>3. n \in Nat /\ n >= 1
    <3>1. n \in Nat
      BY ONLY <2>2 DEF State
    <3> QED BY <3>1, <2>2 DEF Reading
  <2>4. t \in State
    <3> HIDE DEF n
    <3> QED BY ONLY <2>2, <2>3 DEF State, States
  <2>5. t.global_state = "PREPARE" /\ t.ret = s.ret /\ SameInput(s, t) /\ t.buffered_image = s.buffered_image
        /\ t.output_scan = n /\ t.is_dummy_pass = s.is_dummy_pass
    BY ONLY <2>2 DEF State, SameInput
  <2> HIDE DEF t
  <2>6. /\ Reading(t) /\ Counted(t) /\ t.full_buffer = (file.multi \/ t.buffered_image)
        /\ t.input_scan >= 1 /\ ~t.is_dummy_pass /\ t.input_scan = n
        /\ ~t.full_buffer => t.input_row = 0
    <3>1. Reading(t)
      BY <2>2, <2>5, ReadingSame
    <3> QED BY <3>1, <1>4, <2>2, <2>3, <2>5 DEF SameInput, SameControl, Counted
  <2>7. Wanted(t)
    <3>1. file.multi => t.eoi_reached
      BY <1>5, <1>7, <2>5 DEF SameInput
    <3> QED BY <3>1, <2>3, <2>5, <2>6 DEF Wanted
  <2>8. Mode(t, out)
    BY <2>3, <2>5, <2>6, <2>7 DEF Mode, Active, ShowingStates
  <2>9. Calls(t, "start_decompress")
    BY <1>7, <2>5 DEF Calls
  <2>10. Good(t, "start_decompress", out)
    BY <1>2, <2>4, <2>6, <2>8, <2>9 DEF Good
  <2> QED BY <1>1, <2>1, <2>10, Kept
<1> QED BY <1>6, <1>7

(* The calls that choose a scan to show and that end showing it. *)
LEMMA StartOutputKeeps == DecInv /\ jpeg_start_output => DecInv'
<1> SUFFICES ASSUME DecInv, jpeg_start_output PROVE DecInv'
  OBVIOUS
<1>1. /\ Idle /\ d.buffered_image /\ call' = "start_output" /\ file' = file /\ arrived' = arrived
      /\ out' = out /\ images' = images
  BY Zenon DEF jpeg_start_output
<1>2. /\ file \in Files /\ d \in State /\ Counted(d) /\ out \in Seq(Row)
      /\ Mode(d, out) /\ Calls(d, call) /\ d.ret # "error" /\ d.input_scan \in Nat
      /\ d.output_scan \in Nat
  BY <1>1, Known
<1>3. PICK scan_number \in 0 .. Len(file.scans) + 1 :
        LET n == IF scan_number <= 0 THEN 1 ELSE scan_number
            m == IF d.eoi_reached /\ n > d.input_scan THEN d.input_scan ELSE n
        IN \/ /\ d.global_state = "BUFIMAGE"
              /\ d' = [d EXCEPT !.output_scan = m, !.global_state = "PREPARE"]
           \/ /\ d.global_state = "PRESCAN" /\ scan_number = d.output_scan
              /\ d' = [d EXCEPT !.output_scan = m]
  BY Zenon DEF jpeg_start_output
<1> DEFINE n == IF scan_number <= 0 THEN 1 ELSE scan_number
           m == IF d.eoi_reached /\ n > d.input_scan THEN d.input_scan ELSE n
<1>4. \/ /\ d.global_state = "BUFIMAGE"
         /\ d' = [d EXCEPT !.output_scan = m, !.global_state = "PREPARE"]
      \/ /\ d.global_state = "PRESCAN" /\ scan_number = d.output_scan
         /\ d' = [d EXCEPT !.output_scan = m]
  BY <1>3
<1>5. d.global_state \in Active
  BY <1>4 DEF Active, States
<1>6. Reading(d) /\ d.full_buffer = (file.multi \/ d.buffered_image) /\ d.input_scan >= 1
  BY <1>2, <1>5 DEF Mode
<1>7. n \in Nat \ {0} /\ (scan_number >= 1 => n = scan_number) /\ scan_number \in Nat
  <2>1. N \in Nat /\ Len(file.scans) = N
    BY <1>2, UnitIs DEF N
  <2> QED BY <2>1
<1>8. m \in Nat \ {0} /\ m <= n
  <2> HIDE DEF n
  <2> QED BY <1>2, <1>6, <1>7
<1> HIDE DEF m, n
<1>9. CASE d.global_state = "BUFIMAGE"
  <2> DEFINE t == [d EXCEPT !.output_scan = m, !.global_state = "PREPARE"]
  <2>1. d' = t
    BY <1>4, <1>9
  <2>2. t \in State
    BY ONLY <1>2, <1>8 DEF State, States
  <2>3. t.global_state = "PREPARE" /\ t.ret = d.ret /\ SameInput(d, t) /\ t.buffered_image = d.buffered_image
        /\ t.output_scan = m /\ t.is_dummy_pass = d.is_dummy_pass
    BY ONLY <1>2 DEF State, SameInput
  <2> HIDE DEF t
  <2>4. /\ Reading(t) /\ Counted(t) /\ t.full_buffer = (file.multi \/ t.buffered_image)
        /\ t.input_scan >= 1 /\ ~t.is_dummy_pass /\ t.full_buffer /\ t.buffered_image
    <3>1. Reading(t)
      BY <1>6, <2>3, ReadingSame
    <3>2. ~d.is_dummy_pass /\ d.buffered_image
      BY <1>1, <1>2, <1>9 DEF Mode
    <3> QED BY <3>1, <3>2, <1>2, <1>6, <2>3 DEF SameInput, Counted
  <2>5. Mode(t, out)
    <3>1. t.output_scan >= 1 /\ Wanted(t)
      BY <2>3, <2>4, <1>8 DEF Wanted
    <3> QED BY <2>3, <2>4, <3>1 DEF Mode, Active, ShowingStates
  <2>6. Calls(t, "start_output")
    BY <1>2, <1>9, <2>3 DEF Calls
  <2>7. Good(t, "start_output", out)
    BY <1>2, <2>2, <2>4, <2>5, <2>6 DEF Good
  <2> QED BY <1>1, <2>1, <2>7, Kept
<1>10. CASE d.global_state = "PRESCAN"
  <2> DEFINE t == [d EXCEPT !.output_scan = m]
  <2>1. d' = t /\ scan_number = d.output_scan
    BY <1>4, <1>10
  <2>2. t \in State
    BY ONLY <1>2, <1>8 DEF State
  <2>3. /\ t.ret = d.ret /\ SameInput(d, t) /\ SameControl(d, t) /\ t.output_scan = m
    BY ONLY <1>2 DEF State, SameInput, SameControl
  <2> HIDE DEF t
  <2>4. d.output_scan >= 1 /\ Showing(d, out) /\ Abreast(d)
    BY <1>2, <1>10 DEF Mode, ShowingStates
  <2>5. t.output_scan <= d.output_scan /\ t.output_scan >= 1
    BY <1>7, <1>8, <2>1, <2>3, <2>4, <1>2
  <2>6. /\ t.global_state = "PRESCAN" /\ t.buffered_image /\ t.input_scan = d.input_scan
        /\ t.full_buffer = d.full_buffer /\ t.output_row = d.output_row /\ t.input_row = d.input_row
        /\ t.pos = d.pos
    BY <1>1, <1>10, <2>3 DEF SameControl, SameInput
  <2>7. Reading(t) /\ Counted(t) /\ t.full_buffer = (file.multi \/ t.buffered_image)
        /\ t.input_scan >= 1 /\ Abreast(t)
    <3>1. Reading(t)
      BY <1>6, <2>3, ReadingSame
    <3> QED BY <3>1, <1>1, <1>2, <1>6, <2>3, <2>4, <2>6 DEF Counted, Abreast
  <2>8. Showing(t, out)
    BY <1>2, <2>2, <2>3, <2>4, <2>5, <2>6, ShowingKept
  <2>9. Mode(t, out)
    <3>1. Wanted(t)
      BY <2>6 DEF Wanted
    <3> QED BY <2>5, <2>6, <2>7, <2>8, <3>1 DEF Mode, Active, ShowingStates
  <2>10. Calls(t, "start_output")
    BY <1>2, <1>10, <2>3, <2>6 DEF Calls
  <2>11. Good(t, "start_output", out)
    BY <1>2, <2>2, <2>7, <2>9, <2>10 DEF Good
  <2> QED BY <1>1, <2>1, <2>11, Kept
<1> QED BY <1>4, <1>9, <1>10

LEMMA PassReadyKeeps == DecInv /\ PassReady => DecInv'
<1> SUFFICES ASSUME DecInv, PassReady PROVE DecInv'
  OBVIOUS
<1> DEFINE g == IF d.raw THEN "RAW_OK" ELSE "SCANNING"
           t == [d EXCEPT !.global_state = g, !.ret = "ok"]
<1>1. /\ call \in {"start_decompress", "start_output"} /\ d.global_state = "PRESCAN" /\ ~d.is_dummy_pass
      /\ file' = file /\ arrived' = arrived /\ out' = out /\ images' = images
      /\ d' = t /\ call' = "none"
  BY Zenon DEF PassReady, Return
<1>2. /\ file \in Files /\ d \in State /\ Counted(d) /\ out \in Seq(Row)
      /\ Mode(d, out) /\ Calls(d, call) /\ d.ret # "error"
  BY <1>1, Known
<1>3. d.global_state \in Active
  BY <1>1 DEF Active, States
<1>4. /\ Reading(d) /\ d.full_buffer = (file.multi \/ d.buffered_image) /\ d.input_scan >= 1
      /\ d.output_scan >= 1 /\ Wanted(d) /\ Showing(d, out) /\ Abreast(d)
  BY <1>1, <1>2, <1>3 DEF Mode, ShowingStates
<1>5. g \in {"RAW_OK", "SCANNING"}
  OBVIOUS
<1> HIDE DEF g
<1>6. t \in State
  BY ONLY <1>2, <1>5 DEF State, States, Results
<1>7. /\ t.global_state = g /\ t.ret = "ok" /\ SameInput(d, t) /\ t.buffered_image = d.buffered_image
      /\ t.output_scan = d.output_scan /\ t.is_dummy_pass = d.is_dummy_pass
      /\ t.smoothing = d.smoothing /\ t.output_row = d.output_row /\ t.output_line = d.output_line
      /\ t.saved = d.saved
  BY ONLY <1>2 DEF State, SameInput
<1> HIDE DEF t
<1>8. /\ t.input_scan = d.input_scan /\ t.full_buffer = d.full_buffer /\ t.input_row = d.input_row
      /\ t.eoi_reached = d.eoi_reached /\ t.pos = d.pos
  BY <1>7 DEF SameInput
<1>9. Reading(t) /\ Counted(t) /\ Wanted(t) /\ Abreast(t)
  <2>1. Reading(t)
    BY <1>4, <1>7, ReadingSame
  <2> QED BY <2>1, <1>2, <1>4, <1>7, <1>8 DEF Counted, Wanted, Abreast
<1>10. Showing(t, out)
  <2>1. \A row, r : GoodRow(d, row, r) => GoodRow(t, row, r)
    BY <1>7, <1>8 DEF GoodRow
  <2> QED BY <2>1, <1>4, <1>7, <1>8 DEF Showing
<1>11. Mode(t, out)
  BY <1>1, <1>4, <1>5, <1>7, <1>8, <1>9, <1>10 DEF Mode, Active, ShowingStates
<1>12. Calls(t, "none")
  BY <1>7 DEF Calls
<1>13. Good(t, "none", out)
  BY <1>2, <1>6, <1>9, <1>11, <1>12 DEF Good
<1> QED BY <1>1, <1>13, Kept

LEMMA ReadScanlinesKeeps == DecInv /\ jpeg_read_scanlines => DecInv'
<1> SUFFICES ASSUME DecInv, jpeg_read_scanlines PROVE DecInv'
  OBVIOUS
<1>1. /\ Idle /\ d.global_state \in {"SCANNING", "RAW_OK"} /\ d.output_line < Rows
      /\ call' = "read_scanlines" /\ file' = file /\ arrived' = arrived /\ d' = d /\ out' = out
      /\ images' = images
  BY DEF jpeg_read_scanlines, Scanning
<1>2. Good(d, call, out) /\ Calls(d, call) /\ d.ret # "error"
  BY <1>1, Known
<1>3. Calls(d, "read_scanlines")
  BY <1>1, <1>2 DEF Calls
<1>4. Good(d, "read_scanlines", out)
  BY <1>2, <1>3 DEF Good
<1> QED BY <1>1, <1>4, Kept

(* The calls that end a pass. *)
LEMMA PassEndIs ==
  ASSUME NEW s \in State, NEW g \in States, NEW t,
         \/ t = [finish_output_pass(s) EXCEPT !.global_state = g]
         \/ t = [s EXCEPT !.global_state = g]
  PROVE  /\ t \in State /\ t.global_state = g /\ SameInput(s, t) /\ t.ret = s.ret
         /\ t.buffered_image = s.buffered_image /\ t.output_scan = s.output_scan
         /\ t.is_dummy_pass = s.is_dummy_pass
<1>1. CASE t = [s EXCEPT !.global_state = g]
  BY ONLY <1>1, s \in State, g \in States DEF State, SameInput
<1>2. CASE t = [finish_output_pass(s) EXCEPT !.global_state = g]
  <2> DEFINE b == s.two_pass
             u == [s EXCEPT !.colormap = b]
  <2>1. b \in BOOLEAN
    BY ONLY s \in State DEF State
  <2>2. t = [u EXCEPT !.global_state = g]
    BY <1>2 DEF finish_output_pass
  <2> HIDE DEF b
  <2>3. /\ u \in State /\ SameInput(s, u) /\ u.ret = s.ret
        /\ u.buffered_image = s.buffered_image /\ u.output_scan = s.output_scan
        /\ u.is_dummy_pass = s.is_dummy_pass
    BY ONLY <2>1, s \in State DEF State, SameInput
  <2> HIDE DEF u
  <2>4. /\ t \in State /\ t.global_state = g /\ SameInput(u, t) /\ t.ret = u.ret
        /\ t.buffered_image = u.buffered_image /\ t.output_scan = u.output_scan
        /\ t.is_dummy_pass = u.is_dummy_pass
    BY ONLY <2>2, <2>3, g \in States DEF State, SameInput
  <2>5. SameInput(s, t)
    BY <2>3, <2>4 DEF SameInput
  <2> QED BY <2>3, <2>4, <2>5
<1> QED BY <1>1, <1>2

LEMMA FinishOutputStartKeeps == DecInv /\ jpeg_finish_output => DecInv'
<1> SUFFICES ASSUME DecInv, jpeg_finish_output PROVE DecInv'
  OBVIOUS
<1>1. /\ Idle /\ call' = "finish_output" /\ file' = file /\ arrived' = arrived /\ out' = out
      /\ images' = images
  BY Zenon DEF jpeg_finish_output
<1>2. /\ file \in Files /\ d \in State /\ Counted(d) /\ out \in Seq(Row) /\ Good(d, call, out)
      /\ Mode(d, out) /\ Calls(d, call) /\ d.ret # "error"
  BY <1>1, Known
<1>3. \/ /\ d.global_state \in {"SCANNING", "RAW_OK"} /\ d.buffered_image
         /\ d' = [finish_output_pass(d) EXCEPT !.global_state = "BUFPOST"]
      \/ d.global_state = "BUFPOST" /\ d' = d
  BY Zenon DEF jpeg_finish_output, Scanning
<1>4. CASE d.global_state \in {"SCANNING", "RAW_OK"}
  <2> DEFINE t == [finish_output_pass(d) EXCEPT !.global_state = "BUFPOST"]
  <2>1. d' = t /\ d.buffered_image
    BY <1>3, <1>4
  <2>2. /\ t \in State /\ t.global_state = "BUFPOST" /\ SameInput(d, t) /\ t.ret = d.ret
        /\ t.buffered_image = d.buffered_image /\ t.output_scan = d.output_scan
        /\ t.is_dummy_pass = d.is_dummy_pass
    <3>1. "BUFPOST" \in States
      BY DEF States
    <3> QED BY <1>2, <3>1, PassEndIs
  <2> HIDE DEF t
  <2>3. /\ Reading(d) /\ d.full_buffer = (file.multi \/ d.buffered_image) /\ d.input_scan >= 1
        /\ d.output_scan >= 1 /\ ~d.is_dummy_pass
    BY <1>2, <1>4 DEF Mode, Active, States, ShowingStates
  <2>4. /\ Reading(t) /\ Counted(t) /\ t.full_buffer = (file.multi \/ t.buffered_image)
        /\ t.input_scan >= 1
    <3>1. Reading(t)
      BY <2>2, <2>3, ReadingSame
    <3> QED BY <3>1, <1>2, <2>2, <2>3 DEF SameInput, Counted
  <2>5. Mode(t, out)
    BY <2>1, <2>2, <2>3, <2>4 DEF Mode, Active, ShowingStates
  <2>6. Calls(t, "finish_output")
    BY <1>2, <1>4, <2>2 DEF Calls
  <2>7. Good(t, "finish_output", out)
    BY <1>2, <2>2, <2>4, <2>5, <2>6 DEF Good
  <2> QED BY <1>1, <2>1, <2>7, Kept
<1>5. CASE d.global_state = "BUFPOST"
  <2>1. Calls(d, "finish_output")
    BY <1>2, <1>5 DEF Calls
  <2>2. Good(d, "finish_output", out) /\ d' = d
    BY <1>2, <1>3, <1>5, <2>1 DEF Good
  <2> QED BY <1>1, <2>2, Kept
<1> QED BY <1>3, <1>4, <1>5

LEMMA FinishDecompressStartKeeps == DecInv /\ jpeg_finish_decompress => DecInv'
<1> SUFFICES ASSUME DecInv, jpeg_finish_decompress PROVE DecInv'
  OBVIOUS
<1>1. /\ Idle /\ call' = "finish_decompress" /\ file' = file /\ arrived' = arrived /\ out' = out
      /\ images' = images
  BY Zenon DEF jpeg_finish_decompress
<1>2. /\ file \in Files /\ d \in State /\ Counted(d) /\ out \in Seq(Row) /\ Good(d, call, out)
      /\ Mode(d, out) /\ Calls(d, call) /\ d.ret # "error"
  BY <1>1, Known
<1>3. \/ /\ d.global_state \in {"SCANNING", "RAW_OK"}
         /\ d' = [finish_output_pass(d) EXCEPT !.global_state = "STOPPING"]
      \/ d.global_state = "BUFIMAGE" /\ d' = [d EXCEPT !.global_state = "STOPPING"]
      \/ d.global_state = "STOPPING" /\ d' = d
  BY Zenon DEF jpeg_finish_decompress, Scanning
<1>4. CASE d.global_state \in {"SCANNING", "RAW_OK", "BUFIMAGE"}
  <2>1. /\ d' \in State /\ d'.global_state = "STOPPING" /\ SameInput(d, d') /\ d'.ret = d.ret
        /\ d'.buffered_image = d.buffered_image
    <3>1. "STOPPING" \in States
      BY DEF States
    <3>2. \/ d' = [finish_output_pass(d) EXCEPT !.global_state = "STOPPING"]
          \/ d' = [d EXCEPT !.global_state = "STOPPING"]
      BY <1>3, <1>4
    <3> QED BY <1>2, <3>1, <3>2, PassEndIs
  <2>2. /\ Reading(d) /\ d.full_buffer = (file.multi \/ d.buffered_image) /\ d.input_scan >= 1
    BY <1>2, <1>4 DEF Mode, Active, States
  <2> DEFINE t == d'
  <2>3. /\ Reading(t) /\ Counted(t) /\ t.full_buffer = (file.multi \/ t.buffered_image)
        /\ t.input_scan >= 1
    <3>1. Reading(t)
      BY <2>1, <2>2, ReadingSame
    <3> QED BY <3>1, <1>2, <2>1, <2>2 DEF SameInput, Counted
  <2>4. Mode(t, out)
    BY <2>1, <2>3 DEF Mode, Active, ShowingStates
  <2>5. Calls(t, "finish_decompress")
    BY <1>2, <1>4, <2>1 DEF Calls
  <2>6. Good(t, "finish_decompress", out)
    BY <1>2, <2>1, <2>3, <2>4, <2>5 DEF Good
  <2> QED BY <1>1, <2>6, Kept
<1>5. CASE d.global_state = "STOPPING"
  <2>1. Calls(d, "finish_decompress")
    BY <1>2, <1>5 DEF Calls
  <2>2. Good(d, "finish_decompress", out) /\ d' = d
    BY <1>2, <1>3, <1>5, <2>1 DEF Good
  <2> QED BY <1>1, <2>2, Kept
<1> QED BY <1>3, <1>4, <1>5

LEMMA ReadCoefficientsStartKeeps == DecInv /\ jpeg_read_coefficients => DecInv'
<1> SUFFICES ASSUME DecInv, jpeg_read_coefficients PROVE DecInv'
  OBVIOUS
<1>1. /\ Idle /\ call' = "read_coefficients" /\ file' = file /\ arrived' = arrived /\ out' = out
      /\ images' = images
  BY Zenon DEF jpeg_read_coefficients
<1>2. /\ file \in Files /\ d \in State /\ Counted(d) /\ out \in Seq(Row) /\ Good(d, call, out)
      /\ Mode(d, out) /\ Calls(d, call) /\ d.ret # "error"
  BY <1>1, Known
<1> DEFINE z == [c \in Cell |-> 0]
           u == [d EXCEPT !.full_buffer = TRUE, !.coefs = z]
           v == start_input_pass(u)
           t == [v EXCEPT !.buffered_image = TRUE, !.global_state = "RDCOEFS"]
<1>3. \/ d.global_state = "READY" /\ d' = t
      \/ d.global_state = "RDCOEFS" /\ d' = d
  BY Zenon DEF jpeg_read_coefficients
<1>4. CASE d.global_state = "READY"
  <2>1. z \in [Cell -> Int] /\ \A c \in Cell : z[c] = 0
    BY Blank
  <2> HIDE DEF z
  <2>2. /\ u \in State /\ u.full_buffer /\ u.coefs = z
        /\ u.inheaders = d.inheaders /\ u.eoi_reached = d.eoi_reached /\ u.input_scan = d.input_scan
        /\ u.has_multiple_scans = d.has_multiple_scans /\ u.pos = d.pos /\ u.ret = d.ret
    BY ONLY <1>2, <2>1 DEF State
  <2> HIDE DEF u
  <2>3. /\ v \in State /\ SameControl(u, v) /\ v.pos = u.pos
        /\ v.inheaders = u.inheaders /\ v.eoi_reached = u.eoi_reached
        /\ v.has_multiple_scans = u.has_multiple_scans /\ v.input_scan = u.input_scan
        /\ v.coefs = u.coefs /\ v.input_row = 0 /\ v.MCU_ctr = 0
        /\ v.consume = (IF u.full_buffer THEN "data" ELSE "dummy") /\ v.ret = u.ret
    BY ONLY <2>2, StartInputPassIs
  <2> HIDE DEF v
  <2>4. t \in State
    BY ONLY <2>3 DEF State, States
  <2>5. t.global_state = "RDCOEFS" /\ t.buffered_image /\ SameInput(v, t) /\ t.ret = v.ret
    BY ONLY <2>3 DEF State, SameInput
  <2>6. d' = t
    BY <1>3, <1>4
  <2> HIDE DEF t
  <2>7. Started(d)
    BY <1>2, <1>4 DEF Mode
  <2>8. /\ ~t.inheaders /\ t.input_scan = 1 /\ ~t.eoi_reached /\ t.pos = At(1) /\ At(1) < End
        /\ t.has_multiple_scans = file.multi /\ t.coefs = z /\ t.full_buffer
        /\ t.input_row = 0 /\ t.MCU_ctr = 0 /\ t.consume = "data" /\ t.ret = d.ret
        /\ t.pos = d.pos
    BY <2>2, <2>3, <2>5, <2>7 DEF Started, SameInput, SameControl
  <2>9. Decoded(t)
    <3>1. \A c \in Cell : FromFile(c, 0) = 0
      <4>1. \A c \in Cell : FromFile(c, 0) \in 0 .. 0
        BY <1>2, FromFileIs
      <4> QED BY <4>1
    <3>2. \A c \in Cell : ~Done(t, c)
      BY <2>8, SizesNat DEF Done, Cell
    <3> QED BY <3>1, <3>2, <2>1, <2>8 DEF Decoded
  <2>10. t.pos = Lesser(At(1) + (t.input_row * Cols + t.MCU_ctr), End - 1)
    <3>1. t.input_row * Cols + t.MCU_ctr = 0
      BY <2>8, SizesNat
    <3>2. End \in Nat /\ At(1) \in Nat
      <4>1. [row |-> 0, col |-> 0] \in Cell
        BY SizesNat DEF Cell
      <4> QED BY <4>1, <1>2, PlaceIs, UnitIs
    <3> QED BY <3>1, <3>2, <2>8 DEF Lesser
  <2>11. Reading(t)
    <3>1. 0 # Rows /\ 1 >= 1
      BY SizesNat
    <3> QED BY <3>1, <2>8, <2>9, <2>10 DEF Reading
  <2>12. Counted(t)
    BY <1>2, <2>7, <2>8 DEF Counted, Started
  <2>13. t.full_buffer = (file.multi \/ t.buffered_image) /\ t.input_scan >= 1
    <3>1. t.full_buffer \in BOOLEAN /\ t.buffered_image \in BOOLEAN
      BY ONLY <2>4 DEF State
    <3>2. t.full_buffer = TRUE /\ t.buffered_image = TRUE
      BY <3>1, <2>5, <2>8
    <3>3. t.input_scan >= 1
      BY <2>8
    <3> QED BY ONLY <3>2, <3>3
  <2>14. Mode(t, out)
    BY <2>5, <2>11, <2>13 DEF Mode, Active, ShowingStates
  <2>15. Calls(t, "read_coefficients")
    BY <1>2, <1>4, <2>5, <2>8 DEF Calls
  <2>16. Good(t, "read_coefficients", out)
    BY <1>2, <2>4, <2>12, <2>14, <2>15 DEF Good
  <2> QED BY <1>1, <2>6, <2>16, Kept
<1>5. CASE d.global_state = "RDCOEFS"
  <2>1. d' = d
    BY <1>3, <1>5
  <2>2. Calls(d, "read_coefficients")
    BY <1>2, <1>5 DEF Calls
  <2>3. Good(d, "read_coefficients", out)
    BY <1>2, <2>2 DEF Good
  <2> QED BY <1>1, <2>1, <2>3, Kept
<1> QED BY <1>3, <1>4, <1>5

(* Rows are made, for the application or for the quantizer. *)
LEMMA MadeKeeps ==
  ASSUME file \in Files, NEW s, NEW t, NEW c, NEW c2, NEW o, Good(s, c, o),
         s.global_state \in ShowingStates, Made(s, t, o),
         c2 = "none" \/ (c2 = c /\ s.global_state = "PRESCAN")
  PROVE  Good(t, c2, IF s.is_dummy_pass THEN o ELSE Append(o, RowMade(s, t)))
<1> DEFINE o2 == IF s.is_dummy_pass THEN o ELSE Append(o, RowMade(s, t))
<1>1. s \in State /\ o \in Seq(Row) /\ Mode(s, o) /\ Calls(s, c)
  BY DEF Good
<1>2. /\ t \in State /\ Counted(t) /\ Reading(t) /\ t.ret = "row" /\ RowMade(s, t) \in Row
      /\ t.global_state = s.global_state /\ t.buffered_image = s.buffered_image
      /\ t.is_dummy_pass = s.is_dummy_pass /\ t.full_buffer = s.full_buffer
      /\ t.input_scan = s.input_scan /\ t.output_scan = s.output_scan
      /\ s.eoi_reached => t.eoi_reached
      /\ Abreast(t) /\ Showing(t, o2)
  BY DEF Made
<1>3. o2 \in Seq(Row)
  <2> DEFINE r == RowMade(s, t)
  <2>1. r \in Row
    BY <1>2
  <2>2. o2 = IF s.is_dummy_pass THEN o ELSE Append(o, r)
    OBVIOUS
  <2> HIDE DEF r, o2
  <2>3. Append(o, r) \in Seq(Row)
    BY ONLY <1>1, <2>1
  <2> QED BY ONLY <1>1, <2>2, <2>3
<1> HIDE DEF o2
<1>4. s.global_state \in Active
  BY DEF Active, States, ShowingStates
<1>5. /\ s.full_buffer = (file.multi \/ s.buffered_image) /\ s.input_scan >= 1
      /\ s.output_scan >= 1 /\ Wanted(s)
      /\ s.global_state \in {"SCANNING", "RAW_OK"} => ~s.is_dummy_pass
  BY <1>1, <1>4 DEF Mode
<1>6. Wanted(t)
  BY <1>2, <1>5 DEF Wanted
<1>7. Mode(t, o2)
  BY <1>2, <1>5, <1>6 DEF Mode, Active, ShowingStates
<1>8. Calls(t, c2)
  BY <1>1, <1>2 DEF Calls
<1>9. Good(t, c2, o2)
  BY <1>2, <1>3, <1>7, <1>8 DEF Good
<1> QED BY <1>9 DEF o2

LEMMA ReadRowKeeps == DecInv /\ ReadRow => DecInv'
<1> SUFFICES ASSUME DecInv, ReadRow PROVE DecInv'
  OBVIOUS
<1> DEFINE s == main_process_data(d)
<1>1. /\ call = "read_scanlines" /\ file' = file /\ arrived' = arrived /\ images' = images
      /\ RowRead(s)
  BY Zenon DEF ReadRow
<1>2. /\ file \in Files /\ arrived \in 0 .. End /\ d \in State /\ Counted(d) /\ out \in Seq(Row)
      /\ Mode(d, out) /\ Calls(d, call) /\ Good(d, call, out) /\ d.ret # "error"
      /\ d.output_line \in 0 .. Rows
  BY <1>1, Known
<1>3. d.global_state \in {"SCANNING", "RAW_OK"} /\ d.output_line < Rows
  BY <1>1, <1>2 DEF Calls
<1>4. d.global_state \in Active /\ d.global_state \in ShowingStates
  BY <1>3 DEF Active, States, ShowingStates
<1>5. Making(d, out) /\ ~d.is_dummy_pass
  BY <1>2, <1>3, <1>4 DEF Making, Mode
<1>6. \/ Consuming(d, s) /\ Showing(s, out) /\ Abreast(s)
      \/ Made(d, s, out)
  BY <1>2, <1>5, Processed
<1> HIDE DEF s
<1>7. CASE Consuming(d, s)
  <2>1. s.output_line = d.output_line
    BY <1>7 DEF Consuming, SameControl
  <2>2. out' = out /\ d' = s /\ (call' = "none" \/ (call' = call /\ s.ret # "error"))
    BY <1>1, <1>2, <2>1 DEF RowRead, Return, Go, Stuck
  <2>3. Good(s, call', out)
    BY <1>2, <1>4, <1>7, <2>2, ConsumingKeeps
  <2> QED BY <1>1, <2>2, <2>3, Kept
<1>8. CASE Made(d, s, out)
  <2>1. s.output_line = d.output_line + 1
    BY <1>8 DEF Made
  <2>2. s.output_line > d.output_line /\ s.output_line # d.output_line
    BY <2>1, <1>2, SizesNat
  <2>3. d' = s /\ call' = "none"
    BY <1>1, <2>2 DEF RowRead, Return
  <2>4. out' = Append(out, RowMade(d, s))
    BY <1>1, <2>2 DEF RowRead, RowMade
  <2>5. Good(s, "none", Append(out, RowMade(d, s)))
    <3>1. Good(s, "none", IF d.is_dummy_pass THEN out ELSE Append(out, RowMade(d, s)))
      BY <1>2, <1>4, <1>8, MadeKeeps
    <3> QED BY <3>1, <1>5
  <2> QED BY <1>1, <2>3, <2>4, <2>5, Kept
<1> QED BY <1>6, <1>7, <1>8

LEMMA DummyPassKeeps == DecInv /\ DummyPass => DecInv'
<1> SUFFICES ASSUME DecInv, DummyPass PROVE DecInv'
  OBVIOUS
<1>1. /\ call \in {"start_decompress", "start_output"} /\ d.global_state = "PRESCAN" /\ d.is_dummy_pass
      /\ file' = file /\ arrived' = arrived /\ out' = out /\ images' = images
  BY Zenon DEF DummyPass
<1>2. /\ file \in Files /\ arrived \in 0 .. End /\ d \in State /\ Counted(d) /\ out \in Seq(Row)
      /\ Mode(d, out) /\ Calls(d, call) /\ Good(d, call, out) /\ d.ret # "error"
      /\ d.output_line \in 0 .. Rows
  BY <1>1, Known
<1>3. d.global_state \in Active /\ d.global_state \in ShowingStates
  BY <1>1 DEF Active, States, ShowingStates
<1>4. /\ Reading(d) /\ d.full_buffer = (file.multi \/ d.buffered_image) /\ Wanted(d)
      /\ Showing(d, out) /\ Abreast(d) /\ d.input_scan >= 1 /\ d.output_scan >= 1
  BY <1>2, <1>3 DEF Mode
<1>5. CASE d.output_line < Rows
  <2> DEFINE s == main_process_data(d)
  <2>1. Continue(s)
    BY <1>5, Zenon DEF DummyPass
  <2>2. Making(d, out)
    BY <1>2, <1>4, <1>5 DEF Making
  <2>3. \/ Consuming(d, s) /\ Showing(s, out) /\ Abreast(s)
        \/ Made(d, s, out)
    BY <1>2, <2>2, Processed
  <2> HIDE DEF s
  <2>4. d' = s /\ (call' = "none" \/ (call' = call /\ ~Stuck(s)))
    BY <2>1 DEF Continue, Return, Go
  <2>5. CASE Consuming(d, s)
    <3>1. Good(s, call', out)
      BY <1>2, <1>3, <2>4, <2>5, ConsumingKeeps DEF Stuck
    <3> QED BY <1>1, <2>4, <3>1, Kept
  <2>6. CASE Made(d, s, out)
    <3>1. Good(s, call', IF d.is_dummy_pass THEN out ELSE Append(out, RowMade(d, s)))
      BY <1>1, <1>2, <1>3, <2>4, <2>6, MadeKeeps
    <3>2. Good(s, call', out)
      BY <3>1, <1>1
    <3> QED BY <1>1, <2>4, <3>2, Kept
  <2> QED BY <2>3, <2>5, <2>6
<1>6. CASE ~(d.output_line < Rows)
  <2> DEFINE b == d.two_pass
             u == [d EXCEPT !.colormap = b]
             v == [u EXCEPT !.is_dummy_pass = FALSE]
             t == [v EXCEPT !.output_line = 0]
  <2>1. b \in BOOLEAN /\ u.is_dummy_pass
    BY ONLY <1>1, <1>2 DEF State
  <2>2. d' = t /\ call' = call
    <3>1. Go([prepare_for_output_pass(finish_output_pass(d)) EXCEPT !.output_line = 0])
      BY <1>6, Zenon DEF DummyPass
    <3>2. prepare_for_output_pass(finish_output_pass(d)) = v
      BY <2>1 DEF prepare_for_output_pass, finish_output_pass
    <3> HIDE DEF v
    <3> QED BY <3>1, <3>2 DEF Go
  <2> HIDE DEF b
  <2>3. u \in State /\ SameInput(d, u) /\ u.ret = d.ret
        /\ u.buffered_image = d.buffered_image /\ u.output_scan = d.output_scan
        /\ u.saved = d.saved /\ u.output_row = d.output_row /\ u.smoothing = d.smoothing
        /\ u.global_state = d.global_state
    BY ONLY <2>1, <1>2 DEF State, SameInput
  <2> HIDE DEF u
  <2>4. 0 \in 0 .. Rows
    BY SizesNat
  <2>5. v \in State /\ SameInput(u, v) /\ v.ret = u.ret /\ ~v.is_dummy_pass
        /\ v.buffered_image = u.buffered_image /\ v.output_scan = u.output_scan
        /\ v.saved = u.saved /\ v.output_row = u.output_row /\ v.smoothing = u.smoothing
        /\ v.global_state = u.global_state
    BY ONLY <2>3 DEF State, SameInput
  <2> HIDE DEF v
  <2>6. t \in State /\ SameInput(v, t) /\ t.ret = v.ret /\ t.is_dummy_pass = v.is_dummy_pass
        /\ t.buffered_image = v.buffered_image /\ t.output_scan = v.output_scan
        /\ t.saved = v.saved /\ t.output_row = v.output_row /\ t.smoothing = v.smoothing
        /\ t.global_state = v.global_state /\ t.output_line = 0
    BY ONLY <2>4, <2>5 DEF State, SameInput
  <2> HIDE DEF t
  <2>7. SameInput(d, t)
    BY <2>3, <2>5, <2>6 DEF SameInput
  <2>8. /\ t.ret = d.ret /\ t.is_dummy_pass = FALSE
        /\ t.buffered_image = d.buffered_image /\ t.output_scan = d.output_scan
        /\ t.saved = d.saved /\ t.output_row = d.output_row /\ t.smoothing = d.smoothing
        /\ t.global_state = "PRESCAN" /\ t.output_line = 0
    BY <1>1, <2>3, <2>5, <2>6
  <2>9. /\ t.input_scan = d.input_scan /\ t.full_buffer = d.full_buffer /\ t.input_row = d.input_row
        /\ t.eoi_reached = d.eoi_reached /\ t.pos = d.pos
    BY <2>7 DEF SameInput
  <2>10. Reading(t) /\ Counted(t) /\ Wanted(t) /\ Abreast(t)
    <3>1. Reading(t)
      BY <1>4, <2>7, ReadingSame
    <3> QED BY <3>1, <1>2, <1>4, <2>8, <2>9 DEF Counted, Wanted, Abreast
  <2>11. Len(t.saved) = Rows /\ Len(out) = 0 /\ t.saved # <<>>
    <3>1. Len(d.saved) = d.output_line /\ out = <<>> /\ d.output_line = Rows
      BY <1>1, <1>2, <1>4, <1>6, SizesNat DEF Showing
    <3> QED BY <3>1, <2>8, SizesNat
  <2>12. Showing(t, out)
    <3>1. \A row, r : GoodRow(d, row, r) => GoodRow(t, row, r)
      BY <2>8, <2>9 DEF GoodRow
    <3> QED BY <3>1, <1>4, <2>8, <2>9, <2>11 DEF Showing
  <2>13. Mode(t, out)
    BY <1>4, <2>8, <2>9, <2>10, <2>12 DEF Mode, Active, ShowingStates
  <2>14. Calls(t, call)
    BY <1>1, <1>2, <2>8 DEF Calls
  <2>15. Good(t, call, out)
    BY <1>2, <2>6, <2>10, <2>13, <2>14 DEF Good
  <2> QED BY <1>1, <2>2, <2>15, Kept
<1> QED BY <1>5, <1>6

LEMMA PreparePassKeeps == DecInv /\ PreparePass => DecInv'
<1> SUFFICES ASSUME DecInv, PreparePass PROVE DecInv'
  OBVIOUS
<1>1. /\ call \in {"start_decompress", "start_output"} /\ d.global_state = "PREPARE"
      /\ file' = file /\ arrived' = arrived /\ out' = <<>> /\ images' = images
  BY Zenon DEF PreparePass
<1>2. /\ file \in Files /\ d \in State /\ Counted(d)
      /\ Mode(d, out) /\ Calls(d, call) /\ d.ret # "error"
  BY <1>1, Known
<1>3. d.global_state \in Active
  BY <1>1 DEF Active, States
<1>4. /\ Reading(d) /\ d.full_buffer = (file.multi \/ d.buffered_image) /\ Wanted(d)
      /\ d.input_scan >= 1 /\ d.output_scan >= 1 /\ ~d.is_dummy_pass
      /\ ~d.full_buffer => d.input_row = 0
  BY <1>1, <1>2, <1>3 DEF Mode
<1>5. PICK smoothing_ok \in BOOLEAN :
        /\ smoothing_ok => /\ file.progressive /\ d.full_buffer
                           /\ \E n \in 1 .. d.input_scan : file.scans[n] = "dc"
        /\ Go([prepare_for_output_pass(d) EXCEPT !.output_line = 0, !.global_state = "PRESCAN",
                                                 !.smoothing = smoothing_ok])
  BY Zenon DEF PreparePass
<1> DEFINE b == d.two_pass /\ ~d.colormap
           e == <<>>
           v == [d EXCEPT !.is_dummy_pass = b, !.output_row = 0, !.saved = e]
           t == [v EXCEPT !.output_line = 0, !.global_state = "PRESCAN", !.smoothing = smoothing_ok]
<1>6. d' = t /\ call' = call
  <2>1. prepare_for_output_pass(d) = v
    BY <1>4 DEF prepare_for_output_pass
  <2> HIDE DEF v
  <2> QED BY <1>5, <2>1 DEF Go
<1>7. b \in BOOLEAN /\ e \in Seq(Row) /\ 0 \in 0 .. Rows /\ Len(e) = 0
  BY SizesNat
<1> HIDE DEF b, e
<1>8. /\ v \in State /\ SameInput(d, v) /\ v.ret = d.ret /\ v.is_dummy_pass = b
      /\ v.buffered_image = d.buffered_image /\ v.output_scan = d.output_scan
      /\ v.saved = e /\ v.output_row = 0
  <2>1. d \in State
    BY <1>2
  <2>2. v \in State
    <3>1. b \in BOOLEAN /\ e \in Seq(Row) /\ 0 \in 0 .. Rows
      BY <1>7
    <3> QED BY ONLY <2>1, <3>1 DEF State
  <2>3. SameInput(d, v)
    BY ONLY <2>1, <2>2 DEF State, SameInput
  <2> QED BY ONLY <2>1, <2>2, <2>3 DEF State
<1> HIDE DEF v
<1>9. /\ t \in State /\ SameInput(v, t) /\ t.ret = v.ret /\ t.is_dummy_pass = v.is_dummy_pass
      /\ t.buffered_image = v.buffered_image /\ t.output_scan = v.output_scan
      /\ t.saved = v.saved /\ t.output_row = v.output_row /\ t.output_line = 0
      /\ t.global_state = "PRESCAN" /\ t.smoothing = smoothing_ok
  BY ONLY <1>7, <1>8, smoothing_ok \in BOOLEAN DEF State, SameInput, States
<1> HIDE DEF t
<1>10. SameInput(d, t)
  BY <1>8, <1>9 DEF SameInput
<1>11. /\ t.input_scan = d.input_scan /\ t.full_buffer = d.full_buffer /\ t.input_row = d.input_row
       /\ t.eoi_reached = d.eoi_reached /\ t.pos = d.pos
  BY <1>10 DEF SameInput
<1>12. /\ t.buffered_image = d.buffered_image /\ t.output_scan = d.output_scan /\ t.ret = d.ret
       /\ Len(t.saved) = 0 /\ t.saved = <<>> /\ t.output_row = 0
  BY <1>7, <1>8, <1>9 DEF e
<1>13. Reading(t) /\ Counted(t) /\ Wanted(t) /\ Abreast(t)
  <2>1. Reading(t)
    BY <1>4, <1>10, ReadingSame
  <2> QED BY <2>1, <1>2, <1>4, <1>11, <1>12 DEF Counted, Wanted, Abreast
<1>14. Showing(t, <<>>)
  <2>1. t.smoothing => t.full_buffer /\ \E n \in 1 .. t.input_scan : file.scans[n] = "dc"
    BY <1>5, <1>9, <1>11
  <2> QED BY <2>1, <1>9, <1>12 DEF Showing
<1>15. Mode(t, <<>>)
  BY <1>4, <1>9, <1>11, <1>12, <1>13, <1>14 DEF Mode, Active, ShowingStates
<1>16. Calls(t, call)
  BY <1>1, <1>2, <1>9, <1>12 DEF Calls
<1>17. <<>> \in Seq(Row)
  OBVIOUS
<1>18. Good(t, call, <<>>)
  BY <1>9, <1>13, <1>15, <1>16, <1>17 DEF Good
<1> QED BY <1>1, <1>6, <1>18, Kept

LEMMA DecInvStart == DecoderInit => DecInv
<1> SUFFICES ASSUME DecoderInit PROVE DecInv
  OBVIOUS
<1>1. file \in Files /\ arrived = 0 /\ d = Created /\ call = "none" /\ out = <<>> /\ images = 0
  BY DEF DecoderInit
<1>2. N \in Nat /\ End \in Nat
  BY <1>1, UnitIs
<1> DEFINE z == [c \in Cell |-> 0]
           e == <<>>
<1>3. z \in [Cell -> Int] /\ e \in Seq(Row) /\ 0 \in 0 .. Rows /\ 0 \in 0 .. Cols - 1
  BY Blank, SizesNat
<1>4. d = [global_state |-> "START", buffered_image |-> FALSE, two_pass |-> FALSE,
           smoothing |-> FALSE, colormap |-> FALSE, is_dummy_pass |-> FALSE, raw |-> FALSE,
           full_buffer |-> FALSE, inheaders |-> TRUE, eoi_reached |-> FALSE,
           has_multiple_scans |-> FALSE, saw_SOF |-> FALSE, consume |-> "markers", input_scan |-> 0,
           output_scan |-> 0, input_row |-> 0, output_row |-> 0, MCU_ctr |-> 0, output_line |-> 0,
           pos |-> 0, coefs |-> z, saved |-> e, ret |-> "ok"]
  BY <1>1 DEF Created
<1> HIDE DEF z, e
<1>5. d \in State
  BY ONLY <1>3, <1>4 DEF State, States, Results
<1>6. d.global_state = "START" /\ d.ret = "ok" /\ d.pos = 0 /\ d.input_scan = 0
  BY ONLY <1>4
<1>7. Mode(d, out)
  BY <1>6 DEF Mode, Active, ShowingStates
<1>8. Calls(d, call) /\ Counted(d)
  BY <1>1, <1>2, <1>6 DEF Calls, Counted
<1>9. out \in Seq(Row)
  BY <1>1
<1> QED BY <1>1, <1>2, <1>5, <1>7, <1>8, <1>9 DEF DecInv, Good

LEMMA DecInvStep == DecInv /\ [DecoderNext]_decVars => DecInv'
<1> SUFFICES ASSUME DecInv, [DecoderNext]_decVars PROVE DecInv'
  OBVIOUS
<1>1. CASE UNCHANGED decVars
  <2>1. /\ file' = file /\ arrived' = arrived /\ d' = d /\ call' = call /\ out' = out
        /\ images' = images
    BY <1>1 DEF decVars
  <2>2. Good(d, call, out)
    BY DEF DecInv
  <2> QED BY <2>1, <2>2, Kept
<1>2. CASE Running
  BY <1>2, PreloadKeeps, PreparePassKeeps, DummyPassKeeps, PassReadyKeeps, ReadRowKeeps,
     FinishOutputKeeps, FinishDecompressKeeps, ReadCoefficientsKeeps DEF Running
<1>3. CASE DecoderNext /\ ~Running
  BY <1>3, DeliverKeeps, BeginFileKeeps, ReadHeaderKeeps, ConsumeInputKeeps,
     StartDecompressKeeps, StartOutputKeeps, ReadScanlinesKeeps, FinishOutputStartKeeps,
     FinishDecompressStartKeeps, ReadCoefficientsStartKeeps, AbortDecompressKeeps DEF DecoderNext
<1> QED BY <1>1, <1>2, <1>3

LEMMA CoefficientsWhole == DecInv => CoefficientsComplete
<1> SUFFICES ASSUME DecInv, d.ret = "coefs", NEW c \in Cell
             PROVE  d.coefs[c] = FromFile(c, Len(file.scans))
  BY DEF CoefficientsComplete
<1> DEFINE n == d.input_scan
<1>1. /\ file \in Files /\ Counted(d) /\ Mode(d, out) /\ Calls(d, call) /\ d.input_row \in 0 .. Rows
      /\ n \in Nat
  BY Known
<1>2. d.global_state = "STOPPING" /\ d.eoi_reached
  BY <1>1 DEF Calls
<1>3. Reading(d)
  BY <1>1, <1>2 DEF Mode, Active, States
<1>4. /\ d.input_row = Rows /\ d.coefs[c] = FromFile(c, IF Done(d, c) THEN n ELSE n - 1)
      /\ End - 1 <= At(n) + Rows * Cols /\ n \in Nat \ {0}
  BY <1>1, <1>2, <1>3 DEF Reading, Decoded
<1>5. Done(d, c)
  BY <1>4, SizesNat DEF Done, Cell
<1>6. N \in Nat /\ End \in Nat /\ n \in 0 .. N
  BY <1>1, UnitIs DEF Counted
<1>7. End <= Place(n + 1, c)
  <2>1. /\ At(n + 1) = At(n) + 1 + Rows * Cols /\ At(n) \in Nat /\ At(n + 1) \in Nat
    BY <1>4, PlaceIs
  <2>2. At(n + 1) < Place(n + 1, c) /\ Place(n + 1, c) \in Nat
    BY <1>4, PlaceIs
  <2> HIDE DEF n
  <2> QED BY <2>1, <2>2, <1>4, <1>6, SizesNat
<1>8. FromFile(c, N) = FromFile(c, n)
  BY <1>1, <1>6, <1>7, FromFileSteps
<1> QED BY <1>4, <1>5, <1>8 DEF N

LEMMA RowsRight == DecInv => RowsAreImage
<1> SUFFICES ASSUME DecInv, d.global_state \in {"SCANNING", "RAW_OK"} PROVE RowsAreImage
  BY DEF RowsAreImage
<1>1. file \in Files /\ Mode(d, out) /\ out \in Seq(Row) /\ d.input_scan \in Nat
  BY Known
<1>2. Showing(d, out) /\ ~d.is_dummy_pass
  BY <1>1 DEF Mode, ShowingStates
<1>3. Len(out) = d.output_line /\ \A i \in 1 .. Len(out) : GoodRow(d, out[i], i - 1)
  BY <1>2 DEF Showing
<1>4. d.output_line \in 0 .. Rows
  BY Known
<1>5. ASSUME NEW i \in DOMAIN out, NEW col \in 0 .. Cols - 1
      PROVE  LET c == [row |-> i - 1, col |-> col] IN
               /\ out[i][col] >= FromFile(c, d.output_scan)
               /\ out[i][col] \in {0} \cup {FromFile(c, n) : n \in 1 .. d.input_scan}
               /\ ~d.buffered_image => out[i][col] = FromFile(c, Final)
  <2> DEFINE c == [row |-> i - 1, col |-> col]
  <2>1. i \in 1 .. Len(out) /\ i - 1 \in 0 .. Rows - 1
    BY <1>1, <1>3, <1>4, SizesNat
  <2>2. c \in Cell
    BY <2>1 DEF Cell
  <2>3. FromFile(c, 0) = 0
    <3>1. FromFile(c, 0) \in 0 .. 0
      BY <1>1, <2>2, FromFileIs
    <3> QED BY <3>1
  <2>4. /\ \E n \in 0 .. d.input_scan : out[i][col] = FromFile(c, n)
        /\ out[i][col] >= FromFile(c, d.output_scan)
        /\ ~d.buffered_image => out[i][col] = FromFile(c, Final)
    BY <1>3, <2>1 DEF GoodRow
  <2>5. out[i][col] \in {0} \cup {FromFile(c, n) : n \in 1 .. d.input_scan}
    <3>1. PICK n \in 0 .. d.input_scan : out[i][col] = FromFile(c, n)
      BY <2>4
    <3> HIDE DEF c
    <3>2. CASE n = 0
      BY <3>1, <3>2, <2>3
    <3>3. CASE n # 0
      BY <3>1, <3>3, <1>1
    <3> QED BY <3>2, <3>3
  <2> QED BY <2>4, <2>5
<1> QED BY <1>3, <1>5 DEF RowsAreImage, Final, N

LEMMA DecTypeKept == DecInv => DecTypeOK
<1> SUFFICES ASSUME DecInv PROVE DecTypeOK
  OBVIOUS
<1>1. arrived \in 0 .. End /\ d \in State /\ Counted(d)
  BY Known
<1>2. /\ d.input_row \in 0 .. Rows /\ d.MCU_ctr \in 0 .. Cols - 1
      /\ d.output_row \in 0 .. Rows /\ d.output_line \in 0 .. Rows
      /\ d.consume \in {"markers", "data", "dummy"} /\ d.global_state \in States
  BY ONLY <1>1 DEF State
<1> QED BY <1>1, <1>2 DEF DecTypeOK, States, Counted, End, N

(* Whatever the order of the calls and of the arriving data: the rows the  *)
(* application gets are the rows of the image, decoded at least up to the  *)
(* scan it asked for, and jpeg_read_coefficients returns the whole file    *)
(* (jdapistd.c:113-220, jdcoefct.c:150-330, jdtrans.c:52-105).             *)
THEOREM DecodedRightHolds == DecoderSpec => []DecodedRight
<1>1. DecInv => DecodedRight
  BY DecTypeKept, RowsRight, CoefficientsWhole DEF DecodedRight
<1> QED BY <1>1, DecInvStart, DecInvStep, PTL DEF DecoderSpec
-----------------------------------------------------------------------------
(* What the steps may do: wait only for what has not arrived, smooth only  *)
(* by what has.                                                            *)
Justified(t) == t.ret = "suspended" => t.pos = arrived \/ t.consume = "dummy"

LEMMA WaitsJustified ==
  ASSUME DecInv, DecoderNext, d' # d, call' = "none", d.global_state # "START"
  PROVE  Justified(d')
<1>1. /\ file \in Files /\ arrived \in 0 .. End /\ d \in State /\ Counted(d)
      /\ Mode(d, out) /\ Calls(d, call) /\ out \in Seq(Row) /\ d.global_state \in States
      /\ (Idle \/ call # "none") => d.ret # "error"
  BY Known
<1>2. ASSUME d.global_state \in Active, d.ret # "error"
      PROVE  Justified(consume_input(d))
  <2>1. Reading(d) /\ d.full_buffer = (file.multi \/ d.buffered_image)
    BY <1>1, <1>2 DEF Mode
  <2>2. Consuming(d, consume_input(d))
    BY <1>1, <2>1, InputConsumes
  <2> QED BY <2>2 DEF Consuming, Justified
<1>3. ASSUME d.global_state \in ShowingStates, d.ret # "error", d.output_line < Rows
      PROVE  Justified(main_process_data(d))
  <2> DEFINE s == main_process_data(d)
  <2>1. d.global_state \in Active
    BY <1>3 DEF Active, States, ShowingStates
  <2>2. Making(d, out)
    BY <1>1, <1>3, <2>1 DEF Making, Mode
  <2>3. Consuming(d, s) \/ Made(d, s, out)
    BY <1>1, <2>2, Processed
  <2> HIDE DEF s
  <2>4. Justified(s)
    BY <2>3 DEF Consuming, Made, Justified
  <2> QED BY <2>4 DEF s
<1>4. CASE Deliver \/ jpeg_read_scanlines
  BY <1>4 DEF Deliver, jpeg_read_scanlines
<1>5. CASE BeginFile
  BY <1>5, Zenon DEF BeginFile
<1>6. CASE jpeg_read_header
  <2>1. Idle /\ d.global_state = "INHEADER"
    BY <1>6, Zenon DEF jpeg_read_header
  <2> DEFINE s == HeaderRead(consume_markers(d))
  <2>2. PICK require_image \in BOOLEAN : d' = TablesOnly(s, require_image)
    BY <1>6, Zenon DEF jpeg_read_header, Return
  <2>3. s \in State /\ Counted(s) /\ (s.ret = "suspended" => s.pos = arrived)
    BY <2>1, InHeaderConsumes
  <2> HIDE DEF s
  <2>4. CASE s.ret # "EOI"
    BY <2>2, <2>3, <2>4 DEF TablesOnly, Justified
  <2>5. CASE s.ret = "EOI" /\ require_image
    <3>1. d' = [s EXCEPT !.ret = "error"]
      BY <2>2, <2>5 DEF TablesOnly
    <3>2. d'.ret = "error"
      BY ONLY <3>1, <2>3 DEF State
    <3> QED BY <3>2 DEF Justified
  <2>6. CASE s.ret = "EOI" /\ ~require_image
    <3> DEFINE u == jpeg_abort(s)
    <3>1. d' = [u EXCEPT !.ret = "tables"]
      BY <2>2, <2>6 DEF TablesOnly
    <3>2. "ret" \in DOMAIN u
      BY ONLY <2>3 DEF State, jpeg_abort
    <3> HIDE DEF u
    <3>3. d'.ret = "tables"
      BY ONLY <3>1, <3>2
    <3> QED BY <3>3 DEF Justified
  <2> QED BY <2>4, <2>5, <2>6
<1>7. CASE jpeg_consume_input
  <2>1. /\ Idle /\ d.global_state \notin {"START", "RDCOEFS"}
        /\ d' = CASE d.global_state = "INHEADER" -> HeaderRead(consume_markers(d))
                  [] d.global_state = "READY" -> [d EXCEPT !.ret = "SOS"]
                  [] OTHER -> consume_input(d)
    BY <1>7, Zenon DEF jpeg_consume_input, Return
  <2>2. CASE d.global_state = "INHEADER"
    <3>1. d' = HeaderRead(consume_markers(d))
      BY <2>1, <2>2
    <3>2. d'.ret = "suspended" => d'.pos = arrived
      BY <2>2, <3>1, InHeaderConsumes
    <3> QED BY <3>2 DEF Justified
  <2>3. CASE d.global_state = "READY"
    <3>1. d' = [d EXCEPT !.ret = "SOS"]
      BY <2>1, <2>3
    <3>2. d'.ret = "SOS"
      BY ONLY <3>1, <1>1 DEF State
    <3> QED BY <3>2 DEF Justified
  <2>4. CASE d.global_state \notin {"INHEADER", "READY"}
    <3>1. d' = consume_input(d)
      BY <2>1, <2>4
    <3>2. d.global_state \in Active /\ d.ret # "error"
      BY <1>1, <2>1, <2>4 DEF Active
    <3> QED BY <3>1, <3>2, <1>2
  <2> QED BY <2>2, <2>3, <2>4
<1>8. CASE jpeg_start_decompress
  <2>1. d.global_state = "READY"
    BY <1>8, Zenon DEF jpeg_start_decompress
  <2>2. PICK buffered \in BOOLEAN, quantize \in BOOLEAN, raw \in BOOLEAN :
          LET s == jinit_master_decompress(d, buffered, quantize, raw) IN
            IF buffered THEN Return([s EXCEPT !.global_state = "BUFIMAGE", !.ret = "ok"])
            ELSE call' = "start_decompress" /\ d' = [s EXCEPT !.global_state = "PRELOAD"]
    BY <1>8, <2>1, Zenon DEF jpeg_start_decompress
  <2> DEFINE s == jinit_master_decompress(d, buffered, quantize, raw)
  <2>3. Started(d)
    BY <1>1, <2>1 DEF Mode
  <2>4. s \in State
    BY ONLY <1>1, <2>3, buffered \in BOOLEAN, quantize \in BOOLEAN, raw \in BOOLEAN, MasterIs
  <2>5. d' = [s EXCEPT !.global_state = "BUFIMAGE", !.ret = "ok"]
    BY <2>2 DEF Return
  <2> HIDE DEF s
  <2>6. d'.ret = "ok"
    BY ONLY <2>4, <2>5 DEF State
  <2> QED BY <2>6 DEF Justified
<1>9. CASE jpeg_start_output \/ jpeg_finish_output \/ jpeg_finish_decompress \/ jpeg_read_coefficients
  BY <1>9, Zenon DEF jpeg_start_output, jpeg_finish_output, jpeg_finish_decompress, jpeg_read_coefficients
<1>10. CASE jpeg_abort_decompress
  <2> DEFINE u == jpeg_abort(d)
  <2>1. d' = [u EXCEPT !.ret = "ok"]
    BY <1>10, Zenon DEF jpeg_abort_decompress, Return
  <2>2. "ret" \in DOMAIN u
    BY ONLY <1>1 DEF State, jpeg_abort
  <2> HIDE DEF u
  <2>3. d'.ret = "ok"
    BY ONLY <2>1, <2>2
  <2> QED BY <2>3 DEF Justified
<1>11. CASE Preload
  <2> DEFINE s == IF d.has_multiple_scans THEN consume_input(d) ELSE [d EXCEPT !.ret = "EOI"]
  <2>1. call = "start_decompress" /\ d.global_state = "PRELOAD" /\ Absorbed(s)
    BY <1>11, Zenon DEF Preload
  <2>2. d.global_state \in Active /\ d.ret # "error"
    BY <1>1, <2>1 DEF Active, States
  <2>3. d.has_multiple_scans => s = consume_input(d)
    OBVIOUS
  <2>4. ~d.has_multiple_scans => s.ret = "EOI"
    <3>1. [d EXCEPT !.ret = "EOI"].ret = "EOI"
      BY ONLY <1>1 DEF State
    <3> QED BY <3>1
  <2> HIDE DEF s
  <2>5. d' = s /\ Stuck(s)
    BY <2>1 DEF Absorbed, Return, Go
  <2> QED BY <1>2, <2>2, <2>3, <2>4, <2>5 DEF Stuck
<1>12. CASE PreparePass
  <2>1. call' = call /\ call # "none"
    BY <1>12, Zenon DEF PreparePass, Go
  <2> QED BY <2>1
<1>13. CASE DummyPass
  <2>1. call # "none" /\ d.global_state = "PRESCAN"
    BY <1>13, Zenon DEF DummyPass
  <2>2. d.output_line < Rows /\ Continue(main_process_data(d))
    BY <1>13, <2>1, Zenon DEF DummyPass, Go
  <2>3. d' = main_process_data(d)
    BY <2>2 DEF Continue, Return, Go
  <2>4. d.global_state \in ShowingStates /\ d.ret # "error"
    BY <1>1, <2>1 DEF ShowingStates
  <2> QED BY <1>3, <2>2, <2>3, <2>4
<1>14. CASE PassReady
  <2> DEFINE g == IF d.raw THEN "RAW_OK" ELSE "SCANNING"
  <2>1. d' = [d EXCEPT !.global_state = g, !.ret = "ok"]
    BY <1>14, Zenon DEF PassReady, Return
  <2> HIDE DEF g
  <2>2. d'.ret = "ok"
    BY ONLY <1>1, <2>1 DEF State
  <2> QED BY <2>2 DEF Justified
<1>15. CASE ReadRow
  <2>1. call = "read_scanlines" /\ RowRead(main_process_data(d))
    BY <1>15, Zenon DEF ReadRow
  <2>2. d' = main_process_data(d)
    BY <2>1 DEF RowRead, Return, Go
  <2>3. d.global_state \in ShowingStates /\ d.ret # "error" /\ d.output_line < Rows
    BY <1>1, <2>1 DEF Calls, ShowingStates
  <2> QED BY <1>3, <2>2, <2>3
<1>16. CASE FinishOutput
  <2>1. call = "finish_output" /\ (\/ Continue(consume_input(d))
                                   \/ d' = [d EXCEPT !.global_state = "BUFIMAGE", !.ret = "ok"])
    BY <1>16, Zenon DEF FinishOutput, Return
  <2>2. d.global_state \in Active /\ d.ret # "error"
    BY <1>1, <2>1 DEF Calls, Active, States
  <2>3. CASE Continue(consume_input(d))
    BY <1>2, <2>2, <2>3 DEF Continue, Return, Go
  <2>4. CASE d' = [d EXCEPT !.global_state = "BUFIMAGE", !.ret = "ok"]
    <3>1. d'.ret = "ok"
      BY ONLY <1>1, <2>4 DEF State
    <3> QED BY <3>1 DEF Justified
  <2> QED BY <2>1, <2>3, <2>4
<1>17. CASE FinishDecompress
  <2> DEFINE u == jpeg_abort(d)
  <2>1. call = "finish_decompress" /\ (\/ Continue(consume_input(d))
                                       \/ d' = [u EXCEPT !.ret = "done"])
    BY <1>17, Zenon DEF FinishDecompress, Return
  <2>2. d.global_state \in Active /\ d.ret # "error"
    BY <1>1, <2>1 DEF Calls, Active, States
  <2>3. CASE Continue(consume_input(d))
    BY <1>2, <2>2, <2>3 DEF Continue, Return, Go
  <2>4. CASE d' = [u EXCEPT !.ret = "done"]
    <3>1. "ret" \in DOMAIN u
      BY ONLY <1>1 DEF State, jpeg_abort
    <3> HIDE DEF u
    <3>2. d'.ret = "done"
      BY ONLY <3>1, <2>4
    <3> QED BY <3>2 DEF Justified
  <2> QED BY <2>1, <2>3, <2>4
<1>18. CASE ReadCoefficients
  <2> DEFINE s == consume_input(d)
  <2>1. call = "read_coefficients" /\ CoefficientsRead(s)
    BY <1>18, Zenon DEF ReadCoefficients
  <2>2. d.global_state \in Active /\ d.ret # "error"
    BY <1>1, <2>1 DEF Calls, Active, States
  <2>3. Justified(s) /\ Consuming(d, s)
    <3>1. Reading(d) /\ d.full_buffer = (file.multi \/ d.buffered_image)
      BY <1>1, <2>2 DEF Mode
    <3> QED BY <1>1, <1>2, <2>2, <3>1, InputConsumes
  <2> HIDE DEF s
  <2>4. d' = s \/ d' = [s EXCEPT !.global_state = "STOPPING", !.ret = "coefs"]
    BY <2>1 DEF CoefficientsRead, Return, Go
  <2>5. CASE d' = [s EXCEPT !.global_state = "STOPPING", !.ret = "coefs"]
    <3>1. s \in State
      BY <2>3 DEF Consuming
    <3>2. d'.ret = "coefs"
      BY ONLY <3>1, <2>5 DEF State
    <3> QED BY <3>2 DEF Justified
  <2> QED BY <2>3, <2>4, <2>5
<1> QED BY <1>4, <1>5, <1>6, <1>7, <1>8, <1>9, <1>10, <1>11, <1>12, <1>13, <1>14, <1>15, <1>16,
           <1>17, <1>18 DEF DecoderNext, Running

(* Smoothing predicts from a row below that has its DC values.             *)
LEMMA RowBelowKnown ==
  ASSUME DecInv, Making(d, out), d.global_state \in ShowingStates, d.smoothing, ~Cranking(d),
         NEW r \in 0 .. Rows - 2, d.output_row = r, main_process_data(d).output_row = r + 1,
         NEW col \in 0 .. Cols - 1
  PROVE  d.coefs[[row |-> r + 1, col |-> col]] >= FromFile([row |-> r + 1, col |-> col], 1)
<1> DEFINE c == [row |-> r + 1, col |-> col]
           n == d.input_scan
           e == IF file.scans[n] = "dc" THEN 1 ELSE 0
<1>1. /\ file \in Files /\ arrived \in 0 .. End /\ d \in State /\ Counted(d) /\ n \in Nat
      /\ d.output_scan \in Nat /\ d.input_row \in 0 .. Rows /\ Mode(d, out)
  BY Known
<1>2. /\ Reading(d) /\ Showing(d, out) /\ d.full_buffer = (file.multi \/ d.buffered_image)
  BY DEF Making
<1>3. d.full_buffer /\ \E k \in 1 .. n : file.scans[k] = "dc"
  BY <1>2 DEF Showing
<1>4. c \in Cell /\ c.row = r + 1
  BY SizesNat DEF Cell
<1>5. ~decompress_waits(d)
  <2> SUFFICES ASSUME decompress_waits(d) PROVE FALSE
    OBVIOUS
  <2> DEFINE u == consume_input(d)
             t == main_process_data(d)
  <2>1. t = GoesOn(u)
    BY <1>3 DEF main_process_data
  <2>2. Consuming(d, u)
    BY <1>1, <1>2, InputConsumes
  <2> HIDE DEF u, t
  <2>3. Consuming(d, t)
    <3>1. CASE Stuck(u)
      BY <2>1, <2>2, <3>1 DEF GoesOn
    <3>2. CASE ~Stuck(u)
      BY <2>1, <2>2, <3>2, MoreConsumes DEF GoesOn
    <3> QED BY <3>1, <3>2
  <2>4. t.output_row = r
    BY <2>3 DEF Consuming, SameControl
  <2> QED BY <2>4 DEF t
<1>6. \/ n > d.output_scan \/ d.eoi_reached
      \/ n = d.output_scan /\ d.input_row > r + e
  <2>1. ~smooth_data_waits(d)
    BY <1>5 DEF decompress_waits
  <2> QED BY <2>1, <1>1 DEF smooth_data_waits
<1>7. d.output_scan >= 1
  BY <1>1 DEF Mode
<1>8. d.coefs[c] = FromFile(c, IF Done(d, c) THEN n ELSE n - 1)
  BY <1>2, <1>4 DEF Reading, Decoded
<1>9. n >= 1
  BY <1>2 DEF Reading
<1>10. \A k \in Nat \ {0} : FromFile(c, 1) <= FromFile(c, k) /\ FromFile(c, 1) \in Int /\ FromFile(c, k) \in Int
  <2> HIDE DEF c
  <2> TAKE k \in Nat \ {0}
  <2>1. 1 \in 0 .. k
    OBVIOUS
  <2> QED BY <2>1, <1>1, <1>4, FromFileSteps, FromFileIs
<1>11. CASE n >= 2
  <2>1. n \in Nat \ {0} /\ n - 1 \in Nat \ {0}
    BY <1>1, <1>11
  <2>2. FromFile(c, 1) <= d.coefs[c] /\ d.coefs[c] \in Int /\ FromFile(c, 1) \in Int
    <3> HIDE DEF c, n
    <3> QED BY <2>1, <1>8, <1>10
  <2> QED BY <2>2
<1>12. CASE n < 2
  <2>1. n = 1
    BY <1>1, <1>9, <1>12
  <2>2. Done(d, c)
    <3>1. CASE d.eoi_reached
      <4>1. d.input_row = Rows
        BY <1>2, <3>1 DEF Reading
      <4> QED BY <4>1, <1>4, SizesNat DEF Done
    <3>2. CASE ~d.eoi_reached
      <4>1. file.scans[n] = "dc"
        BY <1>3, <2>1
      <4>2. d.input_row > r + 1
        BY <4>1, <3>2, <1>1, <1>6, <1>7, <2>1
      <4> QED BY <4>2, <1>4 DEF Done
    <3> QED BY <3>1, <3>2
  <2>3. d.coefs[c] = FromFile(c, 1) /\ FromFile(c, 1) \in Int
    BY <1>8, <1>10, <2>1, <2>2
  <2> QED BY <2>3
<1> QED BY <1>1, <1>11, <1>12

(* No other step makes the output row one more. *)
RowStays(t) == t.output_row = d.output_row

LEMMA OthersKeepRow ==
  ASSUME DecInv, DecoderNext
  PROVE  \/ d'.output_row = 0 \/ RowStays(d')
         \/ /\ d' = main_process_data(d) /\ Making(d, out) /\ d.global_state \in ShowingStates
<1>1. /\ file \in Files /\ arrived \in 0 .. End /\ d \in State /\ Counted(d)
      /\ Mode(d, out) /\ Calls(d, call) /\ out \in Seq(Row) /\ d.global_state \in States
      /\ (Idle \/ call # "none") => d.ret # "error"
  BY Known
<1>2. ASSUME d.global_state \in Active, d.ret # "error"
      PROVE  RowStays(consume_input(d)) /\ consume_input(d) \in State
  <2>1. Reading(d) /\ d.full_buffer = (file.multi \/ d.buffered_image)
    BY <1>1, <1>2 DEF Mode
  <2>2. Consuming(d, consume_input(d))
    BY <1>1, <2>1, InputConsumes
  <2> QED BY <2>2 DEF Consuming, SameControl, RowStays
<1>3. ASSUME d.global_state \in ShowingStates, d.ret # "error", d.output_line < Rows
      PROVE  Making(d, out)
  <2>1. d.global_state \in Active
    BY <1>3 DEF Active, States, ShowingStates
  <2> QED BY <1>1, <1>3, <2>1 DEF Making, Mode
<1>4. ASSUME NEW s \in State, RowStays(s), NEW t, NEW r,
             \/ t = [jpeg_abort(s) EXCEPT !.ret = r]
             \/ t = [s EXCEPT !.ret = r]
      PROVE  RowStays(t)
  <2>1. t.output_row = s.output_row
    BY ONLY <1>4 DEF State, jpeg_abort
  <2> QED BY <2>1, <1>4 DEF RowStays
<1>5. RowStays(d)
  BY DEF RowStays
<1>6. ASSUME d.global_state = "INHEADER", NEW s, s = HeaderRead(consume_markers(d))
      PROVE  s \in State /\ RowStays(s)
  <2> DEFINE u == consume_markers(d)
  <2>1. InHeaders(d)
    BY <1>1, <1>6 DEF Mode
  <2>2. u \in State /\ SameControl(d, u)
    BY ONLY <1>1, <2>1, HeaderConsumed
  <2>3. s = HeaderRead(u)
    BY <1>6
  <2> HIDE DEF u
  <2>4. s.output_row = u.output_row
    BY ONLY <2>2, <2>3 DEF State, HeaderRead, default_decompress_parms
  <2>5. s \in State
    BY <1>6, InHeaderConsumes
  <2> QED BY <2>2, <2>4, <2>5 DEF SameControl, RowStays
<1>7. CASE Deliver \/ jpeg_read_scanlines
  BY <1>7, <1>5 DEF Deliver, jpeg_read_scanlines
<1>8. CASE BeginFile
  <2>1. d' = [reset_input_controller(d) EXCEPT !.global_state = "INHEADER", !.ret = "suspended"]
    BY <1>8, Zenon DEF BeginFile, Return
  <2>2. d'.output_row = d.output_row
    BY ONLY <2>1, <1>1 DEF State, reset_input_controller
  <2> QED BY <2>2 DEF RowStays
<1>9. CASE jpeg_read_header
  <2>1. Idle /\ d.global_state = "INHEADER"
    BY <1>9, Zenon DEF jpeg_read_header
  <2> DEFINE s == HeaderRead(consume_markers(d))
  <2>2. PICK require_image \in BOOLEAN : d' = TablesOnly(s, require_image)
    BY <1>9, Zenon DEF jpeg_read_header, Return
  <2>3. s \in State /\ RowStays(s)
    BY <2>1, <1>6
  <2> HIDE DEF s
  <2>4. \/ d' = s \/ d' = [s EXCEPT !.ret = "error"] \/ d' = [jpeg_abort(s) EXCEPT !.ret = "tables"]
    BY <2>2 DEF TablesOnly
  <2> QED BY <2>3, <2>4, <1>4
<1>10. CASE jpeg_consume_input
  <2>1. /\ Idle /\ d.global_state \notin {"START", "RDCOEFS"}
        /\ d' = CASE d.global_state = "INHEADER" -> HeaderRead(consume_markers(d))
                  [] d.global_state = "READY" -> [d EXCEPT !.ret = "SOS"]
                  [] OTHER -> consume_input(d)
    BY <1>10, Zenon DEF jpeg_consume_input, Return
  <2>2. CASE d.global_state = "INHEADER"
    BY <2>1, <2>2, <1>6
  <2>3. CASE d.global_state = "READY"
    BY <2>1, <2>3, <1>1, <1>4, <1>5
  <2>4. CASE d.global_state \notin {"INHEADER", "READY"}
    <3>1. d' = consume_input(d)
      BY <2>1, <2>4
    <3>2. d.global_state \in Active /\ d.ret # "error"
      BY <1>1, <2>1, <2>4 DEF Active
    <3> QED BY <3>1, <3>2, <1>2
  <2> QED BY <2>2, <2>3, <2>4
<1>11. CASE jpeg_start_decompress
  <2>1. CASE d.global_state = "READY"
    <3>1. PICK buffered \in BOOLEAN, quantize \in BOOLEAN, raw \in BOOLEAN :
            LET s == jinit_master_decompress(d, buffered, quantize, raw) IN
              IF buffered THEN Return([s EXCEPT !.global_state = "BUFIMAGE", !.ret = "ok"])
              ELSE call' = "start_decompress" /\ d' = [s EXCEPT !.global_state = "PRELOAD"]
      BY <1>11, <2>1, Zenon DEF jpeg_start_decompress
    <3> DEFINE s == jinit_master_decompress(d, buffered, quantize, raw)
    <3>2. s.output_row = d.output_row /\ "output_row" \in DOMAIN s
      <4> DEFINE z == [c \in Cell |-> 0]
                 b == d.has_multiple_scans \/ buffered
                 e == <<>>
                 u == [d EXCEPT !.buffered_image = buffered, !.two_pass = quantize, !.raw = raw,
                                !.is_dummy_pass = FALSE, !.full_buffer = b, !.coefs = z, !.saved = e]
      <4>1. s = start_input_pass(u)
        BY DEF jinit_master_decompress
      <4> HIDE DEF z, b, e, s
      <4>2. u.output_row = d.output_row /\ "output_row" \in DOMAIN u
        BY ONLY <1>1 DEF State
      <4> HIDE DEF u
      <4> QED BY ONLY <4>1, <4>2 DEF start_input_pass
    <3>3. \/ d' = [s EXCEPT !.global_state = "BUFIMAGE", !.ret = "ok"]
          \/ d' = [s EXCEPT !.global_state = "PRELOAD"]
      BY <3>1 DEF Return
    <3> HIDE DEF s
    <3>4. d'.output_row = s.output_row
      BY ONLY <3>2, <3>3
    <3> QED BY <3>2, <3>4 DEF RowStays
  <2>2. CASE d.global_state # "READY"
    <3>1. d' = d
      BY <1>11, <2>2, Zenon DEF jpeg_start_decompress
    <3> QED BY <3>1, <1>5
  <2> QED BY <2>1, <2>2
<1>12. CASE jpeg_start_output
  <2>1. PICK scan_number \in 0 .. Len(file.scans) + 1 :
          LET n == IF scan_number <= 0 THEN 1 ELSE scan_number
              m == IF d.eoi_reached /\ n > d.input_scan THEN d.input_scan ELSE n
          IN \/ /\ d.global_state = "BUFIMAGE"
                /\ d' = [d EXCEPT !.output_scan = m, !.global_state = "PREPARE"]
             \/ /\ d.global_state = "PRESCAN" /\ scan_number = d.output_scan
                /\ d' = [d EXCEPT !.output_scan = m]
    BY <1>12, Zenon DEF jpeg_start_output
  <2>2. d'.output_row = d.output_row
    BY ONLY <2>1, <1>1 DEF State
  <2> QED BY <2>2 DEF RowStays
<1>13. CASE jpeg_finish_output \/ jpeg_finish_decompress
  <2>1. \/ d' = [finish_output_pass(d) EXCEPT !.global_state = "BUFPOST"]
        \/ d' = [finish_output_pass(d) EXCEPT !.global_state = "STOPPING"]
        \/ d' = [d EXCEPT !.global_state = "STOPPING"]
        \/ d' = d
    BY <1>13, Zenon DEF jpeg_finish_output, jpeg_finish_decompress
  <2>2. d'.output_row = d.output_row
    BY ONLY <2>1, <1>1 DEF State, finish_output_pass
  <2> QED BY <2>2 DEF RowStays
<1>14. CASE jpeg_read_coefficients
  <2>1. \/ d' = [start_input_pass([d EXCEPT !.full_buffer = TRUE, !.coefs = [c \in Cell |-> 0]])
                    EXCEPT !.buffered_image = TRUE, !.global_state = "RDCOEFS"]
        \/ d' = d
    BY <1>14, Zenon DEF jpeg_read_coefficients
  <2>2. d'.output_row = d.output_row
    BY ONLY <2>1, <1>1 DEF State, start_input_pass
  <2> QED BY <2>2 DEF RowStays
<1>15. CASE jpeg_abort_decompress
  <2>1. d' = [jpeg_abort(d) EXCEPT !.ret = "ok"]
    BY <1>15, Zenon DEF jpeg_abort_decompress, Return
  <2> QED BY <2>1, <1>1, <1>4, <1>5
<1>16. CASE Preload
  <2> DEFINE s == IF d.has_multiple_scans THEN consume_input(d) ELSE [d EXCEPT !.ret = "EOI"]
  <2>1. call = "start_decompress" /\ d.global_state = "PRELOAD" /\ Absorbed(s)
    BY <1>16, Zenon DEF Preload
  <2>2. d.global_state \in Active /\ d.ret # "error"
    BY <1>1, <2>1 DEF Active, States
  <2>3. RowStays(s) /\ s \in State
    <3>1. CASE d.has_multiple_scans
      BY <3>1, <1>2, <2>2
    <3>2. CASE ~d.has_multiple_scans
      <4>1. [d EXCEPT !.ret = "EOI"] \in State
        BY ONLY <1>1 DEF State, Results, Consumed
      <4> QED BY <3>2, <4>1, <1>1, <1>4, <1>5
    <3> QED BY <3>1, <3>2
  <2> HIDE DEF s
  <2>4. d' = s \/ d' = [s EXCEPT !.output_scan = s.input_scan, !.global_state = "PREPARE"]
    BY <2>1 DEF Absorbed, Return, Go
  <2>5. d'.output_row = s.output_row
    BY ONLY <2>3, <2>4 DEF State
  <2> QED BY <2>3, <2>5 DEF RowStays
<1>17. CASE PreparePass
  <2>1. d.global_state = "PREPARE"
    BY <1>17, Zenon DEF PreparePass
  <2>2. ~d.is_dummy_pass
    BY <1>1, <2>1 DEF Mode
  <2> DEFINE v == prepare_for_output_pass(d)
  <2>3. PICK x \in BOOLEAN :
          d' = [v EXCEPT !.output_line = 0, !.global_state = "PRESCAN", !.smoothing = x]
    BY <1>17, Zenon DEF PreparePass, Go
  <2>4. v.output_row = 0 /\ "output_row" \in DOMAIN v
    BY ONLY <1>1, <2>2 DEF State, prepare_for_output_pass
  <2> HIDE DEF v
  <2>5. d'.output_row = 0
    BY ONLY <2>3, <2>4
  <2> QED BY <2>5
<1>18. CASE DummyPass
  <2>1. call # "none" /\ d.global_state = "PRESCAN" /\ d.is_dummy_pass
    BY <1>18, Zenon DEF DummyPass
  <2>2. CASE d.output_line < Rows
    <3>1. Continue(main_process_data(d))
      BY <1>18, <2>2, Zenon DEF DummyPass
    <3>2. d' = main_process_data(d)
      BY <3>1 DEF Continue, Return, Go
    <3>3. d.global_state \in ShowingStates /\ d.ret # "error"
      BY <1>1, <2>1 DEF ShowingStates
    <3> QED BY <1>3, <2>2, <3>2, <3>3
  <2>3. CASE ~(d.output_line < Rows)
    <3> DEFINE u == finish_output_pass(d)
    <3>1. d' = [prepare_for_output_pass(u) EXCEPT !.output_line = 0]
      BY <1>18, <2>3, Zenon DEF DummyPass, Go
    <3>2. u.is_dummy_pass /\ u.output_row = d.output_row /\ "output_row" \in DOMAIN u
      BY ONLY <1>1, <2>1 DEF State, finish_output_pass
    <3> HIDE DEF u
    <3>3. d'.output_row = u.output_row
      BY ONLY <3>1, <3>2 DEF prepare_for_output_pass
    <3> QED BY <3>2, <3>3 DEF RowStays
  <2> QED BY <2>2, <2>3
<1>19. CASE PassReady
  <2> DEFINE g == IF d.raw THEN "RAW_OK" ELSE "SCANNING"
  <2>1. d' = [d EXCEPT !.global_state = g, !.ret = "ok"]
    BY <1>19, Zenon DEF PassReady, Return
  <2> HIDE DEF g
  <2>2. d'.output_row = d.output_row
    BY ONLY <1>1, <2>1 DEF State
  <2> QED BY <2>2 DEF RowStays
<1>20. CASE ReadRow
  <2>1. call = "read_scanlines" /\ RowRead(main_process_data(d))
    BY <1>20, Zenon DEF ReadRow
  <2>2. d' = main_process_data(d)
    BY <2>1 DEF RowRead, Return, Go
  <2>3. d.global_state \in ShowingStates /\ d.ret # "error" /\ d.output_line < Rows
    BY <1>1, <2>1 DEF Calls, ShowingStates
  <2> QED BY <1>3, <2>2, <2>3
<1>21. CASE FinishOutput
  <2>1. call = "finish_output" /\ (\/ Continue(consume_input(d))
                                   \/ d' = [d EXCEPT !.global_state = "BUFIMAGE", !.ret = "ok"])
    BY <1>21, Zenon DEF FinishOutput, Return
  <2>2. d.global_state \in Active /\ d.ret # "error"
    BY <1>1, <2>1 DEF Calls, Active, States
  <2>3. CASE Continue(consume_input(d))
    BY <1>2, <2>2, <2>3 DEF Continue, Return, Go
  <2>4. CASE d' = [d EXCEPT !.global_state = "BUFIMAGE", !.ret = "ok"]
    <3>1. d'.output_row = d.output_row
      BY ONLY <1>1, <2>4 DEF State
    <3> QED BY <3>1 DEF RowStays
  <2> QED BY <2>1, <2>3, <2>4
<1>22. CASE FinishDecompress
  <2>1. call = "finish_decompress" /\ (\/ Continue(consume_input(d))
                                       \/ d' = [jpeg_abort(d) EXCEPT !.ret = "done"])
    BY <1>22, Zenon DEF FinishDecompress, Return
  <2>2. d.global_state \in Active /\ d.ret # "error"
    BY <1>1, <2>1 DEF Calls, Active, States
  <2>3. CASE Continue(consume_input(d))
    BY <1>2, <2>2, <2>3 DEF Continue, Return, Go
  <2>4. CASE d' = [jpeg_abort(d) EXCEPT !.ret = "done"]
    BY <2>4, <1>1, <1>4, <1>5
  <2> QED BY <2>1, <2>3, <2>4
<1>23. CASE ReadCoefficients
  <2> DEFINE s == consume_input(d)
  <2>1. call = "read_coefficients" /\ CoefficientsRead(s)
    BY <1>23, Zenon DEF ReadCoefficients
  <2>2. d.global_state \in Active /\ d.ret # "error"
    BY <1>1, <2>1 DEF Calls, Active, States
  <2>3. RowStays(s) /\ s \in State
    BY <1>2, <2>2
  <2> HIDE DEF s
  <2>4. d' = s \/ d' = [s EXCEPT !.global_state = "STOPPING", !.ret = "coefs"]
    BY <2>1 DEF CoefficientsRead, Return, Go
  <2>5. d'.output_row = s.output_row
    BY ONLY <2>3, <2>4 DEF State
  <2> QED BY <2>3, <2>5 DEF RowStays
<1> QED BY <1>7, <1>8, <1>9, <1>10, <1>11, <1>12, <1>13, <1>14, <1>15, <1>16, <1>17, <1>18,
           <1>19, <1>20, <1>21, <1>22, <1>23 DEF DecoderNext, Running

(* The decompressor waits only when it has used up what arrived, and       *)
(* smooths a row only from DC values it has (jdapimin.c:296-331,           *)
(* jdcoefct.c:411-480).                                                    *)
THEOREM StepsJustifiedHolds == DecoderSpec => StepsJustified
<1>1. ASSUME DecInv, [DecoderNext]_decVars
      PROVE  [(d' # d /\ call' = "none" /\ d'.ret = "suspended" /\ d.global_state # "START")
              => d'.pos = arrived \/ d'.consume = "dummy"]_decVars
  BY <1>1, WaitsJustified DEF Justified
<1>2. ASSUME DecInv, [DecoderNext]_decVars
      PROVE  [\A r \in 0 .. Rows - 2 :
                (/\ d.smoothing /\ ~Cranking(d) /\ d.output_row = r /\ d'.output_row = r + 1)
                => \A col \in 0 .. Cols - 1 : LET c == [row |-> r + 1, col |-> col] IN
                     d.coefs[c] >= FromFile(c, 1)]_decVars
  <2> SUFFICES ASSUME DecoderNext, NEW r \in 0 .. Rows - 2, d.smoothing, ~Cranking(d),
                      d.output_row = r, d'.output_row = r + 1, NEW col \in 0 .. Cols - 1
               PROVE  d.coefs[[row |-> r + 1, col |-> col]] >= FromFile([row |-> r + 1, col |-> col], 1)
    BY <1>2
  <2>1. d' = main_process_data(d) /\ Making(d, out) /\ d.global_state \in ShowingStates
    <3>1. d'.output_row # 0 /\ ~RowStays(d')
      BY SizesNat DEF RowStays
    <3> QED BY <3>1, <1>2, OthersKeepRow
  <2> QED BY <2>1, <1>2, RowBelowKnown
<1> QED BY <1>1, <1>2, DecInvStart, DecInvStep, PTL
        DEF DecoderSpec, StepsJustified, SmoothedFromKnown, SuspendedStarved
===============================================================================

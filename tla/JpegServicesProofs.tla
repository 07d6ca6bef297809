------------------------ MODULE JpegServicesProofs ------------------------
(***************************************************************************)
(* What every part of libjpeg-turbo relies on, proved: the pools, with any *)
(* alignment, limits and requests, keep their objects apart and balance    *)
(* their books; virtual arrays of any number, height and window keep their *)
(* rows; the SIMD routine that runs is one the machine has and the colours *)
(* call for, whatever the number of threads; and compressor and decoder    *)
(* agree on scripts of scans, of any components and length.                *)
(***************************************************************************)
EXTENDS JpegPools, JpegVirtualArrays, JpegSimd, JpegScripts, NumberLemmas, FiniteSetTheorems

(* Rounding up to the alignment. *)

LEMMA RoundedUp ==
  ASSUME NEW a \in Nat, NEW b \in Nat \ {0}
  PROVE  /\ round_up_pow2(a, b) \in Nat /\ round_up_pow2(a, b) >= a
         /\ round_up_pow2(a, b) % b = 0
<1> DEFINE q == (a + b - 1) \div b
<1>1. q \in Nat /\ a + b - 1 = b * q + ((a + b - 1) % b) /\ (a + b - 1) % b \in 0..(b - 1)
  BY SMT
<1>2. round_up_pow2(a, b) = q * b
  BY DEF round_up_pow2
<1> HIDE DEF q
<1>3. q * b \in Nat /\ q * b = b * q
  BY <1>1
<1>4. q * b >= a
  BY <1>1, <1>3
<1> QED BY <1>1, <1>2, <1>3, <1>4, ProductMultiple

LEMMA LesserIs ==
  ASSUME NEW a \in Int, NEW b \in Int
  PROVE  Min({a, b}) = IF a <= b THEN a ELSE b
  BY DEF Min

-----------------------------------------------------------------------------
(* The chunks as the manager keeps them. *)

Apart(o, p) == o = p \/ o.off + o.size <= p.off \/ p.off + p.size <= o.off

Placed(chunk, o) ==
  /\ (chunk.align + o.off) % ALIGN_SIZE = 0
  /\ o.off >= DataOffset(chunk)
  /\ o.off + o.size <= DataOffset(chunk) + chunk.bytes_used

Fit == {chunk \in Chunk :
          /\ chunk.size = Header + chunk.bytes_used + chunk.bytes_left + ALIGN_SIZE - 1
          /\ chunk.bytes_used % ALIGN_SIZE = 0
          /\ \A o \in chunk.objects : Placed(chunk, o)
          /\ \A o, p \in chunk.objects : Apart(o, p)}

LEMMA DataOffsetIs ==
  ASSUME NEW chunk, chunk.align \in 0..(ALIGN_SIZE - 1)
  PROVE  /\ DataOffset(chunk) \in Nat
         /\ DataOffset(chunk) >= Header /\ DataOffset(chunk) <= Header + ALIGN_SIZE - 1
         /\ (chunk.align + DataOffset(chunk)) % ALIGN_SIZE = 0
<1> DEFINE a == chunk.align + Header
           r == a % ALIGN_SIZE
           q == a \div ALIGN_SIZE
<1>1. ALIGN_SIZE \in Nat \ {0} /\ Header \in Nat /\ chunk.align \in Nat
  BY SizeAssumption
<1>2. q \in Int /\ r \in 0..(ALIGN_SIZE - 1) /\ a = ALIGN_SIZE * q + r /\ a \in Nat
  <2>1. a \in Nat
    BY <1>1
  <2> HIDE DEF a
  <2> QED BY <1>1, <2>1, Division
<1>3. DataOffset(chunk) = Header + (IF r = 0 THEN 0 ELSE ALIGN_SIZE - r)
  BY DEF DataOffset
<1>4. CASE r = 0
  <2>1. DataOffset(chunk) = Header
    BY <1>3, <1>4, <1>1
  <2> QED BY <2>1, <1>1, <1>4
<1>5. CASE r # 0
  <2>1. DataOffset(chunk) = Header + (ALIGN_SIZE - r)
    BY <1>3, <1>5
  <2> HIDE DEF r, q
  <2>2. chunk.align + DataOffset(chunk) = a + ALIGN_SIZE - r
    BY <2>1, <1>1, <1>2
  <2>3. a + ALIGN_SIZE - r = (q + 1) * ALIGN_SIZE
    BY <1>1, <1>2
  <2>4. (chunk.align + DataOffset(chunk)) % ALIGN_SIZE = 0
    BY <2>2, <2>3, <1>1, <1>2, ProductMultiple
  <2> QED BY <2>1, <2>4, <1>1, <1>2, <1>5
<1> QED BY <1>4, <1>5

(* What alloc_small does to the chunk it has chosen. *)
WithObject(chunk, n) ==
  [chunk EXCEPT !.bytes_used = @ + n, !.bytes_left = @ - n,
                !.objects = @ \cup {[off |-> DataOffset(chunk) + chunk.bytes_used, size |-> n]}]

LEMMA ObjectPlaced ==
  ASSUME NEW chunk \in Fit, NEW n \in Nat, n % ALIGN_SIZE = 0, n <= chunk.bytes_left
  PROVE  WithObject(chunk, n) \in Fit /\ WithObject(chunk, n).size = chunk.size
<1> DEFINE d == DataOffset(chunk)
           new == [off |-> d + chunk.bytes_used, size |-> n]
           placed == WithObject(chunk, n)
<1>1. ALIGN_SIZE \in Nat \ {0} /\ Header \in Nat
  BY SizeAssumption
<1>2. /\ chunk \in Chunk /\ chunk.size \in Nat /\ chunk.align \in 0..(ALIGN_SIZE - 1)
      /\ chunk.bytes_used \in Nat /\ chunk.bytes_left \in Nat /\ chunk.objects \subseteq Object
      /\ chunk.size = Header + chunk.bytes_used + chunk.bytes_left + ALIGN_SIZE - 1
      /\ chunk.bytes_used % ALIGN_SIZE = 0
  BY DEF Fit, Chunk
<1>3. /\ \A o \in chunk.objects : Placed(chunk, o) /\ o.off \in Nat /\ o.size \in Nat
      /\ \A o, p \in chunk.objects : Apart(o, p)
  BY DEF Fit, Chunk, Object
<1>4. d \in Nat /\ (chunk.align + d) % ALIGN_SIZE = 0
  BY <1>2, DataOffsetIs
<1>5. /\ placed.size = chunk.size /\ placed.align = chunk.align
      /\ placed.bytes_used = chunk.bytes_used + n /\ placed.bytes_left = chunk.bytes_left - n
      /\ placed.objects = chunk.objects \cup {new}
      /\ placed = [size |-> placed.size, align |-> placed.align, bytes_used |-> placed.bytes_used,
                   bytes_left |-> placed.bytes_left, objects |-> placed.objects]
  <2> HIDE DEF d, new
  <2>1. chunk = [size |-> chunk.size, align |-> chunk.align, bytes_used |-> chunk.bytes_used,
                 bytes_left |-> chunk.bytes_left, objects |-> chunk.objects]
    BY <1>2 DEF Chunk
  <2>2. placed = [chunk EXCEPT !.bytes_used = @ + n, !.bytes_left = @ - n,
                               !.objects = @ \cup {new}]
    BY DEF WithObject, new, d
  <2> HIDE DEF placed
  <2> QED BY <2>1, <2>2
<1>6. DataOffset(placed) = d
  BY <1>5 DEF DataOffset
<1> HIDE DEF d, placed
<1>7. new \in Object /\ new.off = d + chunk.bytes_used /\ new.size = n
  BY <1>2, <1>4 DEF Object
<1>8. placed \in Chunk
  <2>1. placed.objects \in SUBSET Object
    BY <1>2, <1>5, <1>7
  <2>2. placed.bytes_used \in Nat /\ placed.bytes_left \in Nat
    BY <1>2, <1>5
  <2> HIDE DEF new
  <2> QED BY <2>1, <2>2, <1>2, <1>5 DEF Chunk
<1> HIDE DEF new
<1>9. placed.bytes_used % ALIGN_SIZE = 0
  BY <1>1, <1>2, <1>5, SumMultiple
<1>10. Placed(placed, new)
  <2>1. (chunk.align + d + chunk.bytes_used) % ALIGN_SIZE = 0
    <3>1. chunk.align + d \in Int /\ chunk.bytes_used \in Int
      BY <1>2, <1>4
    <3> QED BY <3>1, <1>1, <1>2, <1>4, SumMultiple
  <2>2. chunk.align + d + chunk.bytes_used = placed.align + new.off
    BY <1>2, <1>4, <1>5, <1>7
  <2> QED BY <2>1, <2>2, <1>2, <1>4, <1>5, <1>6, <1>7 DEF Placed
<1>11. ASSUME NEW o \in chunk.objects PROVE Placed(placed, o) /\ Apart(o, new) /\ Apart(new, o)
  <2>1. o.off >= d /\ o.off + o.size <= d + chunk.bytes_used /\ (chunk.align + o.off) % ALIGN_SIZE = 0
    BY <1>3 DEF Placed, d
  <2> QED BY <2>1, <1>2, <1>3, <1>4, <1>5, <1>6, <1>7 DEF Placed, Apart
<1>12. \A o, p \in placed.objects : Apart(o, p)
  BY <1>3, <1>5, <1>11 DEF Apart
<1>13. placed.size = Header + placed.bytes_used + placed.bytes_left + ALIGN_SIZE - 1
  BY <1>1, <1>2, <1>5
<1>14. \A o \in placed.objects : Placed(placed, o)
  BY <1>5, <1>10, <1>11
<1> QED BY <1>5, <1>8, <1>9, <1>12, <1>13, <1>14 DEF Fit, placed


LEMMA FreshFits ==
  ASSUME NEW c, NEW align \in 0..(ALIGN_SIZE - 1), NEW left \in Nat
  PROVE  /\ NewChunk(c, align, 0, left, ALIGN_SIZE - 1, {}) \in Fit
         /\ NewChunk(c, align, 0, left, ALIGN_SIZE - 1, {}).size = Header + left + ALIGN_SIZE - 1
         /\ NewChunk(c, align, 0, left, ALIGN_SIZE - 1, {}).bytes_left = left
<1> DEFINE fresh == NewChunk(c, align, 0, left, ALIGN_SIZE - 1, {})
<1>1. ALIGN_SIZE \in Nat \ {0} /\ Header \in Nat
  BY SizeAssumption
<1>2. /\ fresh.size = Header + left + ALIGN_SIZE - 1 /\ fresh.align = align
      /\ fresh.bytes_used = 0 /\ fresh.bytes_left = left /\ fresh.objects = {}
  BY <1>1 DEF NewChunk
<1>3. fresh \in Chunk
  BY <1>1 DEF NewChunk, Chunk
<1>4. 0 % ALIGN_SIZE = 0
  <2>1. 0 * ALIGN_SIZE = 0
    BY <1>1
  <2> QED BY <2>1, <1>1, ProductMultiple
<1> HIDE DEF fresh
<1> QED BY <1>1, <1>2, <1>3, <1>4 DEF Fit, fresh

(* The chunk alloc_large makes: `count` objects of `size` bytes in a row.  *)
LargeChunk(c, align, count, size) ==
  LET n == round_up_pow2(count * size, ALIGN_SIZE)
      fresh == NewChunk(c, align, n, 0, ALIGN_SIZE - 1, {})
  IN  [fresh EXCEPT !.objects =
        {[off |-> DataOffset(fresh) + k * size, size |-> size] : k \in 0..(count - 1)}]

LEMMA LargeFits ==
  ASSUME NEW c, NEW align \in 0..(ALIGN_SIZE - 1), NEW count \in Nat, NEW size \in Nat,
         count > 1 => size % ALIGN_SIZE = 0
  PROVE  /\ LargeChunk(c, align, count, size) \in Fit
         /\ LargeChunk(c, align, count, size).size
              = round_up_pow2(count * size, ALIGN_SIZE) + Header + ALIGN_SIZE - 1
<1> DEFINE n == round_up_pow2(count * size, ALIGN_SIZE)
           fresh == NewChunk(c, align, n, 0, ALIGN_SIZE - 1, {})
           d == DataOffset(fresh)
           objects == {[off |-> d + k * size, size |-> size] : k \in 0..(count - 1)}
           chunk == LargeChunk(c, align, count, size)
<1>1. ALIGN_SIZE \in Nat \ {0} /\ Header \in Nat
  BY SizeAssumption
<1>2. n \in Nat /\ n >= count * size /\ n % ALIGN_SIZE = 0 /\ count * size \in Nat
  <2>1. count * size \in Nat
    OBVIOUS
  <2> QED BY <2>1, <1>1, RoundedUp
<1> HIDE DEF n
<1>3. /\ fresh = [size |-> Header + n + 0 + (ALIGN_SIZE - 1), align |-> align,
                  bytes_used |-> n, bytes_left |-> 0, objects |-> {}]
      /\ fresh.align = align
  BY DEF NewChunk
<1>4. chunk = [fresh EXCEPT !.objects = objects]
  BY DEF LargeChunk, n
<1>5. d \in Nat /\ d >= Header /\ (align + d) % ALIGN_SIZE = 0
  <2> HIDE DEF fresh
  <2> QED BY <1>3, DataOffsetIs
<1> HIDE DEF fresh, objects
<1>6. /\ chunk.size = Header + n + ALIGN_SIZE - 1 /\ chunk.align = align
      /\ chunk.bytes_used = n /\ chunk.bytes_left = 0 /\ chunk.objects = objects
      /\ chunk = [size |-> Header + n + ALIGN_SIZE - 1, align |-> align,
                  bytes_used |-> n, bytes_left |-> 0, objects |-> objects]
  BY <1>1, <1>2, <1>3, <1>4
<1>7. DataOffset(chunk) = d
  BY <1>3, <1>6 DEF DataOffset
<1> HIDE DEF chunk, d
<1>8. ASSUME NEW k \in 0..(count - 1)
      PROVE  /\ k * size \in Nat /\ k * size + size <= n
             /\ (align + (d + k * size)) % ALIGN_SIZE = 0
  <2>1. k * size \in Nat /\ k \in Nat
    BY SMT
  <2>2. k * size + size <= count * size
    <3>1. k + 1 <= count /\ k + 1 \in Nat
      OBVIOUS
    <3>2. (k + 1) * size <= count * size
      BY <3>1, SMT
    <3> QED BY <3>2, <2>1, SMT
  <2>3. (k * size) % ALIGN_SIZE = 0
    <3>1. CASE count > 1
      <4>1. size % ALIGN_SIZE = 0
        BY <3>1
      <4>2. size = ALIGN_SIZE * (size \div ALIGN_SIZE) /\ size \div ALIGN_SIZE \in Nat
        BY <4>1, <1>1, Division
      <4> DEFINE q == size \div ALIGN_SIZE
      <4> HIDE DEF q
      <4>3. k * size = (k * q) * ALIGN_SIZE /\ k * q \in Int
        <5>1. size = ALIGN_SIZE * q /\ q \in Nat
          BY <4>2 DEF q
        <5> QED BY <5>1, <2>1, <1>1, SMT
      <4> QED BY <4>3, <1>1, ProductMultiple
    <3>2. CASE ~(count > 1)
      <4>1. k = 0 /\ k * size = 0 * ALIGN_SIZE
        BY <3>2, <1>1, SMT
      <4> QED BY <4>1, <1>1, ProductMultiple
    <3> QED BY <3>1, <3>2
  <2>4. (align + d + k * size) % ALIGN_SIZE = 0
    <3>1. align + d \in Int /\ k * size \in Int
      BY <2>1, <1>5
    <3> QED BY <3>1, <2>3, <1>1, <1>5, SumMultiple
  <2>5. align + d + k * size = align + (d + k * size)
    BY <2>1, <1>5
  <2> QED BY <2>1, <2>2, <2>4, <2>5, <1>2
<1>9. \A o \in objects : \E k \in 0..(count - 1) : o = [off |-> d + k * size, size |-> size]
  BY DEF objects, d
<1>10. objects \subseteq Object
  <2>1. ASSUME NEW o \in objects PROVE o \in Object
    <3>1. PICK k \in 0..(count - 1) : o = [off |-> d + k * size, size |-> size]
      BY <1>9
    <3>2. d + k * size \in Nat
      BY <1>5, <1>8
    <3> QED BY <3>1, <3>2 DEF Object
  <2> QED BY <2>1
<1>11. ASSUME NEW o \in objects PROVE Placed(chunk, o)
  <2>1. PICK k \in 0..(count - 1) : o = [off |-> d + k * size, size |-> size]
    BY <1>9
  <2>2. o.off = d + k * size /\ o.size = size
    BY <2>1
  <2> QED BY <2>2, <1>2, <1>5, <1>6, <1>7, <1>8 DEF Placed
<1>12. ASSUME NEW o \in objects, NEW p \in objects PROVE Apart(o, p)
  <2>1. PICK k \in 0..(count - 1) : o = [off |-> d + k * size, size |-> size]
    BY <1>9
  <2>2. PICK l \in 0..(count - 1) : p = [off |-> d + l * size, size |-> size]
    BY <1>9
  <2>3. /\ o.off = d + k * size /\ o.size = size /\ p.off = d + l * size /\ p.size = size
        /\ k * size \in Nat /\ l * size \in Nat
    BY <2>1, <2>2, <1>8
  <2>4. CASE k = l
    BY <2>1, <2>2, <2>4 DEF Apart
  <2>5. CASE k < l
    <3>1. (k + 1) * size <= l * size /\ (k + 1) * size = k * size + size
      BY <2>5, SMT
    <3> QED BY <3>1, <2>3, <1>5 DEF Apart
  <2>6. CASE l < k
    <3>1. (l + 1) * size <= k * size /\ (l + 1) * size = l * size + size
      BY <2>6, SMT
    <3> QED BY <3>1, <2>3, <1>5 DEF Apart
  <2> QED BY <2>4, <2>5, <2>6
<1>13. chunk \in Chunk
  <2>1. objects \in SUBSET Object /\ Header + n + ALIGN_SIZE - 1 \in Nat
    BY <1>1, <1>2, <1>10
  <2> QED BY <2>1, <1>2, <1>6 DEF Chunk
<1>14. chunk \in Fit
  <2>1. chunk.size = Header + chunk.bytes_used + chunk.bytes_left + ALIGN_SIZE - 1
    BY <1>1, <1>2, <1>6
  <2> QED BY <2>1, <1>2, <1>6, <1>11, <1>12, <1>13 DEF Fit
<1> QED BY <1>1, <1>2, <1>6, <1>14 DEF chunk, n


-----------------------------------------------------------------------------
(* Lists of chunks and the sums of their sizes. *)

LEMMA SizesAre ==
  ASSUME NEW list \in Seq(Fit)
  PROVE  /\ Sizes(list) \in Seq(Nat) /\ Len(Sizes(list)) = Len(list)
         /\ space_freed(list) \in Seq(Nat) /\ Len(space_freed(list)) = Len(list)
         /\ \A i \in 1..Len(list) : Sizes(list)[i] = list[i].size
         /\ Sum(Sizes(list)) \in Nat /\ Sum(space_freed(list)) \in Nat
         /\ Sum(space_freed(list)) <= Sum(Sizes(list))
<1> DEFINE N == Len(list)
           v == space_freed(list)
           w == Sizes(list)
<1>1. N \in Nat /\ DOMAIN list = 1..N /\ \A i \in 1..N : list[i] \in Fit
  OBVIOUS
<1>2. ALIGN_SIZE \in Nat \ {0} /\ Header \in Nat
  BY SizeAssumption
<1>3. ASSUME NEW chunk \in Fit
      PROVE  /\ chunk.size \in Nat /\ chunk.bytes_used + chunk.bytes_left + Header \in Nat
             /\ chunk.bytes_used + chunk.bytes_left + Header <= chunk.size
  BY <1>2 DEF Fit, Chunk
<1>4. w = [i \in 1..N |-> list[i].size] /\ \A i \in 1..N : list[i].size \in Nat
  BY <1>1, <1>3 DEF Sizes
<1>5. /\ v = [i \in 1..N |-> list[i].bytes_used + list[i].bytes_left + Header]
      /\ \A i \in 1..N : list[i].bytes_used + list[i].bytes_left + Header \in Nat
  BY <1>1, <1>3 DEF space_freed
<1> HIDE DEF v, w
<1>6. w \in Seq(Nat) /\ Len(w) = N /\ \A i \in 1..N : w[i] = list[i].size
  BY <1>1, <1>4
<1>7. v \in Seq(Nat) /\ Len(v) = N
  BY <1>1, <1>5
<1>8. \A i \in 1..N : v[i] <= w[i]
  BY <1>1, <1>3, <1>4, <1>5
<1>9. UpTo(v)[N] <= UpTo(w)[N]
  <2> HIDE DEF N
  <2>1. N <= N
    BY <1>1
  <2> QED BY <1>1, <1>6, <1>7, <1>8, <2>1, UpToCompared
<1>10. /\ Sum(v) \in Nat /\ Sum(v) = UpTo(v)[N]
       /\ Sum(w) \in Nat /\ Sum(w) = UpTo(w)[N]
  BY <1>6, <1>7, UpToIs
<1> QED BY <1>6, <1>7, <1>9, <1>10 DEF v, w

LEMMA SameSizes ==
  ASSUME NEW list \in Seq(Fit), NEW i \in 1..Len(list), NEW chunk \in Fit,
         chunk.size = list[i].size
  PROVE  /\ [list EXCEPT ![i] = chunk] \in Seq(Fit)
         /\ Sum(Sizes([list EXCEPT ![i] = chunk])) = Sum(Sizes(list))
<1> DEFINE new == [list EXCEPT ![i] = chunk]
           N == Len(list)
<1>1. /\ N \in Nat /\ new \in Seq(Fit) /\ Len(new) = N /\ DOMAIN new = 1..N /\ DOMAIN list = 1..N
      /\ \A k \in 1..N : new[k] = IF k = i THEN chunk ELSE list[k]
  OBVIOUS
<1> HIDE DEF new
<1>2. Sizes(new) = Sizes(list)
  BY <1>1 DEF Sizes
<1> QED BY <1>1, <1>2 DEF new

LEMMA Appended ==
  ASSUME NEW list \in Seq(Fit), NEW chunk \in Fit
  PROVE  /\ Append(list, chunk) \in Seq(Fit) /\ Len(Append(list, chunk)) = Len(list) + 1
         /\ Append(list, chunk)[Len(list) + 1] = chunk
         /\ Sum(Sizes(Append(list, chunk))) = Sum(Sizes(list)) + chunk.size
<1> DEFINE new == Append(list, chunk)
           N == Len(list)
<1>1. /\ N \in Nat /\ new \in Seq(Fit) /\ Len(new) = N + 1 /\ new[N + 1] = chunk
      /\ \A k \in 1..N : new[k] = list[k]
  OBVIOUS
<1>2. Sizes(list) \in Seq(Nat) /\ Len(Sizes(list)) = N /\ \A k \in 1..N : Sizes(list)[k] = list[k].size
  BY SizesAre
<1>3. chunk.size \in Nat
  BY DEF Fit, Chunk
<1> HIDE DEF new
<1>4. Sizes(new) \in Seq(Nat) /\ Len(Sizes(new)) = N + 1 /\ \A k \in 1..(N + 1) : Sizes(new)[k] = new[k].size
  BY <1>1, SizesAre
<1>5. Sizes(new) = Append(Sizes(list), chunk.size)
  <2> DEFINE u == Append(Sizes(list), chunk.size)
             s == Sizes(new)
  <2>1. /\ u \in Seq(Nat) /\ Len(u) = N + 1 /\ u[N + 1] = chunk.size
        /\ \A k \in 1..N : u[k] = Sizes(list)[k]
    BY <1>2, <1>3
  <2> HIDE DEF u
  <2>2. \A k \in 1..(N + 1) : k \in 1..N \/ k = N + 1
    BY <1>1
  <2>3. \A k \in 1..(N + 1) : s[k] = u[k]
    BY <2>1, <2>2, <1>1, <1>2, <1>4
  <2> HIDE DEF s
  <2>4. s \in Seq(Nat) /\ Len(s) = N + 1
    BY <1>4 DEF s
  <2>5. s = u
    BY <2>1, <2>3, <2>4
  <2> QED BY <2>5 DEF s, u
<1> QED BY <1>1, <1>2, <1>3, <1>5, SumAppend DEF new

LEMMA Prepended ==
  ASSUME NEW list \in Seq(Fit), NEW chunk \in Fit
  PROVE  /\ <<chunk>> \o list \in Seq(Fit)
         /\ Sum(Sizes(<<chunk>> \o list)) = Sum(Sizes(list)) + chunk.size
<1> DEFINE new == <<chunk>> \o list
           N == Len(list)
<1>1. /\ N \in Nat /\ new \in Seq(Fit) /\ Len(new) = N + 1 /\ new[1] = chunk
      /\ \A k \in 2..(N + 1) : new[k] = list[k - 1]
  OBVIOUS
<1>2. Sizes(list) \in Seq(Nat) /\ Len(Sizes(list)) = N /\ \A k \in 1..N : Sizes(list)[k] = list[k].size
  BY SizesAre
<1>3. chunk.size \in Nat
  BY DEF Fit, Chunk
<1> HIDE DEF new
<1>4. Sizes(new) \in Seq(Nat) /\ Len(Sizes(new)) = N + 1 /\ \A k \in 1..(N + 1) : Sizes(new)[k] = new[k].size
  BY <1>1, SizesAre
<1>5. Sizes(new) = <<chunk.size>> \o Sizes(list)
  <2> DEFINE u == <<chunk.size>> \o Sizes(list)
             s == Sizes(new)
  <2>1. /\ u \in Seq(Nat) /\ Len(u) = N + 1 /\ u[1] = chunk.size
        /\ \A k \in 2..(N + 1) : u[k] = Sizes(list)[k - 1]
    BY <1>2, <1>3
  <2> HIDE DEF u
  <2>2. \A k \in 1..(N + 1) : k = 1 \/ (k \in 2..(N + 1) /\ k - 1 \in 1..N)
    BY <1>1
  <2>3. \A k \in 1..(N + 1) : s[k] = u[k]
    BY <2>1, <2>2, <1>1, <1>2, <1>4
  <2> HIDE DEF s
  <2>4. s \in Seq(Nat) /\ Len(s) = N + 1
    BY <1>4 DEF s
  <2>5. s = u
    BY <2>1, <2>3, <2>4
  <2> QED BY <2>5 DEF s, u
<1>6. Sum(<<chunk.size>> \o Sizes(list)) = chunk.size + Sum(Sizes(list)) /\ Sum(Sizes(list)) \in Nat
  BY <1>2, <1>3, SumPrepend, SizesAre
<1>7. Sum(Sizes(new)) = Sum(Sizes(list)) + chunk.size
  BY <1>3, <1>5, <1>6
<1> QED BY <1>1, <1>7 DEF new


-----------------------------------------------------------------------------
(* The state of the manager in a call. *)

Errors == {"", "out of memory", "bad pool", "width overflow"}

GoodMemory == [small_list : [Pool -> Seq(Fit)], large_list : [Pool -> Seq(Fit)],
               total_space_allocated : Int]

Good == {c \in [mem : GoodMemory, heap : Nat, exit : Errors] :
           c.heap = InLists(c.mem) /\ c.heap <= c.mem.total_space_allocated}

LEMMA InListsIs ==
  ASSUME NEW m \in GoodMemory
  PROVE  /\ m # NoManager
         /\ \A pool \in Pool : /\ m.small_list[pool] \in Seq(Fit) /\ m.large_list[pool] \in Seq(Fit)
                               /\ Sum(Sizes(m.small_list[pool])) \in Nat
                               /\ Sum(Sizes(m.large_list[pool])) \in Nat
         /\ InLists(m) = Manager + (Sum(Sizes(m.small_list[0])) + Sum(Sizes(m.large_list[0])))
                                 + (Sum(Sizes(m.small_list[1])) + Sum(Sizes(m.large_list[1])))
<1>1. m # NoManager
  <2>1. DOMAIN m = {"small_list", "large_list", "total_space_allocated"}
    BY DEF GoodMemory
  <2>2. DOMAIN NoManager = {}
    BY DEF NoManager
  <2> QED BY <2>1, <2>2
<1>2. \A pool \in Pool : m.small_list[pool] \in Seq(Fit) /\ m.large_list[pool] \in Seq(Fit)
  BY DEF GoodMemory
<1>3. \A pool \in Pool : Sum(Sizes(m.small_list[pool])) \in Nat /\ Sum(Sizes(m.large_list[pool])) \in Nat
  BY <1>2, SizesAre
<1> QED BY <1>1, <1>2, <1>3 DEF InLists, PoolSize, JPOOL_PERMANENT, JPOOL_IMAGE

(* Replacing one list of one pool. *)
LEMMA ListReplaced ==
  ASSUME NEW m \in GoodMemory, NEW new \in GoodMemory, NEW pool \in Pool, NEW list \in Seq(Fit)
  PROVE  /\ new.small_list = [m.small_list EXCEPT ![pool] = list] /\ new.large_list = m.large_list
              => InLists(new) = InLists(m) - Sum(Sizes(m.small_list[pool])) + Sum(Sizes(list))
         /\ new.large_list = [m.large_list EXCEPT ![pool] = list] /\ new.small_list = m.small_list
              => InLists(new) = InLists(m) - Sum(Sizes(m.large_list[pool])) + Sum(Sizes(list))
<1>1. /\ \A p \in Pool : Sum(Sizes(m.small_list[p])) \in Nat /\ Sum(Sizes(m.large_list[p])) \in Nat
      /\ InLists(m) = Manager + (Sum(Sizes(m.small_list[0])) + Sum(Sizes(m.large_list[0])))
                              + (Sum(Sizes(m.small_list[1])) + Sum(Sizes(m.large_list[1])))
  BY InListsIs
<1>2. InLists(new) = Manager + (Sum(Sizes(new.small_list[0])) + Sum(Sizes(new.large_list[0])))
                             + (Sum(Sizes(new.small_list[1])) + Sum(Sizes(new.large_list[1])))
  BY InListsIs
<1>3. Sum(Sizes(list)) \in Nat /\ Manager \in Nat
  BY SizesAre, SizeAssumption
<1>4. Pool = {0, 1}
  BY DEF Pool, JPOOL_PERMANENT, JPOOL_IMAGE
<1>5. ASSUME new.small_list = [m.small_list EXCEPT ![pool] = list], new.large_list = m.large_list
      PROVE  InLists(new) = InLists(m) - Sum(Sizes(m.small_list[pool])) + Sum(Sizes(list))
  <2>1. \A p \in Pool : new.small_list[p] = IF p = pool THEN list ELSE m.small_list[p]
    BY <1>5 DEF GoodMemory
  <2>2. CASE pool = 0
    <3>1. new.small_list[0] = list /\ new.small_list[1] = m.small_list[1]
      BY <2>1, <2>2, <1>4
    <3> QED BY <3>1, <2>2, <1>1, <1>2, <1>3, <1>4, <1>5
  <2>3. CASE pool = 1
    <3>1. new.small_list[1] = list /\ new.small_list[0] = m.small_list[0]
      BY <2>1, <2>3, <1>4
    <3> QED BY <3>1, <2>3, <1>1, <1>2, <1>3, <1>4, <1>5
  <2> QED BY <2>2, <2>3, <1>4
<1>6. ASSUME new.large_list = [m.large_list EXCEPT ![pool] = list], new.small_list = m.small_list
      PROVE  InLists(new) = InLists(m) - Sum(Sizes(m.large_list[pool])) + Sum(Sizes(list))
  <2>1. \A p \in Pool : new.large_list[p] = IF p = pool THEN list ELSE m.large_list[p]
    BY <1>6 DEF GoodMemory
  <2>2. CASE pool = 0
    <3>1. new.large_list[0] = list /\ new.large_list[1] = m.large_list[1]
      BY <2>1, <2>2, <1>4
    <3> QED BY <3>1, <2>2, <1>1, <1>2, <1>3, <1>4, <1>6
  <2>3. CASE pool = 1
    <3>1. new.large_list[1] = list /\ new.large_list[0] = m.large_list[0]
      BY <2>1, <2>3, <1>4
    <3> QED BY <3>1, <2>3, <1>1, <1>2, <1>3, <1>4, <1>6
  <2> QED BY <2>2, <2>3, <1>4
<1> QED BY <1>5, <1>6

LEMMA GoodParts ==
  ASSUME NEW c \in Good
  PROVE  /\ c.mem \in GoodMemory /\ c.heap \in Nat /\ c.exit \in Errors
         /\ c.heap = InLists(c.mem) /\ c.heap <= c.mem.total_space_allocated
         /\ c.mem.total_space_allocated \in Int
         /\ c = [mem |-> c.mem, heap |-> c.heap, exit |-> c.exit]
         /\ c.mem = [small_list |-> c.mem.small_list, large_list |-> c.mem.large_list,
                     total_space_allocated |-> c.mem.total_space_allocated]
         /\ c.mem.small_list \in [Pool -> Seq(Fit)] /\ c.mem.large_list \in [Pool -> Seq(Fit)]
  BY DEF Good, GoodMemory

LEMMA MakeGood ==
  ASSUME NEW m \in GoodMemory, NEW h \in Nat, NEW error \in Errors,
         h = InLists(m), h <= m.total_space_allocated
  PROVE  [mem |-> m, heap |-> h, exit |-> error] \in Good
<1> DEFINE c == [mem |-> m, heap |-> h, exit |-> error]
<1>1. c.mem = m /\ c.heap = h /\ c \in [mem : GoodMemory, heap : Nat, exit : Errors]
  OBVIOUS
<1> HIDE DEF c
<1>2. c \in Good
  BY <1>1 DEF Good
<1> QED BY <1>2 DEF c

LEMMA FailedGood ==
  ASSUME NEW c \in Good, NEW error \in Errors
  PROVE  Failed(c, error) \in Good
<1>1. Failed(c, error) = [mem |-> c.mem, heap |-> c.heap, exit |-> error]
  <2>1. c = [mem |-> c.mem, heap |-> c.heap, exit |-> c.exit]
    BY GoodParts
  <2> QED BY <2>1 DEF Failed
<1> QED BY <1>1, GoodParts DEF Good

LEMMA PlaceSmallGood ==
  ASSUME NEW c \in Good, NEW pool \in Pool, NEW i \in 1..Len(c.mem.small_list[pool]),
         NEW n \in Nat, n % ALIGN_SIZE = 0, n <= c.mem.small_list[pool][i].bytes_left
  PROVE  PlaceSmall(c, pool, i, n) \in Good
<1> DEFINE m == c.mem
           list == m.small_list[pool]
           placed == WithObject(list[i], n)
           after == [list EXCEPT ![i] = placed]
           new == [small_list |-> [m.small_list EXCEPT ![pool] = after], large_list |-> m.large_list,
                   total_space_allocated |-> m.total_space_allocated]
<1>1. m \in GoodMemory /\ list \in Seq(Fit) /\ list[i] \in Fit
  <2>1. m \in GoodMemory /\ m.small_list \in [Pool -> Seq(Fit)]
    BY GoodParts
  <2>2. list \in Seq(Fit) /\ i \in 1..Len(list)
    BY <2>1
  <2> HIDE DEF list
  <2> QED BY <2>1, <2>2
<1>2. placed \in Fit /\ placed.size = list[i].size
  BY <1>1, ObjectPlaced
<1>3. PlaceSmall(c, pool, i, n) = [mem |-> new, heap |-> c.heap, exit |-> c.exit]
  <2>1. PlaceSmall(c, pool, i, n) = [c EXCEPT !.mem.small_list[pool][i] = placed]
    BY DEF PlaceSmall, WithObject
  <2> HIDE DEF placed
  <2> QED BY <2>1, GoodParts
<1> HIDE DEF placed
<1>4. after \in Seq(Fit) /\ Sum(Sizes(after)) = Sum(Sizes(list))
  BY <1>1, <1>2, SameSizes
<1> HIDE DEF after
<1>5. new \in GoodMemory
  BY <1>1, <1>4 DEF GoodMemory
<1>6. InLists(new) = InLists(m)
  <2>1. new.small_list = [m.small_list EXCEPT ![pool] = after] /\ new.large_list = m.large_list
    OBVIOUS
  <2>2. InLists(new) = InLists(m) - Sum(Sizes(list)) + Sum(Sizes(after))
    <3> HIDE DEF new, m
    <3>1. new.small_list = [m.small_list EXCEPT ![pool] = after] /\ new.large_list = m.large_list
            => InLists(new) = InLists(m) - Sum(Sizes(m.small_list[pool])) + Sum(Sizes(after))
      BY <1>1, <1>4, <1>5, ListReplaced, Zenon
    <3> QED BY <3>1, <2>1
  <2>3. Sum(Sizes(list)) \in Nat /\ InLists(m) \in Int
    <3>1. InLists(m) = c.heap /\ c.heap \in Nat
      BY GoodParts
    <3> HIDE DEF list
    <3> QED BY <3>1, <1>1, SizesAre
  <2> HIDE DEF new, m, list
  <2> QED BY <2>2, <2>3, <1>4
<1> QED BY <1>3, <1>5, <1>6, GoodParts DEF Good


-----------------------------------------------------------------------------
(* alloc_small *)

LEMMA HalvedIs ==
  ASSUME NEW slop \in Nat
  PROVE  slop \in Halved(slop) /\ Halved(slop) \subseteq 0..slop
<1> DEFINE Is(f) == f = [k \in 0..slop |-> IF k = 0 THEN slop ELSE f[k - 1] \div 2]
           S == 0..slop
           g == [p \in Nat \X S |-> p[2] \div 2]
           half == CHOOSE f : Is(f)
<1>1. \A k \in S : k \div 2 \in S /\ k \in Nat
  BY SMT
<1>2. slop \in S /\ 0 \in 0..slop /\ \A k \in 1..slop : k \in Nat /\ k \in 0..slop /\ k - 1 \in 0..slop /\ k # 0
  OBVIOUS
<1>3. g \in [Nat \X S -> S]
  BY <1>1
<1>4. \A k \in Nat, x \in S : g[<<k, x>>] = x \div 2
  <2> TAKE k \in Nat, x \in S
  <2>1. <<k, x>> \in Nat \X S
    OBVIOUS
  <2> QED BY <2>1
<1> HIDE DEF g, S
<1>5. PICK f \in Iterates(slop, S, slop, g) : TRUE
  BY <1>2, <1>3, Recursion
<1>6. f \in [0..slop -> S] /\ f[0] = slop /\ \A k \in 1..slop : f[k] = g[<<k, f[k - 1]>>]
  BY <1>5 DEF Iterates
<1>7. \A k \in 0..slop : f[k] = IF k = 0 THEN slop ELSE f[k - 1] \div 2
  <2> TAKE k \in 0..slop
  <2>1. CASE k = 0
    BY <2>1, <1>6
  <2>2. CASE k # 0
    <3>1. k \in 1..slop
      BY <2>2
    <3>2. k \in Nat /\ f[k - 1] \in S
      BY <3>1, <1>2, <1>6
    <3> QED BY <3>1, <3>2, <2>2, <1>4, <1>6
  <2> QED BY <2>1, <2>2
<1>8. Is(f)
  BY <1>6, <1>7
<1>9. Is(half)
  <2> HIDE DEF Is
  <2> QED BY <1>8
<1>10. \A k \in 0..slop : half[k] = IF k = 0 THEN slop ELSE half[k - 1] \div 2
  BY <1>9
<1>11. Halved(slop) = {slop} \cup {s \in {half[k] : k \in 0..slop} : s >= MIN_SLOP}
  BY DEF Halved
<1> HIDE DEF half
<1>12. \A k \in 0..slop : half[k] \in S
  <2> DEFINE T == {k \in 0..slop : half[k] \notin S}
  <2> SUFFICES ASSUME T # {} PROVE FALSE
    OBVIOUS
  <2>1. \A k \in T : k \in Nat /\ k \in 0..slop /\ half[k] \notin S
    OBVIOUS
  <2>2. \A k \in 0..slop : half[k] \notin S => k \in T
    OBVIOUS
  <2> HIDE DEF T
  <2>3. PICK m \in T : \A p \in T : m <= p
    BY <2>1, HasLeast
  <2>4. m # 0
    BY <2>1, <1>2, <1>10
  <2>5. m \in 1..slop /\ m - 1 \in 0..slop /\ m - 1 \notin T
    BY <2>1, <2>3, <2>4
  <2>6. half[m - 1] \in S /\ half[m] = half[m - 1] \div 2
    BY <2>2, <2>5, <1>2, <1>10
  <2> QED BY <2>1, <2>6, <1>1
<1> QED BY <1>2, <1>11, <1>12 DEF S

LEMMA LeastIn ==
  ASSUME NEW S \in SUBSET Nat, S # {}
  PROVE  Min(S) \in S
<1>1. \E m \in S : \A p \in S : m <= p
  BY HasLeast
<1> QED BY <1>1 DEF Min

LEMMA GreatestIn ==
  ASSUME NEW n \in Nat, NEW S \in SUBSET (0..n), S # {}
  PROVE  Max(S) \in S
<1>1. \E m \in S : \A p \in S : p <= m
  BY HasGreatest
<1>2. \E m \in S : \A p \in S : m >= p
  BY <1>1
<1> QED BY <1>2 DEF Max

LEMMA AllocSmallGood ==
  ASSUME NEW c \in Good, NEW pool, NEW size \in Nat, NEW align \in 0..(ALIGN_SIZE - 1)
  PROVE  alloc_small(c, pool, size, align) \in Good
<1> DEFINE n == round_up_pow2(size, ALIGN_SIZE)
           list == c.mem.small_list[pool]
           room == Room(list, n)
           min_request == Header + n + ALIGN_SIZE - 1
           most == Slop(c.mem, pool, min_request)
           slops == {s \in Halved(most) : Gives(c, min_request + s)}
           slop == Max(slops)
           fresh == NewChunk(c, align, 0, n + slop, ALIGN_SIZE - 1, {})
           grown == [c EXCEPT
             !.heap = @ + min_request + slop,
             !.mem.total_space_allocated = @ + min_request + slop,
             !.mem.small_list[pool] = Append(@, fresh)]
<1>1. /\ ALIGN_SIZE \in Nat \ {0} /\ Header \in Nat /\ MAX_ALLOC_CHUNK \in Nat
      /\ first_pool_slop \in [Pool -> Nat] /\ extra_pool_slop \in [Pool -> Nat]
  BY SizeAssumption
<1>2. n \in Nat /\ n % ALIGN_SIZE = 0
  BY <1>1, RoundedUp
<1>3. alloc_small(c, pool, size, align) =
        IF min_request > MAX_ALLOC_CHUNK THEN Failed(c, "out of memory")
        ELSE IF pool \notin Pool THEN Failed(c, "bad pool")
        ELSE IF room # {} THEN PlaceSmall(c, pool, Min(room), n)
        ELSE IF slops = {} THEN Failed(c, "out of memory")
        ELSE PlaceSmall(grown, pool, Len(list) + 1, n)
  BY DEF alloc_small
<1> HIDE DEF n
<1>4. Failed(c, "out of memory") \in Good /\ Failed(c, "bad pool") \in Good
  BY FailedGood DEF Errors
<1>5. ASSUME pool \in Pool PROVE list \in Seq(Fit) /\ c.mem \in GoodMemory /\ c.mem.small_list \in [Pool -> Seq(Fit)]
  <2>1. c.mem.small_list \in [Pool -> Seq(Fit)] /\ c.mem \in GoodMemory
    BY GoodParts
  <2> QED BY <2>1, <1>5
<1>6. ASSUME pool \in Pool, room # {} PROVE PlaceSmall(c, pool, Min(room), n) \in Good
  <2> DEFINE i == Min(room)
  <2>1. DOMAIN list = 1..Len(list) /\ Len(list) \in Nat
    <3> HIDE DEF list
    <3> QED BY <1>5, <1>6
  <2>2. room \in SUBSET Nat
    BY <2>1 DEF Room
  <2>3. i \in room
    <3> HIDE DEF room
    <3> QED BY <2>2, <1>6, LeastIn
  <2> HIDE DEF i
  <2>4. i \in 1..Len(list) /\ list[i].bytes_left >= n
    BY <2>1, <2>3 DEF Room
  <2>5. list[i] \in Fit
    <3> HIDE DEF list
    <3> QED BY <2>4, <1>5, <1>6
  <2>6. n <= list[i].bytes_left
    <3>1. list[i].bytes_left \in Nat
      BY <2>5 DEF Fit, Chunk
    <3> QED BY <3>1, <2>4, <1>2
  <2> QED BY <2>4, <2>6, <1>2, <1>6, PlaceSmallGood DEF i
<1>7. ASSUME ~(min_request > MAX_ALLOC_CHUNK), pool \in Pool, slops # {}
      PROVE  PlaceSmall(grown, pool, Len(list) + 1, n) \in Good
  <2>1. most \in Nat
    <3>1. MAX_ALLOC_CHUNK - min_request \in Nat
      BY <1>1, <1>2, <1>7
    <3>2. first_pool_slop[pool] \in Nat /\ extra_pool_slop[pool] \in Nat
      BY <1>1, <1>7
    <3> DEFINE x == IF list = <<>> THEN first_pool_slop[pool] ELSE extra_pool_slop[pool]
               y == MAX_ALLOC_CHUNK - min_request
    <3>3. x \in Nat /\ y \in Nat
      BY <3>1, <3>2
    <3>4. most = Min({x, y})
      BY DEF Slop
    <3> HIDE DEF x, y, most
    <3> QED BY <3>3, <3>4, LesserIs
  <2> HIDE DEF most
  <2>2. slops \in SUBSET (0..most)
    BY <2>1, HalvedIs
  <2>3. slop \in slops
    <3> HIDE DEF slops
    <3> QED BY <2>1, <2>2, <1>7, GreatestIn
  <2>4. slop \in Nat
    BY <2>1, <2>2, <2>3
  <2> HIDE DEF slop, slops
  <2>5. /\ fresh \in Fit /\ fresh.size = Header + (n + slop) + ALIGN_SIZE - 1
        /\ fresh.bytes_left = n + slop
    <3>1. n + slop \in Nat
      BY <2>4, <1>2
    <3> QED BY <3>1, FreshFits
  <2> HIDE DEF fresh
  <2> DEFINE m == c.mem
             after == Append(list, fresh)
             asked == min_request + slop
             new == [small_list |-> [m.small_list EXCEPT ![pool] = after], large_list |-> m.large_list,
                     total_space_allocated |-> m.total_space_allocated + min_request + slop]
  <2>6. grown = [mem |-> new, heap |-> c.heap + min_request + slop, exit |-> c.exit]
    <3>1. /\ c = [mem |-> c.mem, heap |-> c.heap, exit |-> c.exit]
          /\ c.mem = [small_list |-> c.mem.small_list, large_list |-> c.mem.large_list,
                      total_space_allocated |-> c.mem.total_space_allocated]
      BY GoodParts
    <3>2. c.mem.small_list \in [Pool -> Seq(Fit)]
      BY GoodParts
    <3>3. grown.mem = new
      <4> HIDE DEF min_request, fresh
      <4>1. grown.mem = [c.mem EXCEPT !.total_space_allocated = @ + min_request + slop,
                                      !.small_list[pool] = Append(@, fresh)]
        BY <3>1
      <4> QED BY <4>1, <3>1, <3>2, <1>7
    <3>4. grown = [mem |-> grown.mem, heap |-> c.heap + min_request + slop, exit |-> c.exit]
      <4> DEFINE given == [c EXCEPT !.heap = @ + min_request + slop]
      <4> HIDE DEF min_request, fresh
      <4>1. given = [mem |-> c.mem, heap |-> c.heap + min_request + slop, exit |-> c.exit]
        <5>1. c = [mem |-> c.mem, heap |-> c.heap, exit |-> c.exit]
          BY <3>1
        <5> QED BY ONLY <5>1 DEF given
      <4>2. grown = [given EXCEPT !.mem.total_space_allocated = @ + min_request + slop,
                                  !.mem.small_list[pool] = Append(@, fresh)]
        OBVIOUS
      <4> HIDE DEF given, grown
      <4> QED BY <4>1, <4>2
    <3> HIDE DEF grown, new, min_request
    <3> QED BY <3>3, <3>4
  <2>7. /\ after \in Seq(Fit) /\ Len(after) = Len(list) + 1 /\ after[Len(list) + 1] = fresh
        /\ Sum(Sizes(after)) = Sum(Sizes(list)) + fresh.size
        /\ Sum(Sizes(list)) \in Nat /\ Len(list) \in Nat
    <3> HIDE DEF list
    <3> QED BY <2>5, <1>5, <1>7, Appended, SizesAre DEF after
  <2> HIDE DEF after
  <2>8. /\ m.total_space_allocated \in Int /\ c.heap = InLists(m) /\ c.heap <= m.total_space_allocated
        /\ m \in GoodMemory /\ c.heap \in Nat /\ c.exit \in Errors
        /\ m.small_list \in [Pool -> Seq(Fit)] /\ m.large_list \in [Pool -> Seq(Fit)]
    BY GoodParts
  <2> HIDE DEF m
  <2>9. new \in GoodMemory
    BY <2>4, <2>7, <2>8, <1>1, <1>2, <1>7 DEF GoodMemory
  <2>10. InLists(new) = InLists(m) + fresh.size
    <3>1. new.small_list = [m.small_list EXCEPT ![pool] = after] /\ new.large_list = m.large_list
      OBVIOUS
    <3> HIDE DEF new
    <3>2. new.small_list = [m.small_list EXCEPT ![pool] = after] /\ new.large_list = m.large_list
            => InLists(new) = InLists(m) - Sum(Sizes(m.small_list[pool])) + Sum(Sizes(after))
      <4>1. m \in GoodMemory /\ new \in GoodMemory /\ pool \in Pool /\ after \in Seq(Fit)
        BY <1>7, <2>7, <2>8, <2>9
      <4> QED BY ONLY <4>1, ListReplaced, Zenon
    <3>3. list = m.small_list[pool]
      BY DEF m
    <3>4. fresh.size \in Nat /\ InLists(m) \in Nat
      BY <2>4, <2>5, <2>8, <1>1, <1>2
    <3> HIDE DEF list
    <3> QED BY <3>1, <3>2, <3>3, <3>4, <2>7
  <2>11. grown \in Good
    <3>1. c.heap + min_request + slop = InLists(new)
      BY <2>4, <2>5, <2>8, <2>10, <1>1, <1>2
    <3>2. c.heap + min_request + slop <= new.total_space_allocated
      BY <2>4, <2>8, <1>1, <1>2
    <3>3. c.heap + min_request + slop \in Nat
      BY <2>4, <2>8, <1>1, <1>2
    <3> HIDE DEF new, min_request, grown
    <3> QED BY <3>1, <3>2, <3>3, <2>6, <2>8, <2>9 DEF Good
  <2>12. grown.mem.small_list[pool] = after
    <3>1. new.small_list[pool] = after
      BY <2>8, <1>7
    <3> HIDE DEF new, grown
    <3> QED BY <3>1, <2>6
  <2> HIDE DEF grown, list
  <2>13. Len(list) + 1 \in 1..Len(grown.mem.small_list[pool])
    BY <2>7, <2>12
  <2>14. n <= grown.mem.small_list[pool][Len(list) + 1].bytes_left
    BY <2>4, <2>5, <2>7, <2>12, <1>2
  <2> QED BY <2>11, <2>13, <2>14, <1>2, <1>7, PlaceSmallGood
<1> DEFINE first == PlaceSmall(c, pool, Min(room), n)
           second == PlaceSmall(grown, pool, Len(list) + 1, n)
           A == min_request > MAX_ALLOC_CHUNK
<1>8. /\ pool \in Pool /\ room # {} => first \in Good
      /\ ~A /\ pool \in Pool /\ slops # {} => second \in Good
  BY <1>6, <1>7
<1> HIDE DEF first, second, A, grown, room, slops, min_request, list
<1>9. alloc_small(c, pool, size, align) =
        IF A THEN Failed(c, "out of memory")
        ELSE IF pool \notin Pool THEN Failed(c, "bad pool")
        ELSE IF room # {} THEN first
        ELSE IF slops = {} THEN Failed(c, "out of memory")
        ELSE second
  BY <1>3 DEF first, second, A
<1> QED BY <1>4, <1>8, <1>9


-----------------------------------------------------------------------------
(* alloc_large and the two-dimensional arrays *)

LEMMA AllocLargeGood ==
  ASSUME NEW c \in Good, NEW pool, NEW count \in Nat, NEW size \in Nat,
         NEW align \in 0..(ALIGN_SIZE - 1), count > 1 => size % ALIGN_SIZE = 0
  PROVE  AllocLarge(c, pool, count, size, align) \in Good
<1> DEFINE n == round_up_pow2(count * size, ALIGN_SIZE)
           request == n + Header + ALIGN_SIZE - 1
           chunk == LargeChunk(c, align, count, size)
           m == c.mem
           after == <<chunk>> \o m.large_list[pool]
           given == [c EXCEPT !.heap = @ + request]
           grown == [c EXCEPT !.heap = @ + request,
                              !.mem.total_space_allocated = @ + request,
                              !.mem.large_list[pool] = <<chunk>> \o @]
           new == [small_list |-> m.small_list, large_list |-> [m.large_list EXCEPT ![pool] = after],
                   total_space_allocated |-> m.total_space_allocated + request]
<1>1. ALIGN_SIZE \in Nat \ {0} /\ Header \in Nat
  BY SizeAssumption
<1>2. n \in Nat /\ request \in Nat
  <2>1. count * size \in Nat
    OBVIOUS
  <2>2. n \in Nat
    BY <2>1, <1>1, RoundedUp
  <2> HIDE DEF n
  <2> QED BY <2>2, <1>1
<1>3. chunk \in Fit /\ chunk.size = request
  BY LargeFits
<1>4. AllocLarge(c, pool, count, size, align) =
        IF request > MAX_ALLOC_CHUNK THEN Failed(c, "out of memory")
        ELSE IF pool \notin Pool THEN Failed(c, "bad pool")
        ELSE IF ~Gives(c, request) THEN Failed(c, "out of memory")
        ELSE grown
  BY DEF AllocLarge, LargeChunk
<1>5. Failed(c, "out of memory") \in Good /\ Failed(c, "bad pool") \in Good
  BY FailedGood DEF Errors
<1> HIDE DEF request, chunk
<1>6. ASSUME pool \in Pool PROVE grown \in Good
  <2>1. c = [mem |-> c.mem, heap |-> c.heap, exit |-> c.exit]
    BY GoodParts
  <2>2. given = [mem |-> m, heap |-> c.heap + request, exit |-> c.exit]
    BY ONLY <2>1
  <2>3. grown = [given EXCEPT !.mem.total_space_allocated = @ + request,
                              !.mem.large_list[pool] = <<chunk>> \o @]
    OBVIOUS
  <2>4. /\ m.total_space_allocated \in Int /\ c.heap = InLists(m) /\ c.heap <= m.total_space_allocated
        /\ m \in GoodMemory /\ c.heap \in Nat /\ c.exit \in Errors
        /\ m.small_list \in [Pool -> Seq(Fit)] /\ m.large_list \in [Pool -> Seq(Fit)]
    BY GoodParts
  <2>5. m = [small_list |-> m.small_list, large_list |-> m.large_list,
             total_space_allocated |-> m.total_space_allocated]
    BY GoodParts
  <2> HIDE DEF given, grown, m
  <2>6. grown = [mem |-> grown.mem, heap |-> c.heap + request, exit |-> c.exit]
    BY <2>2, <2>3
  <2>7. grown.mem = [m EXCEPT !.total_space_allocated = @ + request,
                              !.large_list[pool] = <<chunk>> \o @]
    BY <2>2, <2>3
  <2>8. grown.mem = new
    BY <2>4, <2>5, <2>7, <1>6
  <2>9. m.large_list[pool] \in Seq(Fit)
    BY <2>4, <1>6
  <2>10. after \in Seq(Fit) /\ Sum(Sizes(after)) = Sum(Sizes(m.large_list[pool])) + chunk.size
    BY <2>9, <1>3, Prepended
  <2> HIDE DEF after
  <2>11. new \in GoodMemory
    BY <2>4, <2>10, <1>2, <1>6 DEF GoodMemory
  <2>12. InLists(new) = InLists(m) + request
    <3>1. new.large_list = [m.large_list EXCEPT ![pool] = after] /\ new.small_list = m.small_list
      OBVIOUS
    <3>2. m \in GoodMemory /\ new \in GoodMemory /\ pool \in Pool /\ after \in Seq(Fit)
      BY <1>6, <2>4, <2>10, <2>11
    <3> HIDE DEF new
    <3>3. new.large_list = [m.large_list EXCEPT ![pool] = after] /\ new.small_list = m.small_list
            => InLists(new) = InLists(m) - Sum(Sizes(m.large_list[pool])) + Sum(Sizes(after))
      BY ONLY <3>2, ListReplaced, Zenon
    <3>4. Sum(Sizes(m.large_list[pool])) \in Nat
      BY <2>9, SizesAre
    <3> QED BY <3>1, <3>3, <3>4, <2>4, <2>10, <1>2, <1>3
  <2>13. /\ c.heap + request = InLists(new) /\ c.heap + request \in Nat
         /\ c.heap + request <= new.total_space_allocated
    BY <2>4, <2>12, <1>2
  <2> HIDE DEF new
  <2> QED BY <2>4, <2>6, <2>8, <2>11, <2>13 DEF Good
<1> HIDE DEF grown
<1> QED BY <1>4, <1>5, <1>6

LEMMA NextChunkGood ==
  ASSUME NEW rows \in Nat, NEW a \in [call : Good, left : 0..rows], NEW pool, NEW width \in Nat,
         NEW rowsperchunk \in Nat, NEW align \in 0..(ALIGN_SIZE - 1), width % ALIGN_SIZE = 0
  PROVE  NextChunk(a, pool, width, rowsperchunk, align) \in [call : Good, left : 0..rows]
<1> DEFINE now == Min({a.left, rowsperchunk})
<1>1. a.left \in 0..rows /\ a.call \in Good /\ a.left \in Nat
  OBVIOUS
<1>2. now = IF a.left <= rowsperchunk THEN a.left ELSE rowsperchunk
  BY <1>1, LesserIs
<1> HIDE DEF now
<1>3. now \in Nat /\ a.left - now \in 0..rows
  BY <1>1, <1>2
<1>4. AllocLarge(a.call, pool, now, width, align) \in Good
  BY <1>1, <1>3, AllocLargeGood
<1>5. NextChunk(a, pool, width, rowsperchunk, align) =
        IF a.left = 0 \/ a.call.exit # "" THEN a
        ELSE [call |-> AllocLarge(a.call, pool, now, width, align), left |-> a.left - now]
  BY DEF NextChunk, now
<1> DEFINE allocated == AllocLarge(a.call, pool, now, width, align)
           left == a.left - now
<1>6. [call |-> allocated, left |-> left] \in [call : Good, left : 0..rows]
  <2>1. allocated \in Good /\ left \in 0..rows
    BY <1>3, <1>4
  <2> HIDE DEF allocated, left
  <2> QED BY <2>1
<1> HIDE DEF allocated, left
<1>7. NextChunk(a, pool, width, rowsperchunk, align)
        \in {a, [call |-> allocated, left |-> left]}
  BY <1>5 DEF allocated, left
<1> QED BY <1>6, <1>7

LEMMA WorkspaceGood ==
  ASSUME NEW c \in Good, NEW pool, NEW width \in Nat, NEW rows \in Nat,
         NEW rowsperchunk \in Nat, NEW align \in 0..(ALIGN_SIZE - 1), width % ALIGN_SIZE = 0
  PROVE  Workspace(c, pool, width, rows, rowsperchunk, align) \in Good
<1> DEFINE a == [call |-> c, left |-> rows]
           next(x) == NextChunk(x, pool, width, rowsperchunk, align)
           Is(f) == f = [n \in 0..rows |-> IF n = 0 THEN a ELSE next(f[n - 1])]
           S == [call : Good, left : 0..rows]
           g == [p \in Nat \X S |-> next(p[2])]
           after == CHOOSE f : Is(f)
<1>1. \A x \in S : next(x) \in S
  BY NextChunkGood
<1>2. a \in S
  OBVIOUS
<1> HIDE DEF next, S, a
<1>3. g \in [Nat \X S -> S]
  BY <1>1
<1>4. \A n \in Nat, x \in S : g[<<n, x>>] = next(x)
  <2> TAKE n \in Nat, x \in S
  <2>1. <<n, x>> \in Nat \X S
    OBVIOUS
  <2> QED BY <2>1
<1> HIDE DEF g
<1>5. PICK f \in Iterates(rows, S, a, g) : TRUE
  BY <1>2, <1>3, Recursion
<1>6. f \in [0..rows -> S] /\ f[0] = a /\ \A n \in 1..rows : f[n] = g[<<n, f[n - 1]>>]
  BY <1>5 DEF Iterates
<1>7. \A n \in 0..rows : f[n] = IF n = 0 THEN a ELSE next(f[n - 1])
  <2> TAKE n \in 0..rows
  <2>1. CASE n = 0
    BY <2>1, <1>6
  <2>2. CASE n # 0
    <3>1. n \in 1..rows /\ n \in Nat /\ n - 1 \in 0..rows
      BY <2>2
    <3>2. f[n - 1] \in S /\ f[n] = g[<<n, f[n - 1]>>]
      BY <3>1, <1>6
    <3> QED BY <3>1, <3>2, <2>2, <1>4
  <2> QED BY <2>1, <2>2
<1>8. Is(f)
  BY <1>6, <1>7
<1>9. Is(after)
  <2> HIDE DEF Is
  <2> QED BY <1>8
<1>10. \A n \in 0..rows : after[n] = IF n = 0 THEN a ELSE next(after[n - 1])
  BY <1>9
<1>11. Workspace(c, pool, width, rows, rowsperchunk, align) = after[rows].call
  BY DEF Workspace, next, a
<1> HIDE DEF after
<1>12. \A n \in 0..rows : after[n] \in S
  <2> DEFINE T == {n \in 0..rows : after[n] \notin S}
  <2> SUFFICES ASSUME T # {} PROVE FALSE
    OBVIOUS
  <2>1. \A n \in T : n \in Nat /\ n \in 0..rows /\ after[n] \notin S
    OBVIOUS
  <2>2. \A n \in 0..rows : after[n] \notin S => n \in T
    OBVIOUS
  <2> HIDE DEF T
  <2>3. PICK m \in T : \A p \in T : m <= p
    BY <2>1, HasLeast
  <2>4. m # 0
    BY <2>1, <1>2, <1>10
  <2>5. m \in 1..rows /\ m - 1 \in 0..rows /\ m - 1 \notin T
    BY <2>1, <2>3, <2>4
  <2>6. after[m - 1] \in S /\ after[m] = next(after[m - 1])
    BY <2>2, <2>4, <2>5, <1>10, <2>1
  <2> QED BY <2>1, <2>6, <1>1
<1> QED BY <1>11, <1>12 DEF S

LEMMA Alloc2DGood ==
  ASSUME NEW c \in Good, NEW pool, NEW width \in Nat \ {0}, NEW rows \in Nat,
         NEW align \in 0..(ALIGN_SIZE - 1), width % ALIGN_SIZE = 0
  PROVE  Alloc2D(c, pool, width, rows, align) \in Good
<1> DEFINE most == (MAX_ALLOC_CHUNK - Header) \div width
           vector == alloc_small(c, pool, rows * Pointer, align)
           perchunk == Min({most, rows})
<1>1. MAX_ALLOC_CHUNK \in Nat /\ Header \in Nat /\ Pointer \in Nat
  BY SizeAssumption
<1>2. most \in Int
  <2>1. MAX_ALLOC_CHUNK - Header \in Int
    BY <1>1
  <2> QED BY <2>1, Division
<1>3. vector \in Good
  <2>1. rows * Pointer \in Nat
    BY <1>1
  <2> QED BY <2>1, AllocSmallGood
<1>4. perchunk = IF most <= rows THEN most ELSE rows
  <2> HIDE DEF most
  <2> QED BY <1>2, LesserIs
<1>5. Alloc2D(c, pool, width, rows, align) =
        IF most <= 0 THEN Failed(c, "width overflow")
        ELSE Workspace(vector, pool, width, rows, perchunk, align)
  BY DEF Alloc2D
<1> HIDE DEF most, vector, perchunk
<1>6. CASE most <= 0
  BY <1>5, <1>6, FailedGood DEF Errors
<1>7. CASE ~(most <= 0)
  <2>1. perchunk \in Nat
    BY <1>2, <1>4, <1>7
  <2> QED BY <2>1, <1>3, <1>5, <1>7, WorkspaceGood
<1> QED BY <1>6, <1>7


LEMMA SampleArrayGood ==
  ASSUME NEW c \in Good, NEW pool, NEW samplesperrow \in Nat \ {0}, NEW rows \in Nat,
         NEW align \in 0..(ALIGN_SIZE - 1)
  PROVE  alloc_sarray(c, pool, samplesperrow, rows, align) \in Good
<1> DEFINE b == 2 * ALIGN_SIZE
           width == round_up_pow2(samplesperrow, b)
           q == width \div b
<1>1. ALIGN_SIZE \in Nat \ {0} /\ b \in Nat \ {0}
  BY SizeAssumption
<1>2. width \in Nat \ {0} /\ width % b = 0
  <2> HIDE DEF b
  <2>1. width \in Nat /\ width >= samplesperrow /\ width % b = 0
    BY <1>1, RoundedUp
  <2> HIDE DEF width
  <2> QED BY <2>1
<1>3. width % ALIGN_SIZE = 0
  <2>1. q \in Int /\ width = b * q
    <3> HIDE DEF b, width
    <3> QED BY <1>1, <1>2, WholeQuotient
  <2> HIDE DEF q, width
  <2>2. width = (2 * q) * ALIGN_SIZE /\ 2 * q \in Int
    BY <2>1, <1>1
  <2> QED BY <2>2, <1>1, ProductMultiple
<1> HIDE DEF width
<1> QED BY <1>2, <1>3, Alloc2DGood DEF alloc_sarray, width

LEMMA BlockArrayGood ==
  ASSUME NEW c \in Good, NEW pool, NEW blocksperrow \in Nat \ {0}, NEW rows \in Nat,
         NEW align \in 0..(ALIGN_SIZE - 1)
  PROVE  alloc_barray(c, pool, blocksperrow, rows, align) \in Good
<1> DEFINE width == blocksperrow * ALIGN_SIZE
<1>1. ALIGN_SIZE \in Nat \ {0}
  BY SizeAssumption
<1>2. width % ALIGN_SIZE = 0
  BY <1>1, ProductMultiple
<1>3. width \in Nat \ {0}
  BY <1>1
<1> HIDE DEF width
<1> QED BY <1>2, <1>3, Alloc2DGood DEF alloc_barray, width

-----------------------------------------------------------------------------
(* Releasing *)

LEMMA FreedGood ==
  ASSUME NEW c \in Good, NEW pool \in Pool
  PROVE  /\ free_pool(c, pool) \in Good
         /\ free_pool(c, pool).mem.small_list = [c.mem.small_list EXCEPT ![pool] = <<>>]
         /\ free_pool(c, pool).mem.large_list = [c.mem.large_list EXCEPT ![pool] = <<>>]
<1> DEFINE m == c.mem
           small == m.small_list[pool]
           large == m.large_list[pool]
           freed == Sum(space_freed(large)) + Sum(space_freed(small))
           returned == Sum(Sizes(large)) + Sum(Sizes(small))
           after == free_pool(c, pool)
           middle == [small_list |-> [m.small_list EXCEPT ![pool] = <<>>],
                      large_list |-> m.large_list,
                      total_space_allocated |-> m.total_space_allocated]
           new == [small_list |-> [m.small_list EXCEPT ![pool] = <<>>],
                   large_list |-> [m.large_list EXCEPT ![pool] = <<>>],
                   total_space_allocated |-> m.total_space_allocated - freed]
<1>1. /\ m.total_space_allocated \in Int /\ c.heap = InLists(m) /\ c.heap <= m.total_space_allocated
      /\ m \in GoodMemory /\ c.heap \in Nat /\ c.exit \in Errors
      /\ m.small_list \in [Pool -> Seq(Fit)] /\ m.large_list \in [Pool -> Seq(Fit)]
  BY GoodParts
<1>2. c = [mem |-> m, heap |-> c.heap, exit |-> c.exit]
  BY GoodParts
<1>3. m = [small_list |-> m.small_list, large_list |-> m.large_list,
           total_space_allocated |-> m.total_space_allocated]
  BY GoodParts
<1>4. small \in Seq(Fit) /\ large \in Seq(Fit)
  BY <1>1
<1> HIDE DEF m
<1>5. /\ freed \in Nat /\ returned \in Nat /\ freed <= returned
      /\ Sum(Sizes(small)) \in Nat /\ Sum(Sizes(large)) \in Nat
      /\ returned = Sum(Sizes(large)) + Sum(Sizes(small))
  <2>1. /\ Sum(Sizes(small)) \in Nat /\ Sum(space_freed(small)) \in Nat
        /\ Sum(space_freed(small)) <= Sum(Sizes(small))
    <3> HIDE DEF small
    <3> QED BY <1>4, SizesAre
  <2>2. /\ Sum(Sizes(large)) \in Nat /\ Sum(space_freed(large)) \in Nat
        /\ Sum(space_freed(large)) <= Sum(Sizes(large))
    <3> HIDE DEF large
    <3> QED BY <1>4, SizesAre
  <2> QED BY <2>1, <2>2
<1>6. after = [c EXCEPT !.mem.small_list[pool] = <<>>, !.mem.large_list[pool] = <<>>,
                        !.mem.total_space_allocated = @ - freed, !.heap = @ - returned]
  BY DEF free_pool, WithoutPool, m
<1> HIDE DEF freed, returned, after
<1>7. after = [mem |-> new, heap |-> c.heap - returned, exit |-> c.exit]
  <2> DEFINE changed == [m EXCEPT !.small_list[pool] = <<>>, !.large_list[pool] = <<>>,
                                  !.total_space_allocated = @ - freed]
  <2>1. after = [mem |-> changed, heap |-> c.heap - returned, exit |-> c.exit]
    <3> DEFINE m1 == [m EXCEPT !.small_list[pool] = <<>>]
               m2 == [m1 EXCEPT !.large_list[pool] = <<>>]
               c1 == [c EXCEPT !.mem.small_list[pool] = <<>>]
               c2 == [c1 EXCEPT !.mem.large_list[pool] = <<>>]
               c3 == [c2 EXCEPT !.mem.total_space_allocated = @ - freed]
    <3>1. c1 = [mem |-> m1, heap |-> c.heap, exit |-> c.exit]
      BY ONLY <1>2
    <3>2. c2 = [mem |-> m2, heap |-> c.heap, exit |-> c.exit]
      <4> HIDE DEF c1, m1
      <4> QED BY ONLY <3>1 DEF c2, m2
    <3>3. c3 = [mem |-> changed, heap |-> c.heap, exit |-> c.exit]
      <4>1. changed = [m2 EXCEPT !.total_space_allocated = @ - freed]
        BY DEF changed, m1, m2
      <4> HIDE DEF c2, m2, changed
      <4> QED BY ONLY <3>2, <4>1 DEF c3
    <3>4. after = [c3 EXCEPT !.heap = @ - returned]
      BY <1>6 DEF c1, c2, c3
    <3> HIDE DEF c3, changed
    <3> QED BY ONLY <3>3, <3>4
  <2>2. changed = new
    <3> DEFINE s1 == [m.small_list EXCEPT ![pool] = <<>>]
               l1 == [m.large_list EXCEPT ![pool] = <<>>]
               m1 == [m EXCEPT !.small_list[pool] = <<>>]
               m2 == [m1 EXCEPT !.large_list[pool] = <<>>]
    <3>1. m1 = [small_list |-> s1, large_list |-> m.large_list,
                total_space_allocated |-> m.total_space_allocated]
      BY ONLY <1>3
    <3>2. m2 = [small_list |-> s1, large_list |-> l1,
                total_space_allocated |-> m.total_space_allocated]
      <4> HIDE DEF m1, s1
      <4> QED BY ONLY <3>1 DEF m2, l1
    <3>3. changed = [m2 EXCEPT !.total_space_allocated = @ - freed]
      BY DEF changed, m1, m2
    <3> HIDE DEF m2, s1, l1, changed
    <3>4. changed = [small_list |-> s1, large_list |-> l1,
                     total_space_allocated |-> m.total_space_allocated - freed]
      BY ONLY <3>2, <3>3
    <3> QED BY <3>4 DEF s1, l1
  <2> HIDE DEF changed, new
  <2> QED BY <2>1, <2>2
<1>8. <<>> \in Seq(Fit) /\ Sum(Sizes(<<>>)) = 0
  <2>1. Sizes(<<>>) = <<>>
    BY DEF Sizes
  <2> QED BY <2>1, SumEmpty
<1>9. middle \in GoodMemory /\ new \in GoodMemory
  BY <1>1, <1>5, <1>8 DEF GoodMemory
<1>10. InLists(middle) = InLists(m) - Sum(Sizes(small))
  <2>1. middle.small_list = [m.small_list EXCEPT ![pool] = <<>>] /\ middle.large_list = m.large_list
    OBVIOUS
  <2> HIDE DEF middle
  <2>2. middle.small_list = [m.small_list EXCEPT ![pool] = <<>>] /\ middle.large_list = m.large_list
          => InLists(middle) = InLists(m) - Sum(Sizes(m.small_list[pool])) + Sum(Sizes(<<>>))
    <3>1. m \in GoodMemory /\ middle \in GoodMemory /\ pool \in Pool /\ <<>> \in Seq(Fit)
      BY <1>1, <1>8, <1>9
    <3> QED BY ONLY <3>1, ListReplaced, Zenon
  <2> QED BY <2>1, <2>2, <1>1, <1>5, <1>8
<1>11. InLists(new) = InLists(middle) - Sum(Sizes(large))
  <2>1. /\ new.large_list = [middle.large_list EXCEPT ![pool] = <<>>]
        /\ new.small_list = middle.small_list /\ middle.large_list[pool] = large
    OBVIOUS
  <2> HIDE DEF middle, new
  <2>2. new.large_list = [middle.large_list EXCEPT ![pool] = <<>>] /\ new.small_list = middle.small_list
          => InLists(new) = InLists(middle) - Sum(Sizes(middle.large_list[pool])) + Sum(Sizes(<<>>))
    BY <1>8, <1>9, ListReplaced, Zenon
  <2>3. InLists(middle) \in Int
    BY <1>1, <1>5, <1>10
  <2> QED BY <2>1, <2>2, <2>3, <1>5, <1>8
<1>12. InLists(new) \in Nat
  <2> HIDE DEF new
  <2>1. /\ Manager \in Nat
        /\ \A p \in Pool : Sum(Sizes(new.small_list[p])) \in Nat /\ Sum(Sizes(new.large_list[p])) \in Nat
        /\ InLists(new) = Manager + (Sum(Sizes(new.small_list[0])) + Sum(Sizes(new.large_list[0])))
                                  + (Sum(Sizes(new.small_list[1])) + Sum(Sizes(new.large_list[1])))
    BY <1>9, InListsIs, SizeAssumption
  <2>2. 0 \in Pool /\ 1 \in Pool
    BY DEF Pool, JPOOL_PERMANENT, JPOOL_IMAGE
  <2> QED BY <2>1, <2>2
<1>13. c.heap - returned = InLists(new) /\ c.heap - returned <= new.total_space_allocated
  BY <1>1, <1>5, <1>10, <1>11
<1>14. after \in Good
  <2> HIDE DEF new
  <2> QED BY <1>1, <1>7, <1>9, <1>12, <1>13 DEF Good
<1> QED BY <1>7, <1>14 DEF after, m

LEMMA DestroyedAll ==
  ASSUME NEW c \in Good
  PROVE  self_destruct(c).mem = NoManager /\ self_destruct(c).heap = 0
         /\ self_destruct(c).exit \in Errors
<1> DEFINE once == free_pool(c, JPOOL_IMAGE)
           rest == free_pool(once, JPOOL_PERMANENT)
<1>1. JPOOL_IMAGE \in Pool /\ JPOOL_PERMANENT \in Pool /\ Pool = {0, 1}
  BY DEF Pool, JPOOL_PERMANENT, JPOOL_IMAGE
<1>2. /\ once \in Good
      /\ once.mem.small_list = [c.mem.small_list EXCEPT ![1] = <<>>]
      /\ once.mem.large_list = [c.mem.large_list EXCEPT ![1] = <<>>]
  BY <1>1, FreedGood DEF JPOOL_IMAGE
<1>3. /\ once.mem.small_list[1] = <<>> /\ once.mem.large_list[1] = <<>>
      /\ once.mem.small_list \in [Pool -> Seq(Fit)] /\ once.mem.large_list \in [Pool -> Seq(Fit)]
  <2>1. c.mem.small_list \in [Pool -> Seq(Fit)] /\ c.mem.large_list \in [Pool -> Seq(Fit)]
    BY GoodParts
  <2>2. once.mem.small_list \in [Pool -> Seq(Fit)] /\ once.mem.large_list \in [Pool -> Seq(Fit)]
    BY <1>2, GoodParts
  <2> HIDE DEF once
  <2> QED BY <1>1, <1>2, <2>1, <2>2
<1> HIDE DEF once
<1>4. /\ rest \in Good
      /\ rest.mem.small_list = [once.mem.small_list EXCEPT ![0] = <<>>]
      /\ rest.mem.large_list = [once.mem.large_list EXCEPT ![0] = <<>>]
  BY <1>1, <1>2, FreedGood DEF JPOOL_PERMANENT
<1>5. self_destruct(c) = [rest EXCEPT !.mem = NoManager, !.heap = @ - Manager]
  BY DEF self_destruct, once
<1> HIDE DEF rest
<1>6. \A pool \in {0, 1} : rest.mem.small_list[pool] = <<>> /\ rest.mem.large_list[pool] = <<>>
  BY <1>1, <1>3, <1>4
<1>7. Sum(Sizes(<<>>)) = 0
  <2>1. Sizes(<<>>) = <<>>
    BY DEF Sizes
  <2> QED BY <2>1, SumEmpty
<1>8. rest.heap = Manager /\ Manager \in Nat
  <2>1. rest.mem \in GoodMemory /\ rest.heap = InLists(rest.mem) /\ Manager \in Nat
    BY <1>4, GoodParts, SizeAssumption
  <2>2. InLists(rest.mem)
          = Manager + (Sum(Sizes(rest.mem.small_list[0])) + Sum(Sizes(rest.mem.large_list[0])))
                    + (Sum(Sizes(rest.mem.small_list[1])) + Sum(Sizes(rest.mem.large_list[1])))
    BY <2>1, InListsIs
  <2>3. InLists(rest.mem) = Manager + (Sum(Sizes(<<>>)) + Sum(Sizes(<<>>)))
                                    + (Sum(Sizes(<<>>)) + Sum(Sizes(<<>>)))
    BY <2>2, <1>6
  <2> QED BY <2>1, <2>3, <1>7
<1>9. rest = [mem |-> rest.mem, heap |-> rest.heap, exit |-> rest.exit] /\ rest.exit \in Errors
  BY <1>4, GoodParts
<1>10. self_destruct(c) = [mem |-> NoManager, heap |-> rest.heap - Manager, exit |-> rest.exit]
  <2>1. rest = [mem |-> rest.mem, heap |-> rest.heap, exit |-> rest.exit]
    BY <1>9
  <2> QED BY ONLY <2>1, <1>5
<1> QED BY <1>8, <1>9, <1>10

-----------------------------------------------------------------------------
(* The pools between calls: the inductive invariant.                       *)

PoolsInv ==
  /\ limit \in Limits /\ exit \in Errors /\ heap \in Nat
  /\ IF mem = NoManager THEN heap = 0 ELSE Call(mem, heap) \in Good

LEMMA PoolsInvStart == PoolInit => PoolsInv
<1> SUFFICES ASSUME PoolInit PROVE PoolsInv
  OBVIOUS
<1>1. mem = NoManager /\ limit \in Limits /\ heap = 0 /\ heap \in Nat /\ exit \in Errors
  BY DEF PoolInit, Errors
<1> QED BY <1>1 DEF PoolsInv

LEMMA ReturnsGood ==
  ASSUME PoolsInv, NEW c \in Good, Returns(c)
  PROVE  PoolsInv'
<1>1. c.mem \in GoodMemory /\ c.heap \in Nat /\ c.exit \in Errors
  BY GoodParts
<1>2. c.mem # NoManager
  BY <1>1, InListsIs
<1>3. Call(c.mem, c.heap) \in Good
  <2>1. Call(c.mem, c.heap) = [mem |-> c.mem, heap |-> c.heap, exit |-> ""]
    BY DEF Call
  <2>2. c.heap = InLists(c.mem) /\ c.heap <= c.mem.total_space_allocated
    BY GoodParts
  <2>3. "" \in Errors
    BY DEF Errors
  <2> QED BY <2>1, <2>2, <2>3, <1>1, MakeGood
<1>4. mem' = c.mem /\ heap' = c.heap /\ exit' = c.exit /\ limit' = limit
  BY DEF Returns
<1>5. Call(mem', heap') \in Good
  BY <1>3, <1>4
<1> QED BY <1>1, <1>2, <1>4, <1>5 DEF PoolsInv, Call


LEMMA PoolsInvStep == PoolsInv /\ [PoolNext]_poolVars => PoolsInv'
<1> SUFFICES ASSUME PoolsInv, [PoolNext]_poolVars PROVE PoolsInv'
  OBVIOUS
<1>1. limit \in Limits /\ exit \in Errors /\ heap \in Nat
  BY DEF PoolsInv
<1>2. ASSUME mem # NoManager PROVE Call(mem, heap) \in Good
  BY <1>2 DEF PoolsInv
<1>3. ASSUME UNCHANGED poolVars PROVE PoolsInv'
  BY <1>3 DEF PoolsInv, poolVars, Call
<1>4. ASSUME Create PROVE PoolsInv'
  <2> DEFINE c == Call(NoManager, heap)
  <2>1. mem = NoManager /\ heap = 0 /\ Returns(jinit_memory_mgr(c))
    BY <1>4 DEF PoolsInv, Create
  <2>2. c = [mem |-> NoManager, heap |-> heap, exit |-> ""]
    BY DEF Call
  <2> HIDE DEF c
  <2>3. CASE ~Gives(c, Manager)
    <3>1. jinit_memory_mgr(c) = Failed(c, "out of memory")
      BY <2>3 DEF jinit_memory_mgr
    <3>2. /\ jinit_memory_mgr(c).mem = NoManager /\ jinit_memory_mgr(c).heap = 0
          /\ jinit_memory_mgr(c).exit = "out of memory"
      BY <2>1, <2>2, <3>1 DEF Failed
    <3> QED BY <2>1, <3>2, <1>1 DEF Returns, PoolsInv, Errors
  <2>4. CASE Gives(c, Manager)
    <3> DEFINE m == [small_list |-> NoLists, large_list |-> NoLists,
                     total_space_allocated |-> Manager]
               new == [mem |-> m, heap |-> heap + Manager, exit |-> ""]
    <3>1. jinit_memory_mgr(c) = [c EXCEPT !.heap = @ + Manager, !.mem = m]
      BY <2>4 DEF jinit_memory_mgr
    <3>2. jinit_memory_mgr(c) = new
      <4> HIDE DEF m
      <4> QED BY ONLY <2>2, <3>1
    <3>3. Manager \in Nat
      BY SizeAssumption
    <3>4. m \in GoodMemory
      <4>1. <<>> \in Seq(Fit)
        OBVIOUS
      <4>2. NoLists \in [Pool -> Seq(Fit)]
        BY <4>1 DEF NoLists
      <4> QED BY <4>2, <3>3 DEF GoodMemory
    <3>5. InLists(m) = Manager
      <4>1. Sizes(<<>>) = <<>>
        BY DEF Sizes
      <4>2. Sum(Sizes(<<>>)) = 0
        BY <4>1, SumEmpty
      <4>3. \A pool \in {0, 1} : m.small_list[pool] = <<>> /\ m.large_list[pool] = <<>>
        BY DEF NoLists, Pool, JPOOL_PERMANENT, JPOOL_IMAGE
      <4>4. m.small_list[0] = <<>> /\ m.small_list[1] = <<>> /\ m.large_list[0] = <<>> /\ m.large_list[1] = <<>>
        BY <4>3
      <4> HIDE DEF m
      <4>5. InLists(m) = Manager + (Sum(Sizes(m.small_list[0])) + Sum(Sizes(m.large_list[0])))
                                 + (Sum(Sizes(m.small_list[1])) + Sum(Sizes(m.large_list[1])))
        BY <3>4, InListsIs
      <4> QED BY <4>2, <4>4, <4>5, <3>3
    <3>6. m.total_space_allocated = Manager /\ "" \in Errors
      BY DEF Errors
    <3> HIDE DEF m
    <3>7. new \in Good
      <4> DEFINE h == heap + Manager
      <4>1. h \in Nat /\ h = InLists(m) /\ h <= m.total_space_allocated
        <5>1. h = Manager
          BY <2>1, <3>3
        <5> HIDE DEF h
        <5>2. Manager <= Manager
          BY ONLY <3>3
        <5>3. m.total_space_allocated = Manager
          BY <3>6
        <5> QED BY ONLY <5>1, <5>2, <5>3, <3>3, <3>5
      <4> HIDE DEF h
      <4>2. [mem |-> m, heap |-> h, exit |-> ""] \in Good
        BY <3>4, <3>6, <4>1, MakeGood
      <4> QED BY <4>2 DEF h
    <3> HIDE DEF new
    <3> QED BY <2>1, <3>2, <3>7, ReturnsGood
  <2> QED BY <2>3, <2>4
<1>5. ASSUME Destroy PROVE PoolsInv'
  <2>1. Call(mem, heap) \in Good /\ Returns(self_destruct(Call(mem, heap)))
    BY <1>2, <1>5 DEF Destroy
  <2>2. /\ self_destruct(Call(mem, heap)).mem = NoManager /\ self_destruct(Call(mem, heap)).heap = 0
        /\ self_destruct(Call(mem, heap)).exit \in Errors
    BY <2>1, DestroyedAll
  <2> QED BY <2>1, <2>2, <1>1 DEF Returns, PoolsInv
<1>6. ASSUME Free PROVE PoolsInv'
  <2>1. PICK pool \in Pool : Returns(free_pool(Call(mem, heap), pool))
    BY <1>6 DEF Free
  <2>2. Call(mem, heap) \in Good
    BY <1>2, <1>6 DEF Free
  <2>3. free_pool(Call(mem, heap), pool) \in Good
    BY <2>2, FreedGood
  <2> QED BY <2>1, <2>3, ReturnsGood
<1>7. ASSUME Allocate PROVE PoolsInv'
  <2> DEFINE c == Call(mem, heap)
  <2>1. c \in Good
    BY <1>2, <1>7 DEF Allocate
  <2>2. PICK pool \in Pool, align \in 0..(ALIGN_SIZE - 1) :
          \/ \E n \in ObjectSizes : Returns(alloc_small(c, pool, n, align))
          \/ \E n \in ObjectSizes : Returns(alloc_large(c, pool, n, align))
          \/ \E w \in Widths, h \in Heights :
               \/ Returns(alloc_sarray(c, pool, w, h, align))
               \/ Returns(alloc_barray(c, pool, w, h, align))
    BY <1>7 DEF Allocate
  <2> HIDE DEF c
  <2>3. /\ \A n \in ObjectSizes : n \in Nat
        /\ \A w \in Widths : w \in Nat \ {0}
        /\ \A h \in Heights : h \in Nat
    BY RequestAssumption
  <2>4. ASSUME NEW n \in ObjectSizes, Returns(alloc_small(c, pool, n, align)) PROVE PoolsInv'
    <3>1. alloc_small(c, pool, n, align) \in Good
      BY <2>1, <2>3, AllocSmallGood
    <3> QED BY <3>1, <2>4, ReturnsGood
  <2>5. ASSUME NEW n \in ObjectSizes, Returns(alloc_large(c, pool, n, align)) PROVE PoolsInv'
    <3>1. n \in Nat /\ 1 \in Nat /\ ~(1 > 1)
      BY <2>3
    <3>2. AllocLarge(c, pool, 1, n, align) \in Good
      BY <2>1, <3>1, AllocLargeGood
    <3> QED BY <3>2, <2>5, ReturnsGood DEF alloc_large
  <2>6. ASSUME NEW w \in Widths, NEW h \in Heights, Returns(alloc_sarray(c, pool, w, h, align))
        PROVE  PoolsInv'
    <3>1. alloc_sarray(c, pool, w, h, align) \in Good
      BY <2>1, <2>3, SampleArrayGood
    <3> QED BY <3>1, <2>6, ReturnsGood
  <2>7. ASSUME NEW w \in Widths, NEW h \in Heights, Returns(alloc_barray(c, pool, w, h, align))
        PROVE  PoolsInv'
    <3>1. alloc_barray(c, pool, w, h, align) \in Good
      BY <2>1, <2>3, BlockArrayGood
    <3> QED BY <3>1, <2>7, ReturnsGood
  <2> QED BY <2>2, <2>4, <2>5, <2>6, <2>7
<1>8. ASSUME Pressure PROVE PoolsInv'
  <2>1. limit' \in Limits /\ UNCHANGED <<mem, heap, exit>>
    BY <1>8 DEF Pressure
  <2> QED BY <2>1 DEF PoolsInv, Call
<1> QED BY <1>3, <1>4, <1>5, <1>6, <1>7, <1>8 DEF PoolNext

LEMMA PoolsInvGives == PoolsInv => ObjectsFit /\ PoolsBalance
<1> SUFFICES ASSUME PoolsInv PROVE ObjectsFit /\ PoolsBalance
  OBVIOUS
<1>1. limit \in Limits /\ exit \in Errors /\ heap \in Nat
  BY DEF PoolsInv
<1>2. CASE mem = NoManager
  <2>1. heap = 0
    BY <1>2 DEF PoolsInv
  <2>2. PoolsBalance
    BY <2>1, <1>1, <1>2 DEF PoolsBalance, PoolTypeOK, NothingLost, AccountCovers, InLists, Errors
  <2>3. ObjectsFit
    BY <1>2 DEF ObjectsFit, Chunks
  <2> QED BY <2>2, <2>3
<1>3. CASE mem # NoManager
  <2>1. Call(mem, heap) \in Good /\ Call(mem, heap).mem = mem /\ Call(mem, heap).heap = heap
    BY <1>3 DEF PoolsInv, Call
  <2>2. mem \in GoodMemory /\ heap = InLists(mem) /\ heap <= mem.total_space_allocated
    BY <2>1, GoodParts
  <2>3. mem.total_space_allocated \in Int
    BY <2>2 DEF GoodMemory
  <2>4. PoolsBalance
    <3>1. mem \in Memory
      <4>1. Seq(Fit) \subseteq Seq(Chunk)
        <5>1. Fit \subseteq Chunk
          BY DEF Fit
        <5> QED BY <5>1
      <4>2. [Pool -> Seq(Fit)] \subseteq [Pool -> Seq(Chunk)]
        BY <4>1
      <4> QED BY <4>2, <2>2 DEF GoodMemory, Memory, Lists
    <3> QED BY <3>1, <2>2, <2>3, <1>1, <1>3 DEF PoolsBalance, PoolTypeOK, NothingLost, AccountCovers, Errors
  <2>5. \A chunk \in Chunks : chunk \in Fit
    <3> SUFFICES ASSUME NEW chunk \in Chunks PROVE chunk \in Fit
      OBVIOUS
    <3>1. PICK pool \in Pool : chunk \in Range(mem.small_list[pool]) \cup Range(mem.large_list[pool])
      BY <1>3 DEF Chunks
    <3>2. mem.small_list[pool] \in Seq(Fit) /\ mem.large_list[pool] \in Seq(Fit)
      BY <2>2, InListsIs
    <3> QED BY <3>1, <3>2 DEF Range
  <2>6. ObjectsFit
    <3> SUFFICES ASSUME NEW chunk \in Chunks, NEW o \in chunk.objects
        PROVE  /\ (chunk.align + o.off) % ALIGN_SIZE = 0
               /\ o.off >= Header /\ o.off + o.size <= chunk.size
               /\ \A p \in chunk.objects \ {o} : o.off + o.size <= p.off \/ p.off + p.size <= o.off
      BY DEF ObjectsFit
    <3>1. /\ chunk \in Fit /\ Placed(chunk, o) /\ \A p \in chunk.objects : Apart(o, p)
          /\ chunk.size = Header + chunk.bytes_used + chunk.bytes_left + ALIGN_SIZE - 1
          /\ chunk.align \in 0..(ALIGN_SIZE - 1) /\ chunk.bytes_used \in Nat /\ chunk.bytes_left \in Nat
          /\ o.off \in Nat /\ o.size \in Nat
      BY <2>5 DEF Fit, Chunk, Object
    <3>2. /\ DataOffset(chunk) \in Nat /\ DataOffset(chunk) >= Header
          /\ DataOffset(chunk) <= Header + ALIGN_SIZE - 1
          /\ ALIGN_SIZE \in Nat \ {0} /\ Header \in Nat
      BY <3>1, DataOffsetIs, SizeAssumption
    <3>3. o.off >= Header /\ o.off + o.size <= chunk.size /\ (chunk.align + o.off) % ALIGN_SIZE = 0
      BY <3>1, <3>2 DEF Placed
    <3> QED BY <3>1, <3>3 DEF Apart
  <2> QED BY <2>4, <2>6
<1> QED BY <1>2, <1>3

THEOREM ObjectsFitHolds == PoolSpec => []ObjectsFit
<1>1. PoolSpec => []PoolsInv
  BY PoolsInvStart, PoolsInvStep, PTL DEF PoolSpec
<1> QED BY <1>1, PoolsInvGives, PTL

THEOREM PoolsBalanceHolds == PoolSpec => []PoolsBalance
<1>1. PoolSpec => []PoolsInv
  BY PoolsInvStart, PoolsInvStep, PTL DEF PoolSpec
<1> QED BY <1>1, PoolsInvGives, PTL

-----------------------------------------------------------------------------
(* The virtual arrays. *)

Slot == {zero, junk} \cup UNION {{v[k] : k \in DOMAIN v} : v \in Value}
Samples(n) == [0..(n - 1) -> Slot]
Buffer == {<<>>} \cup UNION {[0..(n - 1) -> Samples(m)] : n \in Nat, m \in Nat}

Control ==
  [rows_in_array : Nat \ {0}, width : Nat \ {0}, maxaccess : Nat \ {0},
   pre_zero : BOOLEAN, kind : {"s", "b"}, rows_in_mem : Nat, rowsperchunk : Nat,
   cur_start_row : Nat, first_undef_row : Nat, dirty : BOOLEAN, b_s_open : BOOLEAN,
   mem_buffer : Buffer]

(* The row r of the control block p with the backing store s.              *)
RowOf(p, s, r) ==
  IF p.rows_in_mem = 0 \/ r >= p.first_undef_row THEN [k \in 0..(p.width - 1) |-> junk]
  ELSE IF r \in p.cur_start_row..(p.cur_start_row + p.rows_in_mem - 1)
  THEN Line(p, p.mem_buffer[r - p.cur_start_row])
  ELSE s[r]

(* The store has what the window has, as far as it is defined.             *)
Clean(p, s) == p.b_s_open => \A r \in IoRows(p) : s[r] = p.mem_buffer[r - p.cur_start_row]

(* An array is as wide as some request.                                    *)
Fits(p) == \E shape \in Shapes : shape.width = p.width /\ shape.kind = p.kind

(* An array is as its request made it, until it is realized.               *)
Unrealized(p) ==
  /\ p.rows_in_mem = 0 /\ p.maxaccess <= p.rows_in_array
  /\ p.cur_start_row = 0 /\ p.first_undef_row = 0
  /\ ~p.dirty /\ ~p.b_s_open

(* A window is large enough for any strip; without a store it is all there *)
(* is.                                                                     *)
Sized(p, s) ==
  /\ p.rows_in_mem > 0 /\ p.rowsperchunk > 0
  /\ p.mem_buffer \in [0..(p.rows_in_mem - 1) -> Samples(Stride(p))]
  /\ p.maxaccess <= p.rows_in_mem
  /\ p.first_undef_row <= p.rows_in_array
  /\ ~p.b_s_open => p.rows_in_mem = p.rows_in_array /\ p.cur_start_row = 0
  /\ p.b_s_open => s \in [0..(p.rows_in_array - 1) -> Samples(p.width)]

(* What is called defined is; and what is only in memory is dirty.         *)
Held(p, s) ==
  /\ \A r \in 0..(p.first_undef_row - 1), k \in 0..(p.width - 1) : RowOf(p, s, r)[k] # junk
  /\ p.dirty \/ Clean(p, s)

ArraysInv ==
  /\ arrays \in [Array -> Control \cup {None}]
  /\ DOMAIN store = Array
  /\ \A a \in Requested :
       /\ Fits(arrays[a])
       /\ \/ Unrealized(arrays[a])
          \/ /\ Sized(arrays[a], store[a])
             /\ Exact(arrays[a]) => Held(arrays[a], store[a])

VAInv ==
  /\ ArraysInv
  /\ \A a \in Array \ Requested : StripOf(a) = <<>>
  /\ refused \in {"", "bad access", "no backing store"}
  /\ \A a \in Requested : Exact(arrays[a]) => NoJunk(StripOf(a))

-----------------------------------------------------------------------------

(* How many rows are in memory. *)

LEMMA MaxOfTwo ==
  ASSUME NEW x \in Int, NEW y \in Int
  PROVE  Max({x, y}) = IF x >= y THEN x ELSE y
<1> DEFINE m == IF x >= y THEN x ELSE y
<1>1. m \in {x, y} /\ \A z \in {x, y} : m >= z
  OBVIOUS
<1>2. \A v \in {x, y} : (\A z \in {x, y} : v >= z) => v = m
  OBVIOUS
<1>3. Max({x, y}) \in {x, y} /\ \A z \in {x, y} : Max({x, y}) >= z
  BY <1>1 DEF Max
<1> QED BY <1>2, <1>3

LEMMA TotalPositive ==
  ASSUME NEW space, NEW a \in DOMAIN space, IsFiniteSet(DOMAIN space),
         \A b \in DOMAIN space : space[b] \in Nat \ {0}
  PROVE  Total(space) \in Nat \ {0}
<1> DEFINE units == [b \in DOMAIN space |-> {b} \X (1..space[b])]
           all == {{b} \X (1..space[b]) : b \in DOMAIN space}
<1>1. units \in Surjection(DOMAIN space, all)
  BY DEF Surjection
<1>2. IsFiniteSet(all)
  BY <1>1, FS_Surjection
<1>3. ASSUME NEW b \in DOMAIN space PROVE IsFiniteSet({b} \X (1..space[b]))
  <2>1. IsFiniteSet({b})
    BY FS_Singleton
  <2>2. IsFiniteSet(1..space[b])
    BY FS_Interval
  <2> QED BY <2>1, <2>2, FS_Product
<1>4. IsFiniteSet(UNION all)
  BY <1>2, <1>3, FS_UNION
<1>5. UNION all # {}
  <2>1. <<a, 1>> \in {a} \X (1..space[a])
    OBVIOUS
  <2> QED BY <2>1
<1>6. Cardinality(UNION all) \in Nat
  BY <1>4, FS_CardinalityType
<1>7. Cardinality(UNION all) # 0
  BY <1>4, <1>5, FS_EmptySet
<1> QED BY <1>6, <1>7 DEF Total

LEMMA MinHeights ==
  ASSUME ArraysInv, Waiting # {}, NEW avail_mem \in Nat
  PROVE  MaxMinHeights(avail_mem) \in Nat \ {0}
<1>1. PICK a \in Waiting : TRUE
  OBVIOUS
<1>2. IsFiniteSet(Waiting)
  BY ShapeAssumption, FS_Subset DEF Waiting, Requested
<1>3. ASSUME NEW b \in Waiting PROVE MinSpace(b) \in Nat \ {0}
  <2>1. arrays[b] \in Control
    BY DEF Waiting, Requested, ArraysInv
  <2>2. arrays[b].maxaccess \in Nat \ {0} /\ arrays[b].width \in Nat \ {0}
    BY <2>1 DEF Control
  <2> QED BY <2>2 DEF MinSpace
<1>4. space_per_minheight \in Nat \ {0}
  <2> DEFINE space == [b \in Waiting |-> MinSpace(b)]
  <2>1. DOMAIN space = Waiting /\ \A b \in DOMAIN space : space[b] \in Nat \ {0}
    BY <1>3
  <2> HIDE DEF space
  <2>2. Total(space) \in Nat \ {0}
    BY <1>1, <1>2, <2>1, TotalPositive
  <2> QED BY <2>2 DEF space, space_per_minheight
<1>5. avail_mem \div space_per_minheight \in Int
  BY <1>4
<1> QED BY <1>5, MaxOfTwo DEF MaxMinHeights, Huge

LEMMA WindowHeights ==
  ASSUME NEW rows \in Nat \ {0}, NEW access \in Nat \ {0}, NEW m \in Nat \ {0},
         access <= rows
  PROVE  /\ m * access \in Nat /\ m * access >= access
         /\ ~((rows - 1) \div access + 1 <= m) => m * access < rows
<1>1. m * access \in Nat /\ m * access >= access
  OBVIOUS
<1>2. ASSUME ~((rows - 1) \div access + 1 <= m) PROVE m * access < rows
  <2> DEFINE q == (rows - 1) \div access
  <2>1. q \in Nat /\ q * access <= rows - 1
    OBVIOUS
  <2>2. m <= q
    BY <1>2, <2>1
  <2> HIDE DEF q
  <2>3. m * access <= q * access
    BY <2>1, <2>2
  <2> QED BY <1>1, <2>1, <2>3
<1> QED BY <1>1, <1>2

-----------------------------------------------------------------------------
(* Where samples are. *)

LEMMA StrideIs ==
  ASSUME NEW p \in Control
  PROVE  Stride(p) \in Nat \ {0} /\ Stride(p) >= p.width
<1>1. p.width \in Nat \ {0} /\ p.kind \in {"s", "b"}
  BY DEF Control
<1> QED BY <1>1, RoundedUp, ChunkAssumption DEF Stride

(* A sample of a chunk stays in the chunk, and where the rows are equally  *)
(* long on both sides it stays where it is.                                *)
LEMMA PlaceIs ==
  ASSUME NEW p, p.rowsperchunk \in Nat \ {0}, NEW i \in Nat, NEW from \in Nat \ {0},
         NEW to \in Nat \ {0}, NEW k \in 0..(from - 1)
  PROVE  /\ Place(p, i, k, from, to).sample \in 0..(to - 1)
         /\ Place(p, i, k, from, to).row \in Nat
         /\ from <= to => Place(p, i, k, from, to).row \in 0..i
         /\ from = to => Place(p, i, k, from, to) = [row |-> i, sample |-> k]
         /\ i < ChunkStart(p, i) + p.rowsperchunk
<1> DEFINE j == i % p.rowsperchunk
           n == j * from + k
<1>1. j \in Nat /\ j < p.rowsperchunk /\ ChunkStart(p, i) \in Nat /\ ChunkStart(p, i) = i - j
  <2>1. /\ i \div p.rowsperchunk \in Nat /\ j \in 0..(p.rowsperchunk - 1)
        /\ i = p.rowsperchunk * (i \div p.rowsperchunk) + j
    <3>1. i \in Int /\ p.rowsperchunk \in Nat \ {0}
      OBVIOUS
    <3> QED BY <3>1, Division, Zenon
  <2> DEFINE q == i \div p.rowsperchunk
  <2>2. ChunkStart(p, i) = i - j
    BY DEF ChunkStart
  <2> HIDE DEF q, j
  <2>3. p.rowsperchunk * q \in Nat
    BY <2>1 DEF q
  <2>4. i = p.rowsperchunk * q + j
    BY <2>1 DEF q
  <2> QED BY <2>1, <2>2, <2>3, <2>4
<1>2. /\ Place(p, i, k, from, to).row = ChunkStart(p, i) + n \div to
      /\ Place(p, i, k, from, to).sample = n % to
      /\ Place(p, i, k, from, to) = [row |-> ChunkStart(p, i) + n \div to, sample |-> n % to]
  <2>1. i - ChunkStart(p, i) = j
    BY <1>1
  <2> QED BY <2>1 DEF Place
<1> HIDE DEF j
<1>3. n \in Nat /\ n < (j + 1) * from /\ j * from <= n
  <2>1. j * from \in Nat /\ (j + 1) * from = j * from + from
    BY <1>1
  <2> QED BY <2>1
<1>4. n % to \in 0..(to - 1) /\ n \div to \in Nat /\ n = to * (n \div to) + (n % to)
  <2>1. n \in Int /\ to \in Nat \ {0}
    BY <1>3
  <2> HIDE DEF n
  <2> QED BY <1>3, <2>1, Division, Zenon
<1>5. ASSUME from <= to PROVE n \div to <= j
  <2> DEFINE q == n \div to
  <2>1. q \in Nat /\ to * q <= n
    BY <1>3, FloorIs
  <2> HIDE DEF n, q
  <2>2. (j + 1) * from <= (j + 1) * to
    <3>1. j + 1 \in Nat \ {0}
      BY <1>1
    <3>2. from * (j + 1) <= to * (j + 1)
      BY <1>5, <3>1, TimesLess
    <3> QED BY <3>1, <3>2, Associate
  <2>3. q * to < (j + 1) * to
    <3>1. q * to = to * q /\ q * to \in Int /\ (j + 1) * to \in Int /\ (j + 1) * from \in Int
      BY <1>1, <2>1
    <3> QED BY <1>3, <2>1, <2>2, <3>1
  <2>4. q < j + 1
    BY <1>1, <2>1, <2>3, TimesLess
  <2> QED BY <1>1, <2>1, <2>4 DEF q
<1>6. ASSUME from = to PROVE n \div to = j /\ n % to = k
  <2>1. j = n \div to
    BY <1>1, <1>3, <1>6, QuotientIs
  <2>2. n = to * j + (n % to)
    BY <1>4, <2>1
  <2>3. to * j = j * from /\ j * from \in Int
    BY <1>1, <1>6
  <2>4. n % to \in Int
    BY <1>4
  <2> DEFINE m == n % to
             l == j * from
  <2>5. n = l + m /\ n = l + k
    BY <2>2, <2>3
  <2> HIDE DEF n, m, l
  <2>6. m = k
    BY <2>3, <2>4, <2>5 DEF m, l
  <2> QED BY <2>1, <2>6 DEF m
<1> HIDE DEF n
<1>7. ASSUME from = to PROVE Place(p, i, k, from, to) = [row |-> i, sample |-> k]
  BY <1>1, <1>2, <1>6, <1>7
<1>8. from <= to => Place(p, i, k, from, to).row \in 0..i
  BY <1>1, <1>2, <1>4, <1>5
<1> QED BY <1>1, <1>2, <1>4, <1>7, <1>8

(* Transfers keep to the samples there are.                                *)
LEMMA WriteTyped ==
  ASSUME NEW p \in Control, NEW s, Sized(p, s), p.b_s_open
  PROVE  WriteStore(p, s) \in [0..(p.rows_in_array - 1) -> Samples(p.width)]
<1>0. /\ p.rows_in_array \in Nat /\ p.cur_start_row \in Nat /\ p.rows_in_mem \in Nat
      /\ p.width \in Nat \ {0} /\ p.rowsperchunk \in Nat \ {0}
  BY DEF Control, Sized
<1>1. /\ s \in [0..(p.rows_in_array - 1) -> Samples(p.width)]
      /\ p.mem_buffer \in [0..(p.rows_in_mem - 1) -> Samples(Stride(p))]
  BY DEF Sized
<1>2. Stride(p) \in Nat \ {0} /\ Stride(p) >= p.width
  BY StrideIs
<1>3. ASSUME NEW r \in IoRows(p), NEW k \in 0..(p.width - 1)
      PROVE  LET at == InMemory(p, r - p.cur_start_row, k) IN p.mem_buffer[at.row][at.sample] \in Slot
  <2> DEFINE i == r - p.cur_start_row
             at == InMemory(p, i, k)
  <2>1. i \in 0..(p.rows_in_mem - 1)
    BY <1>0 DEF IoRows
  <2> HIDE DEF i
  <2>2. at.row \in 0..i /\ at.sample \in 0..(Stride(p) - 1)
    <3>1. i \in Nat /\ p.rowsperchunk \in Nat \ {0} /\ p.width \in Nat \ {0}
      BY <1>0, <2>1
    <3>2. at = Place(p, i, k, p.width, Stride(p))
      BY DEF InMemory
    <3>3. p.width <= Stride(p)
      BY <1>0, <1>2
    <3> HIDE DEF at
    <3> QED BY <1>2, <3>1, <3>2, <3>3, PlaceIs
  <2> HIDE DEF at
  <2>3. at.row \in 0..(p.rows_in_mem - 1)
    BY <1>0, <2>1, <2>2
  <2>4. p.mem_buffer[at.row] \in [0..(Stride(p) - 1) -> Slot]
    BY <1>1, <2>3 DEF Samples
  <2> QED BY <2>2, <2>4 DEF i, at
<1>4. ASSUME NEW r \in 0..(p.rows_in_array - 1)
      PROVE  WriteStore(p, s)[r] \in Samples(p.width)
  <2>1. s[r] \in [0..(p.width - 1) -> Slot] /\ DOMAIN s = 0..(p.rows_in_array - 1)
    BY <1>1 DEF Samples
  <2>2. CASE r \notin IoRows(p)
    BY <2>1, <2>2 DEF WriteStore, Samples
  <2>3. CASE r \in IoRows(p)
    <3>1. WriteStore(p, s)[r] =
            [k \in 0..(p.width - 1) |-> LET at == InMemory(p, r - p.cur_start_row, k)
                                        IN  p.mem_buffer[at.row][at.sample]]
      BY <2>1, <2>3 DEF WriteStore
    <3> QED BY <1>3, <2>3, <3>1 DEF Samples
  <2> QED BY <2>2, <2>3
<1>5. DOMAIN WriteStore(p, s) = 0..(p.rows_in_array - 1)
      /\ WriteStore(p, s) = [r \in 0..(p.rows_in_array - 1) |-> WriteStore(p, s)[r]]
  BY <1>1 DEF WriteStore
<1> QED BY <1>4, <1>5

LEMMA BufferIs ==
  ASSUME NEW n \in Nat, NEW m \in Nat, NEW f \in [0..(n - 1) -> Samples(m)]
  PROVE  f \in Buffer
<1> DEFINE all == {[0..(i - 1) -> Samples(j)] : i \in Nat, j \in Nat}
           these == [0..(n - 1) -> Samples(m)]
<1>1. these \in all
  OBVIOUS
<1>2. f \in these /\ Buffer = {<<>>} \cup UNION all
  BY DEF Buffer
<1> HIDE DEF all, these
<1> QED BY <1>1, <1>2

(* A buffer with what a read brings in.                                    *)
Loaded(buf, p, s) ==
  /\ buf \in [0..(p.rows_in_mem - 1) -> Samples(Stride(p))]
  /\ Stride(p) = p.width =>
       \A i \in 0..(p.rows_in_mem - 1) :
         buf[i] = IF p.cur_start_row + i \in IoRows(p) THEN s[p.cur_start_row + i]
                  ELSE p.mem_buffer[i]

Loadable(p, s) ==
  /\ p.rowsperchunk > 0
  /\ p.mem_buffer \in [0..(p.rows_in_mem - 1) -> Samples(Stride(p))]
  /\ s \in [0..(p.rows_in_array - 1) -> Samples(p.width)]

LEMMA ReadIs ==
  ASSUME NEW p \in Control, NEW s, Loadable(p, s),
         NEW buf, buf = ReadStore(p, s).mem_buffer
  PROVE  Loaded(buf, p, s)
<1> DEFINE Sample(i, k) ==
             LET at == InStore(p, i, k)
                 r == p.cur_start_row + at.row
             IN  IF at.row < ChunkStart(p, i) + p.rowsperchunk /\ r \in IoRows(p)
                 THEN s[r][at.sample] ELSE p.mem_buffer[i][k]
           read == [i \in DOMAIN p.mem_buffer |-> [k \in DOMAIN p.mem_buffer[i] |-> Sample(i, k)]]
<1>0. /\ p.rows_in_array \in Nat /\ p.cur_start_row \in Nat /\ p.rows_in_mem \in Nat
      /\ p.width \in Nat \ {0} /\ p.rowsperchunk \in Nat \ {0} /\ p.first_undef_row \in Nat
      /\ Stride(p) \in Nat \ {0} /\ Stride(p) >= p.width
  BY StrideIs DEF Control, Loadable
<1>1. ReadStore(p, s) = [p EXCEPT !.mem_buffer = read]
  BY DEF ReadStore
<1>2. buf = read
  BY <1>1 DEF Control
<1>3. /\ DOMAIN p.mem_buffer = 0..(p.rows_in_mem - 1)
      /\ \A i \in 0..(p.rows_in_mem - 1) :
           p.mem_buffer[i] \in [0..(Stride(p) - 1) -> Slot] /\ DOMAIN p.mem_buffer[i] = 0..(Stride(p) - 1)
  BY DEF Samples, Loadable
<1>4. ASSUME NEW r \in IoRows(p) PROVE s[r] \in [0..(p.width - 1) -> Slot]
  <2>1. r \in 0..(p.rows_in_array - 1)
    BY <1>0 DEF IoRows
  <2> QED BY <2>1 DEF Samples, Loadable
<1>5. ASSUME NEW i \in 0..(p.rows_in_mem - 1), NEW k \in 0..(Stride(p) - 1)
      PROVE  Sample(i, k) \in Slot
  <2> DEFINE at == InStore(p, i, k)
             r == p.cur_start_row + at.row
  <2>1. at.sample \in 0..(p.width - 1)
    <3>1. i \in Nat /\ at = Place(p, i, k, Stride(p), p.width)
      BY <1>0 DEF InStore
    <3> HIDE DEF at
    <3> QED BY <1>0, <3>1, PlaceIs
  <2>2. p.mem_buffer[i][k] \in Slot
    BY <1>3
  <2>3. r \in IoRows(p) => s[r][at.sample] \in Slot
    <3> HIDE DEF at, r
    <3> QED BY <1>4, <2>1
  <2> QED BY <2>2, <2>3
<1>6. ASSUME Stride(p) = p.width, NEW i \in 0..(p.rows_in_mem - 1), NEW k \in 0..(Stride(p) - 1)
      PROVE  Sample(i, k) = IF p.cur_start_row + i \in IoRows(p) THEN s[p.cur_start_row + i][k]
                            ELSE p.mem_buffer[i][k]
  <2> DEFINE at == InStore(p, i, k)
  <2>1. at = [row |-> i, sample |-> k] /\ i < ChunkStart(p, i) + p.rowsperchunk
    <3>1. i \in Nat /\ at = Place(p, i, k, p.width, p.width) /\ k \in 0..(p.width - 1)
      BY <1>0, <1>6 DEF InStore
    <3>2. p.rowsperchunk \in Nat \ {0} /\ p.width \in Nat \ {0}
      BY <1>0
    <3> HIDE DEF at
    <3> QED BY <3>1, <3>2, PlaceIs
  <2>2. at.row = i /\ at.sample = k
    BY <2>1
  <2> HIDE DEF at
  <2>3. Sample(i, k) = IF at.row < ChunkStart(p, i) + p.rowsperchunk /\ p.cur_start_row + at.row \in IoRows(p)
                       THEN s[p.cur_start_row + at.row][at.sample] ELSE p.mem_buffer[i][k]
    BY DEF at
  <2> QED BY <2>1, <2>2, <2>3
<1> HIDE DEF Sample
<1>7. \A i \in 0..(p.rows_in_mem - 1) : read[i] = [k \in 0..(Stride(p) - 1) |-> Sample(i, k)]
  BY <1>3
<1>8. DOMAIN read = 0..(p.rows_in_mem - 1) /\ read = [i \in 0..(p.rows_in_mem - 1) |-> read[i]]
  BY <1>3
<1> HIDE DEF read
<1>9. read \in [0..(p.rows_in_mem - 1) -> Samples(Stride(p))]
  <2>1. ASSUME NEW i \in 0..(p.rows_in_mem - 1) PROVE read[i] \in Samples(Stride(p))
    <3>1. read[i] = [k \in 0..(Stride(p) - 1) |-> Sample(i, k)]
      BY <1>7
    <3>2. \A k \in 0..(Stride(p) - 1) : Sample(i, k) \in Slot
      BY <1>5
    <3> QED BY <3>1, <3>2 DEF Samples
  <2> QED BY <1>8, <2>1
<1>10. ASSUME Stride(p) = p.width, NEW i \in 0..(p.rows_in_mem - 1)
       PROVE  read[i] = IF p.cur_start_row + i \in IoRows(p) THEN s[p.cur_start_row + i]
                        ELSE p.mem_buffer[i]
  <2>1. read[i] = [k \in 0..(Stride(p) - 1) |-> Sample(i, k)]
    BY <1>7
  <2>2. CASE p.cur_start_row + i \in IoRows(p)
    <3>1. \A k \in 0..(Stride(p) - 1) : Sample(i, k) = s[p.cur_start_row + i][k]
      BY <1>6, <1>10, <2>2
    <3>2. s[p.cur_start_row + i] \in [0..(Stride(p) - 1) -> Slot]
      BY <1>4, <1>10, <2>2
    <3> QED BY <2>1, <2>2, <3>1, <3>2
  <2>3. CASE p.cur_start_row + i \notin IoRows(p)
    <3>1. \A k \in 0..(Stride(p) - 1) : Sample(i, k) = p.mem_buffer[i][k]
      BY <1>6, <1>10, <2>3
    <3>2. p.mem_buffer[i] \in [0..(Stride(p) - 1) -> Slot]
      BY <1>3
    <3> QED BY <2>1, <2>3, <3>1, <3>2
  <2> QED BY <2>2, <2>3
<1> QED BY <1>2, <1>9, <1>10 DEF Loaded

LEMMA WriteIs ==
  ASSUME NEW p \in Control, NEW s, Sized(p, s), p.b_s_open, Stride(p) = p.width,
         NEW r \in 0..(p.rows_in_array - 1)
  PROVE  WriteStore(p, s)[r] = IF r \in IoRows(p) THEN p.mem_buffer[r - p.cur_start_row] ELSE s[r]
<1>0. /\ p.rows_in_array \in Nat /\ p.cur_start_row \in Nat /\ p.rows_in_mem \in Nat
      /\ p.width \in Nat \ {0} /\ p.rowsperchunk \in Nat \ {0}
  BY DEF Control, Sized
<1>1. s[r] \in [0..(p.width - 1) -> Slot] /\ DOMAIN s = 0..(p.rows_in_array - 1)
  BY DEF Sized, Samples
<1>2. CASE r \notin IoRows(p)
  BY <1>1, <1>2 DEF WriteStore
<1>3. CASE r \in IoRows(p)
  <2> DEFINE i == r - p.cur_start_row
  <2>1. i \in 0..(p.rows_in_mem - 1) /\ i \in Nat
    BY <1>0, <1>3 DEF IoRows
  <2>2. p.mem_buffer[i] \in [0..(p.width - 1) -> Slot]
    BY <2>1 DEF Sized, Samples
  <2>3. WriteStore(p, s)[r] = [k \in 0..(p.width - 1) |->
                                 p.mem_buffer[InMemory(p, i, k).row][InMemory(p, i, k).sample]]
    BY <1>1, <1>3 DEF WriteStore
  <2> HIDE DEF i
  <2>4. ASSUME NEW k \in 0..(p.width - 1)
        PROVE  InMemory(p, i, k).row = i /\ InMemory(p, i, k).sample = k
    <3>1. InMemory(p, i, k) = [row |-> i, sample |-> k]
      BY <1>0, <2>1, PlaceIs DEF InMemory
    <3> QED BY <3>1
  <2>5. WriteStore(p, s)[r] = [k \in 0..(p.width - 1) |-> p.mem_buffer[i][k]]
    BY <2>3, <2>4
  <2> QED BY <1>3, <2>2, <2>5 DEF i
<1> QED BY <1>2, <1>3

(* In an exact array with a store, what a row shows is the row in memory.  *)
LEMMA WindowShown ==
  ASSUME NEW p \in Control, NEW s, Sized(p, s), Stride(p) = p.width,
         NEW r \in p.cur_start_row..(p.cur_start_row + p.rows_in_mem - 1)
  PROVE  Line(p, p.mem_buffer[r - p.cur_start_row]) = p.mem_buffer[r - p.cur_start_row]
<1>1. r - p.cur_start_row \in 0..(p.rows_in_mem - 1)
  BY DEF Control
<1> DEFINE row == p.mem_buffer[r - p.cur_start_row]
<1>2. row \in [0..(p.width - 1) -> Slot]
  BY <1>1 DEF Sized, Samples
<1> HIDE DEF row
<1>3. Line(p, row) = row
  BY <1>2 DEF Line
<1> QED BY <1>3 DEF row

-----------------------------------------------------------------------------
(* Moving the window. *)

(* Writing the window to the store changes no row, and leaves it clean.    *)
LEMMA Flushed ==
  ASSUME NEW p \in Control, NEW s, Sized(p, s), p.b_s_open,
         NEW t, t = WriteStore(p, s)
  PROVE  /\ Sized(p, t)
         /\ Exact(p) =>
              /\ Clean(p, t)
              /\ \A r \in 0..(p.rows_in_array - 1) : RowOf(p, t, r) = RowOf(p, s, r)
              /\ Held(p, s) => Held(p, t)
<1>0. /\ p.rows_in_array \in Nat /\ p.cur_start_row \in Nat /\ p.rows_in_mem \in Nat
      /\ p.first_undef_row \in Nat /\ p.b_s_open \in BOOLEAN /\ p.first_undef_row <= p.rows_in_array
  BY DEF Control, Sized
<1>1. Sized(p, t)
  BY WriteTyped DEF Sized
<1>2. SUFFICES ASSUME Exact(p)
               PROVE  /\ Clean(p, t)
                      /\ \A r \in 0..(p.rows_in_array - 1) : RowOf(p, t, r) = RowOf(p, s, r)
                      /\ Held(p, s) => Held(p, t)
  BY <1>1
<1>3. \A r \in 0..(p.rows_in_array - 1) :
        t[r] = IF r \in IoRows(p) THEN p.mem_buffer[r - p.cur_start_row] ELSE s[r]
  BY <1>2, WriteIs DEF Exact
<1>4. Clean(p, t)
  <2>1. IoRows(p) \subseteq 0..(p.rows_in_array - 1)
    BY <1>0 DEF IoRows
  <2> QED BY <1>3, <2>1 DEF Clean
<1>5. ASSUME NEW r \in 0..(p.rows_in_array - 1)
      PROVE  RowOf(p, t, r) = RowOf(p, s, r)
  <2>1. r \notin p.cur_start_row..(p.cur_start_row + p.rows_in_mem - 1) => t[r] = s[r]
    BY <1>3 DEF IoRows
  <2> QED BY <2>1 DEF RowOf
<1>6. ASSUME Held(p, s) PROVE Held(p, t)
  <2>1. 0..(p.first_undef_row - 1) \subseteq 0..(p.rows_in_array - 1)
    BY <1>0
  <2> QED BY <1>4, <1>5, <1>6, <2>1 DEF Held
<1> QED BY <1>4, <1>5, <1>6

(* The control block with its window moved to the strip and read.          *)
Refilled(p, s, start_row, end_row) ==
  ReadStore([p EXCEPT !.cur_start_row = Window(p, start_row, end_row), !.dirty = FALSE], s)

Same(q, p) ==
  /\ q.rows_in_array = p.rows_in_array /\ q.pre_zero = p.pre_zero
  /\ q.first_undef_row = p.first_undef_row /\ q.width = p.width /\ q.kind = p.kind
  /\ q.b_s_open = p.b_s_open

(* Where the window goes, the strip is inside, and what was in the store   *)
(* is read.                                                                *)
LEMMA Filling ==
  ASSUME NEW p \in Control, NEW s, Sized(p, s), p.b_s_open,
         NEW start_row \in Nat, NEW end_row \in Nat, start_row < end_row,
         end_row <= start_row + p.maxaccess,
         NEW q, q = Refilled(p, s, start_row, end_row)
  PROVE  /\ q \in Control /\ Sized(q, s) /\ Inside(q, start_row, end_row) /\ Same(q, p)
         /\ Exact(p) /\ Held(p, s) /\ Clean(p, s) =>
              /\ Held(q, s)
              /\ \A r \in 0..(p.rows_in_array - 1) : RowOf(q, s, r) = RowOf(p, s, r)
<1> DEFINE cur == Window(p, start_row, end_row)
           moved == [p EXCEPT !.cur_start_row = cur, !.dirty = FALSE]
           filled == q.mem_buffer
<1>0. /\ p.rows_in_array \in Nat /\ p.cur_start_row \in Nat /\ p.rows_in_mem \in Nat
      /\ p.first_undef_row \in Nat /\ p.b_s_open \in BOOLEAN /\ p.maxaccess \in Nat
      /\ p.maxaccess <= p.rows_in_mem /\ p.first_undef_row <= p.rows_in_array
  BY DEF Control, Sized
<1>1. /\ s \in [0..(p.rows_in_array - 1) -> Samples(p.width)]
      /\ p.mem_buffer \in [0..(p.rows_in_mem - 1) -> Samples(Stride(p))]
      /\ p.rowsperchunk > 0
  BY DEF Sized
<1>2. cur \in Nat /\ start_row >= cur /\ end_row <= cur + p.rows_in_mem
  <2>1. end_row - p.rows_in_mem \in Int /\ 0 \in Int
    BY <1>0
  <2>2. Max({0, end_row - p.rows_in_mem}) =
          IF 0 >= end_row - p.rows_in_mem THEN 0 ELSE end_row - p.rows_in_mem
    BY <2>1, MaxOfTwo
  <2> QED BY <1>0, <2>2 DEF Window
<1> HIDE DEF cur
<1>3. /\ moved \in Control /\ moved.cur_start_row = cur /\ moved.mem_buffer = p.mem_buffer
      /\ moved.rows_in_mem = p.rows_in_mem /\ moved.rowsperchunk = p.rowsperchunk
      /\ moved.maxaccess = p.maxaccess /\ moved.dirty = FALSE /\ Same(moved, p)
      /\ Stride(moved) = Stride(p)
      /\ IoRows(moved) = {r \in cur..(cur + p.rows_in_mem - 1) :
                            r < p.first_undef_row /\ r < p.rows_in_array}
  <2>1. moved \in Control
    BY <1>2 DEF Control
  <2>2. /\ moved.cur_start_row = cur /\ moved.mem_buffer = p.mem_buffer
        /\ moved.rows_in_mem = p.rows_in_mem /\ moved.first_undef_row = p.first_undef_row
        /\ moved.rows_in_array = p.rows_in_array /\ moved.rowsperchunk = p.rowsperchunk
        /\ moved.maxaccess = p.maxaccess /\ moved.dirty = FALSE
        /\ moved.width = p.width /\ moved.kind = p.kind /\ moved.b_s_open = p.b_s_open
        /\ moved.pre_zero = p.pre_zero
    BY DEF Control
  <2> HIDE DEF moved
  <2> QED BY <2>1, <2>2 DEF IoRows, Same, Stride
<1>4. q = ReadStore(moved, s)
  BY DEF Refilled, cur
<1> HIDE DEF moved
<1>5. /\ q = [moved EXCEPT !.mem_buffer = filled]
      /\ filled \in [0..(p.rows_in_mem - 1) -> Samples(Stride(p))]
      /\ Stride(p) = p.width =>
           \A i \in 0..(p.rows_in_mem - 1) :
             filled[i] = IF cur + i \in IoRows(moved) THEN s[cur + i] ELSE p.mem_buffer[i]
  <2>1. /\ moved.rowsperchunk > 0
        /\ moved.mem_buffer \in [0..(moved.rows_in_mem - 1) -> Samples(Stride(moved))]
        /\ s \in [0..(moved.rows_in_array - 1) -> Samples(moved.width)]
    BY <1>1, <1>3 DEF Same
  <2>2. /\ ReadStore(moved, s) = [moved EXCEPT !.mem_buffer = filled]
        /\ filled \in [0..(moved.rows_in_mem - 1) -> Samples(Stride(moved))]
        /\ Stride(moved) = moved.width =>
              \A i \in 0..(moved.rows_in_mem - 1) :
                filled[i] = IF moved.cur_start_row + i \in IoRows(moved)
                            THEN s[moved.cur_start_row + i] ELSE moved.mem_buffer[i]
    <3>1. filled = ReadStore(moved, s).mem_buffer
      BY <1>4
    <3>2. moved \in Control
      BY <1>3
    <3>3. ReadStore(moved, s) = [moved EXCEPT !.mem_buffer = filled]
      <4> DEFINE buf == ReadStore(moved, s).mem_buffer
      <4>1. ReadStore(moved, s) = [moved EXCEPT !.mem_buffer = buf]
        <5>1. \E b : ReadStore(moved, s) = [moved EXCEPT !.mem_buffer = b]
          BY DEF ReadStore
        <5> QED BY <3>2, <5>1 DEF Control
      <4> QED BY <3>1, <4>1
    <3> HIDE DEF filled
    <3>4. Loadable(moved, s)
      BY <2>1 DEF Loadable
    <3>5. Loaded(filled, moved, s)
      BY <3>1, <3>2, <3>4, ReadIs
    <3>6. /\ filled \in [0..(moved.rows_in_mem - 1) -> Samples(Stride(moved))]
          /\ Stride(moved) = moved.width =>
               \A i \in 0..(moved.rows_in_mem - 1) :
                 filled[i] = IF moved.cur_start_row + i \in IoRows(moved)
                             THEN s[moved.cur_start_row + i] ELSE moved.mem_buffer[i]
      BY <3>5 DEF Loaded
    <3> QED BY <3>3, <3>6
  <2> QED BY <1>3, <1>4, <2>2 DEF Same
<1> HIDE DEF filled
<1>6. filled \in Buffer
  <2>1. Stride(p) \in Nat /\ p.rows_in_mem \in Nat
    BY <1>0, StrideIs
  <2> QED BY <1>5, <2>1, BufferIs
<1>7. /\ q \in Control /\ Same(q, p) /\ q.cur_start_row = cur /\ q.rows_in_mem = p.rows_in_mem
      /\ q.maxaccess = p.maxaccess /\ q.mem_buffer = filled /\ q.dirty = FALSE
      /\ q.rowsperchunk = p.rowsperchunk
  <2>1. q \in Control
    BY <1>3, <1>5, <1>6 DEF Control
  <2>2. /\ q.rows_in_array = moved.rows_in_array /\ q.pre_zero = moved.pre_zero
        /\ q.first_undef_row = moved.first_undef_row /\ q.width = moved.width
        /\ q.kind = moved.kind /\ q.b_s_open = moved.b_s_open
        /\ q.cur_start_row = moved.cur_start_row /\ q.rows_in_mem = moved.rows_in_mem
        /\ q.maxaccess = moved.maxaccess /\ q.mem_buffer = filled /\ q.dirty = moved.dirty
        /\ q.rowsperchunk = moved.rowsperchunk
    BY <1>3, <1>5 DEF Control
  <2> QED BY <1>3, <2>1, <2>2 DEF Same
<1>8. Sized(q, s)
  <2>1. Stride(q) = Stride(p)
    BY <1>7 DEF Same, Stride
  <2> QED BY <1>0, <1>1, <1>5, <1>7, <2>1 DEF Sized, Same
<1>9. Inside(q, start_row, end_row)
  BY <1>2, <1>7 DEF Inside
<1>10. SUFFICES ASSUME Exact(p), Held(p, s), Clean(p, s)
                PROVE  /\ Held(q, s)
                       /\ \A r \in 0..(p.rows_in_array - 1) : RowOf(q, s, r) = RowOf(p, s, r)
  BY <1>7, <1>8, <1>9
<1>11. Stride(p) = p.width /\ Stride(q) = q.width
  BY <1>7, <1>10 DEF Exact, Same, Stride
<1>12. ASSUME NEW r \in IoRows(q)
       PROVE  s[r] = filled[r - cur]
  <2>1. r \in IoRows(moved) /\ r \in Int /\ r - cur \in 0..(p.rows_in_mem - 1) /\ cur + (r - cur) = r
    BY <1>0, <1>2, <1>3, <1>7 DEF IoRows, Same
  <2> QED BY <1>5, <1>11, <2>1
<1>13. ASSUME NEW r \in 0..(p.rows_in_array - 1)
       PROVE  RowOf(q, s, r) = RowOf(p, s, r)
  <2>1. CASE r >= p.first_undef_row
    BY <2>1, <1>7 DEF RowOf, Same
  <2>2. CASE ~(r >= p.first_undef_row)
    <3>0. p.rows_in_mem # 0 /\ q.rows_in_mem # 0 /\ ~(r >= q.first_undef_row)
      BY <1>7, <2>2 DEF Sized, Same
    <3>1. RowOf(p, s, r) = s[r]
      <4>1. CASE r \in p.cur_start_row..(p.cur_start_row + p.rows_in_mem - 1)
        <5>1. r \in IoRows(p)
          BY <1>0, <2>2, <4>1 DEF IoRows
        <5>2. s[r] = p.mem_buffer[r - p.cur_start_row]
          BY <5>1, <1>10 DEF Clean
        <5>3. RowOf(p, s, r) = p.mem_buffer[r - p.cur_start_row]
          BY <1>11, <2>2, <3>0, <4>1, WindowShown DEF RowOf
        <5> QED BY <5>2, <5>3
      <4>2. CASE r \notin p.cur_start_row..(p.cur_start_row + p.rows_in_mem - 1)
        BY <2>2, <3>0, <4>2 DEF RowOf
      <4> QED BY <4>1, <4>2
    <3>2. RowOf(q, s, r) = s[r]
      <4>1. CASE r \in cur..(cur + p.rows_in_mem - 1)
        <5>1. r \in IoRows(q)
          BY <1>0, <1>7, <2>2, <4>1 DEF IoRows, Same
        <5>2. r \in q.cur_start_row..(q.cur_start_row + q.rows_in_mem - 1)
          BY <1>7, <4>1
        <5>3. RowOf(q, s, r) = q.mem_buffer[r - q.cur_start_row]
          BY <1>7, <1>8, <1>11, <3>0, <5>2, WindowShown DEF RowOf
        <5> QED BY <1>7, <1>12, <5>1, <5>3
      <4>2. CASE r \notin cur..(cur + p.rows_in_mem - 1)
        BY <1>7, <3>0, <4>2 DEF RowOf
      <4> QED BY <4>1, <4>2
    <3> QED BY <3>1, <3>2
  <2> QED BY <2>1, <2>2
<1>14. Held(q, s)
  <2>1. ASSUME NEW r \in 0..(q.first_undef_row - 1), NEW k \in 0..(q.width - 1)
        PROVE  RowOf(q, s, r)[k] # junk
    <3>1. r \in 0..(p.rows_in_array - 1) /\ r \in 0..(p.first_undef_row - 1) /\ k \in 0..(p.width - 1)
      BY <1>0, <1>7, <2>1 DEF Same
    <3>2. RowOf(p, s, r)[k] # junk
      BY <1>10, <3>1 DEF Held
    <3> QED BY <1>13, <3>1, <3>2
  <2>2. Clean(q, s)
    BY <1>7, <1>12 DEF Clean
  <2> QED BY <2>1, <2>2 DEF Held
<1> QED BY <1>13, <1>14

(* Both together: the window that an access leaves has its strip.          *)
LEMMA Positioned ==
  ASSUME NEW p \in Control, NEW s, Sized(p, s),
         NEW start_row \in Nat, NEW end_row \in Nat, start_row < end_row,
         end_row <= start_row + p.maxaccess,
         Inside(p, start_row, end_row) \/ p.b_s_open,
         NEW t, t = IF ~Inside(p, start_row, end_row) /\ p.dirty THEN WriteStore(p, s) ELSE s,
         NEW q, q = Moved(p, t, start_row, end_row)
  PROVE  /\ q \in Control /\ Sized(q, t) /\ Inside(q, start_row, end_row) /\ Same(q, p)
         /\ Exact(p) /\ Held(p, s) =>
              /\ Held(q, t)
              /\ \A r \in 0..(p.rows_in_array - 1) : RowOf(q, t, r) = RowOf(p, s, r)
<1>1. CASE Inside(p, start_row, end_row)
  BY <1>1 DEF Moved, Same
<1>2. CASE ~Inside(p, start_row, end_row)
  <2>0. p.b_s_open
    BY <1>2
  <2>1. /\ Sized(p, t)
        /\ Exact(p) /\ Held(p, s) =>
             /\ Held(p, t) /\ Clean(p, t)
             /\ \A r \in 0..(p.rows_in_array - 1) : RowOf(p, t, r) = RowOf(p, s, r)
    <3>1. CASE p.dirty
      BY <1>2, <2>0, <3>1, Flushed
    <3>2. CASE ~p.dirty
      BY <1>2, <3>2 DEF Held
    <3> QED BY <3>1, <3>2
  <2>2. q = Refilled(p, t, start_row, end_row)
    BY <1>2 DEF Moved, Refilled
  <2>3. /\ q \in Control /\ Sized(q, t) /\ Inside(q, start_row, end_row) /\ Same(q, p)
        /\ Exact(p) /\ Held(p, t) /\ Clean(p, t) =>
             /\ Held(q, t)
             /\ \A r \in 0..(p.rows_in_array - 1) : RowOf(q, t, r) = RowOf(p, t, r)
    BY <2>0, <2>1, <2>2, Filling
  <2> QED BY <2>1, <2>3
<1> QED BY <1>1, <1>2

-----------------------------------------------------------------------------
(* What the caller finds in the strip, and leaves there. *)

LEMMA ValueRow ==
  ASSUME NEW p, Fits(p), NEW v \in Value, NEW k \in 0..(p.width - 1)
  PROVE  v[k] \in Slot /\ v[k] # junk /\ v # junk
<1>1. PICK shape \in Shapes : shape.width = p.width
  BY DEF Fits
<1>2. k \in DOMAIN v
  BY <1>1, ValueAssumption
<1> QED BY <1>2, ValueAssumption DEF Slot

(* The control block after the strip has been handed out and filled.       *)
Done(q, start_row, end_row, writable, values) ==
  LET undef_row == IF q.first_undef_row < start_row THEN start_row ELSE q.first_undef_row
      z == IF q.first_undef_row < end_row THEN Zeroed(q, undef_row, end_row) ELSE q
      known == [z EXCEPT !.first_undef_row = IF writable THEN Max({@, end_row}) ELSE @,
                         !.dirty = @ \/ writable]
  IN  Filled(known, start_row, end_row, values)

LEMMA DoneFields ==
  ASSUME NEW q \in Control, NEW s, Fits(q), Sized(q, s),
         NEW start_row \in Nat, NEW end_row \in Nat,
         Inside(q, start_row, end_row), start_row < end_row, end_row <= q.rows_in_array,
         NEW writable \in BOOLEAN, NEW values \in [start_row..(end_row - 1) -> Value \cup {junk}],
         NEW d, d = Done(q, start_row, end_row, writable, values)
  PROVE  /\ d \in Control /\ Sized(d, s)
         /\ d.rows_in_array = q.rows_in_array /\ d.rows_in_mem = q.rows_in_mem
         /\ d.width = q.width /\ d.kind = q.kind
         /\ d.cur_start_row = q.cur_start_row
         /\ d.b_s_open = q.b_s_open /\ d.dirty = (q.dirty \/ writable)
         /\ d.first_undef_row =
              IF writable /\ q.first_undef_row < end_row THEN end_row ELSE q.first_undef_row
         /\ \A i \in 0..(q.rows_in_mem - 1), k \in 0..(Stride(q) - 1) :
              LET r == q.cur_start_row + i
              IN  d.mem_buffer[i][k] =
                    IF k >= q.width \/ r \notin start_row..(end_row - 1) THEN q.mem_buffer[i][k]
                    ELSE IF values[r] # junk THEN values[r][k]
                    ELSE IF q.pre_zero /\ r >= q.first_undef_row THEN zero
                    ELSE q.mem_buffer[i][k]
<1> DEFINE cur == q.cur_start_row
           undef_row == IF q.first_undef_row < start_row THEN start_row ELSE q.first_undef_row
           blank(i) == [k \in DOMAIN q.mem_buffer[i] |->
                          IF k < q.width THEN zero ELSE q.mem_buffer[i][k]]
           zeros == [i \in DOMAIN q.mem_buffer |->
                       IF q.pre_zero /\ cur + i \in undef_row..(end_row - 1)
                       THEN blank(i) ELSE q.mem_buffer[i]]
           z == IF q.first_undef_row < end_row THEN Zeroed(q, undef_row, end_row) ELSE q
           shown == IF q.first_undef_row < end_row THEN zeros ELSE q.mem_buffer
           known == [z EXCEPT !.first_undef_row = IF writable THEN Max({@, end_row}) ELSE @,
                              !.dirty = @ \/ writable]
           first == IF writable THEN Max({q.first_undef_row, end_row}) ELSE q.first_undef_row
           put(i) == [k \in DOMAIN shown[i] |->
                        IF k < q.width THEN values[cur + i][k] ELSE shown[i][k]]
           buf == [i \in DOMAIN shown |->
                     IF cur + i \in start_row..(end_row - 1) /\ values[cur + i] # junk
                     THEN put(i) ELSE shown[i]]
           length == Stride(q)
<1>0. /\ q.rows_in_array \in Nat /\ q.cur_start_row \in Nat /\ q.rows_in_mem \in Nat
      /\ q.first_undef_row \in Nat /\ q.b_s_open \in BOOLEAN /\ q.pre_zero \in BOOLEAN
      /\ q.dirty \in BOOLEAN /\ q.width \in Nat /\ length \in Nat /\ q.width <= length
  BY StrideIs DEF Control
<1> HIDE DEF length
<1>1. /\ q.mem_buffer \in [0..(q.rows_in_mem - 1) -> Samples(length)]
      /\ DOMAIN q.mem_buffer = 0..(q.rows_in_mem - 1)
  BY DEF Sized, length
<1>2. ASSUME NEW i \in 0..(q.rows_in_mem - 1)
      PROVE  /\ q.mem_buffer[i] \in Samples(length) /\ DOMAIN q.mem_buffer[i] = 0..(length - 1)
             /\ blank(i) \in Samples(length)
             /\ zeros[i] \in Samples(length) /\ shown[i] \in Samples(length)
  <2>1. q.mem_buffer[i] \in Samples(length)
    BY <1>1
  <2>2. q.mem_buffer[i] \in [0..(length - 1) -> Slot] /\ DOMAIN q.mem_buffer[i] = 0..(length - 1)
    BY <2>1 DEF Samples
  <2>3. blank(i) \in [0..(length - 1) -> Slot]
    BY <2>2 DEF Slot
  <2>4. blank(i) \in Samples(length)
    BY <2>3 DEF Samples
  <2> HIDE DEF blank
  <2>5. zeros[i] \in Samples(length)
    BY <1>1, <2>1, <2>4
  <2> HIDE DEF zeros
  <2> QED BY <2>1, <2>2, <2>4, <2>5
<1>3. /\ DOMAIN zeros = 0..(q.rows_in_mem - 1)
      /\ DOMAIN shown = 0..(q.rows_in_mem - 1)
  BY <1>1
<1>4. z = [q EXCEPT !.mem_buffer = shown]
  <2>1. CASE q.first_undef_row < end_row
    BY <2>1 DEF Zeroed
  <2>2. CASE ~(q.first_undef_row < end_row)
    BY <2>2 DEF Control
  <2> QED BY <2>1, <2>2
<1>5. ASSUME NEW i \in 0..(q.rows_in_mem - 1), NEW k \in 0..(length - 1), NEW r, r = cur + i
      PROVE  /\ shown[i][k] = IF /\ q.first_undef_row < end_row /\ q.pre_zero
                                 /\ r \in undef_row..(end_row - 1) /\ k < q.width
                              THEN zero ELSE q.mem_buffer[i][k]
             /\ DOMAIN shown[i] = 0..(length - 1)
  <2>1. blank(i)[k] = IF k < q.width THEN zero ELSE q.mem_buffer[i][k]
    BY <1>2
  <2>2. DOMAIN shown[i] = 0..(length - 1)
    <3>1. shown[i] \in Samples(length)
      BY <1>2
    <3> HIDE DEF shown
    <3> QED BY <3>1 DEF Samples
  <2> HIDE DEF blank
  <2>3. zeros[i][k] = IF q.pre_zero /\ r \in undef_row..(end_row - 1)
                      THEN blank(i)[k] ELSE q.mem_buffer[i][k]
    BY <1>1, <1>5
  <2> HIDE DEF zeros
  <2>4. shown[i][k] = IF q.first_undef_row < end_row THEN zeros[i][k] ELSE q.mem_buffer[i][k]
    OBVIOUS
  <2> HIDE DEF shown, undef_row
  <2> QED BY <2>1, <2>2, <2>3, <2>4
<1> HIDE DEF zeros, shown, z, blank
<1>6. ASSUME NEW i \in 0..(q.rows_in_mem - 1)
      PROVE  buf[i] \in Samples(length)
  <2>1. CASE cur + i \in start_row..(end_row - 1) /\ values[cur + i] # junk
    <3>1. values[cur + i] \in Value
      BY <2>1
    <3>2. ASSUME NEW k \in 0..(length - 1)
          PROVE  (IF k < q.width THEN values[cur + i][k] ELSE shown[i][k]) \in Slot
      <4>1. k < q.width => k \in 0..(q.width - 1)
        BY <1>0
      <4>2. k < q.width => values[cur + i][k] \in Slot
        BY <3>1, <4>1, ValueRow
      <4>3. shown[i][k] \in Slot
        BY <1>2 DEF Samples
      <4> QED BY <4>2, <4>3
    <3>3. DOMAIN shown[i] = 0..(length - 1)
      BY <1>2 DEF Samples
    <3>4. put(i) \in Samples(length)
      BY <3>2, <3>3 DEF Samples
    <3>5. buf[i] = put(i)
      BY <1>3, <2>1
    <3> QED BY <3>4, <3>5
  <2>2. CASE ~(cur + i \in start_row..(end_row - 1) /\ values[cur + i] # junk)
    <3>1. buf[i] = shown[i]
      BY <1>3, <2>2
    <3> QED BY <1>2, <3>1
  <2> QED BY <2>1, <2>2
<1>7. buf \in [0..(q.rows_in_mem - 1) -> Samples(length)]
  <2>1. DOMAIN buf = 0..(q.rows_in_mem - 1) /\ buf = [i \in 0..(q.rows_in_mem - 1) |-> buf[i]]
    BY <1>3
  <2> HIDE DEF buf
  <2> QED BY <1>6, <2>1
<1>8. first \in Nat
      /\ first = IF writable /\ q.first_undef_row < end_row THEN end_row ELSE q.first_undef_row
  BY <1>0, MaxOfTwo
<1>9. d = Filled(known, start_row, end_row, values)
  BY DEF Done, z
<1>10. /\ known = [q EXCEPT !.first_undef_row = first, !.dirty = q.dirty \/ writable,
                            !.mem_buffer = shown]
       /\ known.mem_buffer = shown /\ known.cur_start_row = cur /\ known.width = q.width
  BY <1>4 DEF Control
<1> HIDE DEF known
<1>11. d = [known EXCEPT !.mem_buffer = buf]
  BY <1>9, <1>10 DEF Filled
<1>12. d = [q EXCEPT !.first_undef_row = first, !.dirty = q.dirty \/ writable,
                     !.mem_buffer = buf]
  <2> HIDE DEF buf, first
  <2> QED BY <1>10, <1>11 DEF Control
<1>13. buf \in Buffer
  <2> HIDE DEF buf
  <2> QED BY <1>0, <1>7, BufferIs
<1>14. ASSUME NEW i \in 0..(q.rows_in_mem - 1), NEW k \in 0..(length - 1), NEW r, r = cur + i
       PROVE  buf[i][k] =
                IF k >= q.width \/ r \notin start_row..(end_row - 1) THEN q.mem_buffer[i][k]
                ELSE IF values[r] # junk THEN values[r][k]
                ELSE IF q.pre_zero /\ r >= q.first_undef_row THEN zero
                ELSE q.mem_buffer[i][k]
  <2>1. r \in Int /\ k \in Int
    BY <1>0, <1>14
  <2>2. buf[i][k] = IF r \in start_row..(end_row - 1) /\ values[r] # junk /\ k < q.width
                    THEN values[r][k] ELSE shown[i][k]
    <3>1. DOMAIN shown[i] = 0..(length - 1)
      BY <1>5, <1>14
    <3>2. put(i)[k] = IF k < q.width THEN values[r][k] ELSE shown[i][k]
      BY <1>14, <3>1
    <3> HIDE DEF put
    <3>3. buf[i] = IF r \in start_row..(end_row - 1) /\ values[r] # junk THEN put(i) ELSE shown[i]
      BY <1>3, <1>14
    <3> HIDE DEF buf
    <3> QED BY <3>2, <3>3
  <2>3. shown[i][k] = IF /\ q.first_undef_row < end_row /\ q.pre_zero
                         /\ r \in undef_row..(end_row - 1) /\ k < q.width
                      THEN zero ELSE q.mem_buffer[i][k]
    BY <1>5, <1>14
  <2> HIDE DEF buf
  <2> QED BY <1>0, <2>1, <2>2, <2>3
<1> HIDE DEF buf, first
<1>15. d \in Control
  BY <1>0, <1>8, <1>12, <1>13 DEF Control
<1>16. /\ d.rows_in_array = q.rows_in_array /\ d.rows_in_mem = q.rows_in_mem
       /\ d.cur_start_row = q.cur_start_row /\ d.maxaccess = q.maxaccess
       /\ d.width = q.width /\ d.kind = q.kind /\ d.rowsperchunk = q.rowsperchunk
       /\ d.b_s_open = q.b_s_open /\ d.dirty = (q.dirty \/ writable)
       /\ d.first_undef_row = first /\ d.mem_buffer = buf
  BY <1>12 DEF Control
<1>17. Sized(d, s)
  <2>1. Stride(d) = length
    BY <1>16 DEF Stride, length
  <2>2. first <= q.rows_in_array
    BY <1>0, <1>8 DEF Sized
  <2> QED BY <1>7, <1>16, <2>1, <2>2 DEF Sized
<1> QED BY <1>8, <1>14, <1>15, <1>16, <1>17 DEF length
(* What the caller leaves in a row of the strip: what it wrote, else what  *)
(* the row was, else zero.                                                 *)
Left(q, s, values, r) ==
  [k \in 0..(q.width - 1) |->
     IF values[r] # junk THEN values[r][k]
     ELSE IF RowOf(q, s, r)[k] # junk THEN RowOf(q, s, r)[k] ELSE zero]

LEMMA StripServed ==
  ASSUME NEW q \in Control, NEW s, Fits(q), Sized(q, s), Exact(q), Held(q, s),
         NEW start_row \in Nat, NEW end_row \in Nat,
         Inside(q, start_row, end_row), start_row < end_row, end_row <= q.rows_in_array,
         NEW writable \in BOOLEAN, NEW values \in [start_row..(end_row - 1) -> Value \cup {junk}],
         ~Undefinable(q, start_row, end_row, writable),
         writable \/ \A r \in start_row..(end_row - 1) : values[r] = junk,
         (writable /\ ~q.pre_zero) =>
           \A r \in start_row..(end_row - 1) : r >= q.first_undef_row => values[r] # junk,
         NEW d, d = Done(q, start_row, end_row, writable, values)
  PROVE  /\ Held(d, s)
         /\ \A r \in start_row..(end_row - 1) :
              /\ Line(d, d.mem_buffer[r - d.cur_start_row]) = Left(q, s, values, r)
              /\ \A k \in 0..(q.width - 1) : Left(q, s, values, r)[k] # junk
         /\ \A r \in 0..(q.rows_in_array - 1) :
              RowOf(d, s, r) = IF writable /\ r \in start_row..(end_row - 1)
                               THEN Left(q, s, values, r) ELSE RowOf(q, s, r)
<1> DEFINE rows == start_row..(end_row - 1)
           cur == q.cur_start_row
           window == cur..(cur + q.rows_in_mem - 1)
           cols == 0..(q.width - 1)
           empty == [k \in cols |-> junk]
<1>0. /\ q.rows_in_array \in Nat /\ q.cur_start_row \in Nat /\ q.rows_in_mem \in Nat
      /\ q.first_undef_row \in Nat /\ q.b_s_open \in BOOLEAN /\ q.pre_zero \in BOOLEAN
      /\ q.dirty \in BOOLEAN /\ q.rows_in_mem > 0 /\ q.width \in Nat /\ Stride(q) \in Nat
      /\ q.width <= Stride(q)
  BY StrideIs DEF Control, Sized
<1>1. /\ d \in Control
      /\ d.rows_in_array = q.rows_in_array /\ d.rows_in_mem = q.rows_in_mem
      /\ d.width = q.width /\ d.kind = q.kind /\ d.cur_start_row = cur
      /\ d.b_s_open = q.b_s_open /\ d.dirty = (q.dirty \/ writable)
      /\ d.first_undef_row =
           IF writable /\ q.first_undef_row < end_row THEN end_row ELSE q.first_undef_row
      /\ Sized(d, s)
  BY DoneFields
<1>2. ASSUME NEW r \in window, NEW k \in 0..(Stride(q) - 1)
      PROVE  d.mem_buffer[r - cur][k] =
               IF k >= q.width \/ r \notin rows THEN q.mem_buffer[r - cur][k]
               ELSE IF values[r] # junk THEN values[r][k]
               ELSE IF q.pre_zero /\ r >= q.first_undef_row THEN zero
               ELSE q.mem_buffer[r - cur][k]
  <2>1. r - cur \in 0..(q.rows_in_mem - 1) /\ cur + (r - cur) = r
    BY <1>0
  <2> QED BY <2>1, DoneFields
<1>3. rows \subseteq window /\ rows \subseteq 0..(q.rows_in_array - 1)
  BY <1>0 DEF Inside
<1>4. ASSUME NEW r \in window
      PROVE  RowOf(q, s, r) = IF r >= q.first_undef_row THEN empty ELSE Line(q, q.mem_buffer[r - cur])
  BY <1>0 DEF RowOf
<1>5. ASSUME NEW r \in rows, r >= q.first_undef_row, values[r] = junk
      PROVE  q.pre_zero
  <2>1. q.first_undef_row < end_row
    BY <1>0, <1>5
  <2>2. CASE writable
    BY <1>5, <2>2
  <2>3. CASE ~writable
    BY <2>1, <2>3 DEF Undefinable
  <2> QED BY <2>2, <2>3
<1>6. \A r \in 0..(q.first_undef_row - 1), k \in cols : RowOf(q, s, r)[k] # junk
  BY DEF Held
<1>7. ASSUME NEW r \in rows, NEW k \in cols
      PROVE  /\ d.mem_buffer[r - cur][k] = Left(q, s, values, r)[k]
             /\ Left(q, s, values, r)[k] # junk
  <2>1. r \in window /\ r \in Nat /\ k \in 0..(Stride(q) - 1) /\ ~(k >= q.width)
    BY <1>0, <1>3
  <2>2. Left(q, s, values, r)[k] = IF values[r] # junk THEN values[r][k]
                                   ELSE IF RowOf(q, s, r)[k] # junk THEN RowOf(q, s, r)[k] ELSE zero
    BY DEF Left
  <2>3. values[r] # junk => values[r][k] # junk
    <3>1. values[r] \in Value \cup {junk}
      OBVIOUS
    <3> QED BY <3>1, ValueRow
  <2>4. CASE r >= q.first_undef_row
    <3>1. RowOf(q, s, r)[k] = junk
      BY <1>4, <2>1, <2>4
    <3>2. values[r] = junk => d.mem_buffer[r - cur][k] = zero
      BY <1>2, <1>5, <2>1, <2>4
    <3>3. values[r] # junk => d.mem_buffer[r - cur][k] = values[r][k]
      BY <1>2, <2>1
    <3> QED BY <2>2, <2>3, <3>1, <3>2, <3>3, ValueAssumption
  <2>5. CASE ~(r >= q.first_undef_row)
    <3>1. RowOf(q, s, r)[k] = q.mem_buffer[r - cur][k]
      BY <1>4, <2>1, <2>5 DEF Line
    <3>2. RowOf(q, s, r)[k] # junk
      BY <1>0, <1>6, <2>1, <2>5
    <3>3. d.mem_buffer[r - cur][k] = IF values[r] # junk THEN values[r][k] ELSE q.mem_buffer[r - cur][k]
      BY <1>2, <2>1, <2>5
    <3> QED BY <2>2, <2>3, <3>1, <3>2, <3>3
  <2> QED BY <2>4, <2>5
<1>8. ASSUME NEW r \in rows
      PROVE  Line(d, d.mem_buffer[r - cur]) = Left(q, s, values, r)
  <2>1. Line(d, d.mem_buffer[r - cur]) = [k \in cols |-> d.mem_buffer[r - cur][k]]
    BY <1>1 DEF Line
  <2>2. Left(q, s, values, r) = [k \in cols |-> Left(q, s, values, r)[k]]
    BY DEF Left
  <2> QED BY <1>7, <2>1, <2>2
<1>9. ASSUME NEW r \in window, r \notin rows \/ (~writable /\ r < q.first_undef_row)
      PROVE  /\ Line(d, d.mem_buffer[r - cur]) = Line(q, q.mem_buffer[r - cur])
             /\ q.b_s_open => d.mem_buffer[r - cur] = q.mem_buffer[r - cur]
  <2>1. ASSUME NEW k \in 0..(Stride(q) - 1)
        PROVE  d.mem_buffer[r - cur][k] = q.mem_buffer[r - cur][k]
    <3>1. r \in rows => values[r] = junk /\ ~(r >= q.first_undef_row)
      BY <1>0, <1>9
    <3> QED BY <1>2, <3>1
  <2>2. Line(d, d.mem_buffer[r - cur]) = Line(q, q.mem_buffer[r - cur])
    <3>1. cols \subseteq 0..(Stride(q) - 1)
      BY <1>0
    <3> QED BY <1>1, <2>1, <3>1 DEF Line
  <2>3. d.mem_buffer[r - cur] = q.mem_buffer[r - cur]
    <3>1. r - cur \in 0..(q.rows_in_mem - 1) /\ Stride(d) = Stride(q)
      BY <1>0, <1>1 DEF Stride
    <3>2. /\ d.mem_buffer[r - cur] \in [0..(Stride(q) - 1) -> Slot]
          /\ q.mem_buffer[r - cur] \in [0..(Stride(q) - 1) -> Slot]
      BY <1>1, <3>1 DEF Sized, Samples
    <3>3. \A k \in 0..(Stride(q) - 1) : d.mem_buffer[r - cur][k] = q.mem_buffer[r - cur][k]
      BY <2>1
    <3> DEFINE new == d.mem_buffer[r - cur]
               old == q.mem_buffer[r - cur]
               n == Stride(q)
    <3>4. /\ new \in [0..(n - 1) -> Slot] /\ old \in [0..(n - 1) -> Slot]
          /\ \A k \in 0..(n - 1) : new[k] = old[k]
          /\ n \in Nat
      BY <1>0, <3>2, <3>3
    <3> HIDE DEF new, old, n
    <3>5. new = old
      BY <3>4
    <3> QED BY <3>5 DEF new, old
  <2> QED BY <2>2, <2>3
<1>10. ASSUME NEW r \in 0..(q.rows_in_array - 1)
       PROVE  RowOf(d, s, r) = IF writable /\ r \in rows
                               THEN Left(q, s, values, r) ELSE RowOf(q, s, r)
  <2>1. CASE writable /\ r \in rows
    <3>1. r < d.first_undef_row /\ r \in window
      BY <1>0, <1>1, <1>3, <2>1
    <3>2. RowOf(d, s, r) = Line(d, d.mem_buffer[r - cur])
      BY <1>0, <1>1, <3>1 DEF RowOf
    <3> QED BY <1>8, <2>1, <3>2
  <2>2. CASE r \in rows /\ ~writable
    <3>1. d.first_undef_row = q.first_undef_row /\ r \in window
      BY <1>1, <1>3, <2>2
    <3>2. CASE r >= q.first_undef_row
      <4>1. RowOf(d, s, r) = [k \in 0..(d.width - 1) |-> junk]
        BY <3>1, <3>2 DEF RowOf
      <4>2. RowOf(q, s, r) = [k \in 0..(q.width - 1) |-> junk]
        BY <3>2 DEF RowOf
      <4> QED BY <1>1, <2>2, <4>1, <4>2
    <3>3. CASE ~(r >= q.first_undef_row)
      <4>1. Line(d, d.mem_buffer[r - cur]) = Line(q, q.mem_buffer[r - cur])
        BY <1>0, <1>9, <2>2, <3>1, <3>3
      <4>2. RowOf(q, s, r) = Line(q, q.mem_buffer[r - cur])
        BY <1>4, <3>1, <3>3
      <4>3. RowOf(d, s, r) = Line(d, d.mem_buffer[r - cur])
        BY <1>0, <1>1, <3>1, <3>3 DEF RowOf
      <4> QED BY <2>2, <4>1, <4>2, <4>3
    <3> QED BY <3>2, <3>3
  <2>3. CASE r \notin rows
    <3>1. r >= d.first_undef_row <=> r >= q.first_undef_row
      <4>1. CASE writable /\ q.first_undef_row < end_row
        <5>1. ~(q.first_undef_row < start_row)
          BY <4>1 DEF Undefinable
        <5> QED BY <1>0, <1>1, <2>3, <4>1, <5>1
      <4>2. CASE ~(writable /\ q.first_undef_row < end_row)
        BY <1>1, <4>2
      <4> QED BY <4>1, <4>2
    <3>2. r \in window => Line(d, d.mem_buffer[r - cur]) = Line(q, q.mem_buffer[r - cur])
      <4>1. r \notin rows \/ (~writable /\ r < q.first_undef_row)
        BY <2>3
      <4> QED BY <1>9, <4>1
    <3>3. CASE r >= q.first_undef_row
      <4>1. RowOf(d, s, r) = [k \in 0..(d.width - 1) |-> junk]
        BY <3>1, <3>3 DEF RowOf
      <4>2. RowOf(q, s, r) = [k \in 0..(q.width - 1) |-> junk]
        BY <3>3 DEF RowOf
      <4> QED BY <1>1, <2>3, <4>1, <4>2
    <3>4. CASE ~(r >= q.first_undef_row) /\ r \in window
      <4>1. RowOf(d, s, r) = Line(d, d.mem_buffer[r - cur])
        BY <1>0, <1>1, <3>1, <3>4 DEF RowOf
      <4> QED BY <1>4, <2>3, <3>2, <3>4, <4>1
    <3>5. CASE ~(r >= q.first_undef_row) /\ r \notin window
      <4>1. RowOf(d, s, r) = s[r] /\ RowOf(q, s, r) = s[r]
        BY <1>0, <1>1, <3>1, <3>5 DEF RowOf
      <4> QED BY <2>3, <4>1
    <3> QED BY <3>3, <3>4, <3>5
  <2> QED BY <2>1, <2>2, <2>3
<1>11. Held(d, s)
  <2>1. ASSUME NEW r \in 0..(d.first_undef_row - 1), NEW k \in 0..(d.width - 1)
        PROVE  RowOf(d, s, r)[k] # junk
    <3>1. r \in 0..(q.rows_in_array - 1) /\ k \in cols
      BY <1>0, <1>1 DEF Sized
    <3>2. CASE writable /\ r \in rows
      BY <1>7, <1>10, <3>1, <3>2
    <3>3. CASE ~(writable /\ r \in rows)
      <4>1. r \in 0..(q.first_undef_row - 1)
        <5>1. CASE writable /\ q.first_undef_row < end_row
          <6>1. ~(q.first_undef_row < start_row)
            BY <5>1 DEF Undefinable
          <6> QED BY <1>0, <1>1, <3>3, <5>1, <6>1
        <5>2. CASE ~(writable /\ q.first_undef_row < end_row)
          BY <1>1, <5>2
        <5> QED BY <5>1, <5>2
      <4>2. RowOf(d, s, r) = RowOf(q, s, r)
        BY <1>10, <3>1, <3>3
      <4> QED BY <1>6, <3>1, <4>1, <4>2
    <3> QED BY <3>2, <3>3
  <2>2. d.dirty \/ Clean(d, s)
    <3>1. CASE q.dirty \/ writable
      BY <1>1, <3>1
    <3>2. CASE ~q.dirty /\ ~writable
      <4>1. ASSUME d.b_s_open, NEW r \in IoRows(d)
            PROVE  s[r] = d.mem_buffer[r - cur]
        <5>1. r \in IoRows(q) /\ r \in window /\ r < q.first_undef_row
          BY <1>0, <1>1, <3>2 DEF IoRows
        <5>2. s[r] = q.mem_buffer[r - cur]
          BY <1>1, <3>2, <4>1, <5>1 DEF Held, Clean
        <5>3. d.mem_buffer[r - cur] = q.mem_buffer[r - cur]
          BY <1>1, <1>9, <3>2, <4>1, <5>1
        <5> QED BY <5>2, <5>3
      <4> QED BY <1>1, <4>1 DEF Clean
    <3> QED BY <3>1, <3>2
  <2> QED BY <2>1, <2>2 DEF Held
<1> QED BY <1>1, <1>7, <1>8, <1>10, <1>11

-----------------------------------------------------------------------------
(* Steps. *)

(* An array promises its rows while its transfers lose nothing.            *)
Promised(b) == b \in Requested => Exact(arrays[b])
Kept == \A b \in Array :
          Promised(b) => Rows(b)!Next \/ UNCHANGED <<Content(b), StripOf(b)>>

(* A realized array is described by Sized. *)
LEMMA RealizedSized ==
  ASSUME ArraysInv, NEW a \in Realized
  PROVE  /\ a \in Array /\ a \in Requested /\ arrays[a] # None /\ arrays[a] \in Control
         /\ Fits(arrays[a]) /\ Sized(arrays[a], store[a])
         /\ Exact(arrays[a]) => Held(arrays[a], store[a])
BY DEF ArraysInv, Realized, Requested, Unrealized

LEMMA NoneNotControl == None \notin Control
BY DEF None, Control

LEMMA NothingShown ==
  ASSUME strip' = NoStrip
  PROVE  \A b \in Array : StripOf(b)' = <<>> /\ NoJunk(StripOf(b))'
<1>1. strip'.rows = <<>> /\ strip'.of = "none"
  BY DEF NoStrip
<1>2. \A b \in Array : StripOf(b)' = <<>>
  BY <1>1 DEF StripOf
<1>3. ASSUME NEW rows, rows = <<>> PROVE NoJunk(rows)
  <2>1. DOMAIN rows = {}
    BY <1>3
  <2> QED BY <2>1 DEF NoJunk
<1>4. \A b \in Array : NoJunk(StripOf(b)')
  BY <1>2, <1>3
<1> QED BY <1>2, <1>4 DEF NoJunk

(* A step that changes no array and gives no strip. *)
LEMMA RefusalHolds ==
  ASSUME VAInv, UNCHANGED <<arrays, store>>, strip' = NoStrip,
         refused' \in {"", "bad access", "no backing store"}
  PROVE  VAInv' /\ Kept
<1>1. \A b \in Array : StripOf(b)' = <<>> /\ NoJunk(StripOf(b))' /\ UNCHANGED Content(b)
  BY NothingShown DEF Content, Row
<1>2. VAInv'
  <2>1. ArraysInv'
    BY DEF VAInv, ArraysInv, Requested
  <2>2. Requested' \subseteq Array
    BY DEF Requested
  <2> QED BY <1>1, <2>1, <2>2 DEF VAInv
<1> QED BY <1>1, <1>2 DEF Kept, Rows!Next, Rows!Refuse

LEMMA RequestHolds ==
  ASSUME VAInv, NEW a \in Array, NEW kind \in {"s", "b"}, Request(a, kind)
  PROVE  VAInv' /\ Kept
<1>1. PICK s \in Shapes : s.kind = kind /\ arrays' = [arrays EXCEPT ![a] = Block(s)]
  BY DEF Request
<1>2. arrays[a] = None /\ refused' = "" /\ UNCHANGED <<store, strip>>
  BY DEF Request
<1>3. Block(s) \in Control /\ Unrealized(Block(s)) /\ Fits(Block(s))
  BY <1>1, ShapeAssumption DEF Block, Control, Buffer, Unrealized, Fits
<1>4. Block(s) # None
  BY <1>3, NoneNotControl
<1>5. arrays'[a] = Block(s) /\ \A b \in Array \ {a} : arrays'[b] = arrays[b]
  BY <1>1 DEF VAInv, ArraysInv
<1>6. ArraysInv'
  <2>1. arrays' \in [Array -> Control \cup {None}] /\ DOMAIN store' = Array
    BY <1>1, <1>2, <1>3 DEF VAInv, ArraysInv
  <2>2. \A b \in Requested' :
          /\ Fits(arrays'[b])
          /\ \/ Unrealized(arrays'[b])
             \/ /\ Sized(arrays'[b], store'[b])
                /\ Exact(arrays'[b]) => Held(arrays'[b], store'[b])
    <3> TAKE b \in Requested'
    <3>1. CASE b = a
      BY <1>3, <1>5, <3>1
    <3>2. CASE b # a
      <4>1. b \in Requested /\ arrays'[b] = arrays[b] /\ store'[b] = store[b]
        BY <1>2, <1>5, <3>2 DEF Requested
      <4> QED BY <4>1 DEF VAInv, ArraysInv
    <3> QED BY <3>1, <3>2
  <2> QED BY <2>1, <2>2 DEF ArraysInv, Requested
<1>7. VAInv'
  <2>1. \A b \in Array \ Requested' : StripOf(b)' = <<>>
    BY <1>2, <1>4, <1>5 DEF VAInv, Requested, StripOf
  <2>2. ASSUME NEW b \in Requested', Exact(arrays'[b])
        PROVE  NoJunk(StripOf(b))'
    <3>1. StripOf(b)' = StripOf(b)
      BY <1>2 DEF StripOf
    <3>2. CASE b = a
      <4>1. StripOf(b) = <<>>
        BY <1>2, <3>2 DEF VAInv, Requested
      <4>2. DOMAIN StripOf(b)' = {}
        BY <3>1, <4>1
      <4> QED BY <4>2 DEF NoJunk
    <3>3. CASE b # a
      <4>1. b \in Requested /\ arrays'[b] = arrays[b]
        BY <1>5, <3>3 DEF Requested
      <4>2. NoJunk(StripOf(b))
        BY <2>2, <4>1 DEF VAInv
      <4> QED BY <3>1, <4>2 DEF NoJunk
    <3> QED BY <3>2, <3>3
  <2> QED BY <1>2, <1>6, <2>1, <2>2 DEF VAInv
<1>8. ASSUME NEW b \in Array PROVE Rows(b)!Next \/ UNCHANGED <<Content(b), StripOf(b)>>
  <2>1. CASE b = a
    <3>1. Content(b)' = [r \in 0..(Block(s).rows_in_array - 1) |->
                           [k \in 0..(Block(s).width - 1) |-> junk]]
      BY <1>3, <1>5, <2>1 DEF Content, Row, Unrealized
    <3>2. StripOf(b)' = <<>>
      BY <1>2, <2>1 DEF VAInv, Requested, StripOf
    <3>3. \A r \in DOMAIN Content(b)' : \A k \in DOMAIN Content(b)'[r] : Content(b)'[r][k] = junk
      BY <3>1
    <3> QED BY <3>2, <3>3 DEF Rows!Next, Rows!Create
  <2>2. CASE b # a
    BY <1>2, <1>5, <2>2 DEF Content, Row, StripOf
  <2> QED BY <2>1, <2>2
<1> QED BY <1>7, <1>8 DEF Kept

(* An array that is realized stands for the rows it stood for: none yet.   *)
LEMMA RealizeSized ==
  ASSUME VAInv, NEW a \in Waiting, NEW rows_in_mem \in Nat, NEW s,
         rows_in_mem >= arrays[a].maxaccess, rows_in_mem <= arrays[a].rows_in_array,
         rows_in_mem < arrays[a].rows_in_array =>
           s \in [0..(arrays[a].rows_in_array - 1) -> Samples(arrays[a].width)],
         NEW q, q = Realize(a, rows_in_mem)
  PROVE  /\ q \in Control /\ Fits(q) /\ Sized(q, s) /\ Held(q, s)
         /\ q.rows_in_array = arrays[a].rows_in_array
         /\ \A r \in Nat : RowOf(q, s, r) = RowOf(arrays[a], store[a], r)
<1> DEFINE p == arrays[a]
           line == [k \in 0..(Stride(p) - 1) |-> junk]
           buf == [i \in 0..(rows_in_mem - 1) |-> line]
           short == rows_in_mem < p.rows_in_array
           chunk == Min({ChunkSpace \div Stride(p), rows_in_mem})
<1>1. p \in Control /\ Unrealized(p) /\ Fits(p)
  BY DEF VAInv, ArraysInv, Waiting, Realized, Requested, Sized
<1>2. /\ p.rows_in_array \in Nat \ {0} /\ p.maxaccess \in Nat \ {0} /\ p.width \in Nat
      /\ Stride(p) \in Nat \ {0}
  BY <1>1, StrideIs DEF Control
<1>3. chunk \in Nat \ {0}
  <2>1. PICK shape \in Shapes : shape.width = p.width /\ shape.kind = p.kind
    BY <1>1 DEF Fits
  <2>2. Stride(shape) = Stride(p)
    BY <2>1 DEF Stride
  <2>3. Stride(p) <= ChunkSpace /\ ChunkSpace \in Nat
    BY <2>1, <2>2, ChunkAssumption
  <2> DEFINE n == ChunkSpace \div Stride(p)
             l == Stride(p)
  <2>4. n \in Nat /\ ChunkSpace < l * n + l
    BY <1>2, <2>3, FloorIs
  <2>5. n # 0
    <3> SUFFICES ASSUME n = 0 PROVE FALSE
      OBVIOUS
    <3> HIDE DEF n, l
    <3>1. l \in Nat
      BY <1>2 DEF l
    <3>2. l * n = 0
      BY <3>1
    <3>3. l <= ChunkSpace
      BY <2>3 DEF l
    <3> QED BY <2>3, <2>4, <3>1, <3>2, <3>3
  <2> HIDE DEF n
  <2>6. rows_in_mem # 0
    BY <1>2
  <2>7. chunk = Min({n, rows_in_mem})
    BY DEF n
  <2> HIDE DEF chunk
  <2>8. chunk = IF n <= rows_in_mem THEN n ELSE rows_in_mem
    BY <2>4, <2>7, LesserIs
  <2> QED BY <2>4, <2>5, <2>6, <2>8
<1>4. line \in Samples(Stride(p))
  BY DEF Slot, Samples
<1> HIDE DEF line
<1>5. buf \in [0..(rows_in_mem - 1) -> Samples(Stride(p))] /\ short \in BOOLEAN
  BY <1>4
<1>6. buf \in Buffer
  <2> HIDE DEF buf
  <2> QED BY <1>2, <1>5, BufferIs
<1>7. q = [p EXCEPT !.rows_in_mem = rows_in_mem, !.rowsperchunk = chunk, !.b_s_open = short,
                    !.mem_buffer = buf]
  BY DEF Realize, line
<1> HIDE DEF buf, short, chunk
<1>8. /\ q \in Control
      /\ q.rows_in_mem = rows_in_mem /\ q.mem_buffer = buf /\ q.maxaccess = p.maxaccess
      /\ q.b_s_open = short /\ q.rows_in_array = p.rows_in_array
      /\ q.width = p.width /\ q.kind = p.kind /\ q.rowsperchunk = chunk
      /\ q.first_undef_row = 0 /\ q.cur_start_row = 0
  <2> HIDE DEF p
  <2>1. q \in Control
    BY <1>1, <1>3, <1>5, <1>6, <1>7 DEF Control
  <2>2. /\ q.rows_in_mem = rows_in_mem /\ q.mem_buffer = buf /\ q.maxaccess = p.maxaccess
        /\ q.b_s_open = short /\ q.rows_in_array = p.rows_in_array
        /\ q.width = p.width /\ q.kind = p.kind /\ q.rowsperchunk = chunk
        /\ q.first_undef_row = p.first_undef_row /\ q.cur_start_row = p.cur_start_row
        /\ q.dirty = p.dirty
    BY <1>1, <1>7 DEF Control
  <2> QED BY <1>1, <2>1, <2>2 DEF Unrealized
<1>9. Held(q, s)
  <2>1. Clean(q, s)
    BY <1>8 DEF Clean, IoRows
  <2>2. 0..(q.first_undef_row - 1) = {}
    BY <1>8
  <2> QED BY <2>1, <2>2 DEF Held
<1>10. Sized(q, s)
  <2>1. q.rows_in_mem > 0 /\ q.maxaccess <= q.rows_in_mem /\ q.first_undef_row <= q.rows_in_array
        /\ q.rowsperchunk > 0
    BY <1>2, <1>3, <1>8
  <2>2. q.mem_buffer \in [0..(q.rows_in_mem - 1) -> Samples(Stride(q))]
    <3>1. Stride(q) = Stride(p)
      BY <1>8 DEF Stride
    <3> QED BY <1>5, <1>8, <3>1
  <2>3. ~q.b_s_open => q.rows_in_mem = q.rows_in_array /\ q.cur_start_row = 0
    <3>1. ~short => rows_in_mem = p.rows_in_array
      BY <1>2 DEF short
    <3> QED BY <1>8, <3>1
  <2>4. q.b_s_open => s \in [0..(q.rows_in_array - 1) -> Samples(q.width)]
    <3>1. short => s \in [0..(p.rows_in_array - 1) -> Samples(p.width)]
      BY DEF short
    <3> QED BY <1>8, <3>1
  <2> QED BY <2>1, <2>2, <2>3, <2>4 DEF Sized
<1>11. Fits(q)
  BY <1>1, <1>8 DEF Fits
<1>12. ASSUME NEW r \in Nat PROVE RowOf(q, s, r) = RowOf(p, store[a], r)
  <2>1. RowOf(p, store[a], r) = [k \in 0..(p.width - 1) |-> junk]
    BY <1>1 DEF RowOf, Unrealized
  <2>2. RowOf(q, s, r) = [k \in 0..(q.width - 1) |-> junk]
    BY <1>8 DEF RowOf
  <2> QED BY <1>8, <2>1, <2>2
<1> QED BY <1>8, <1>9, <1>10, <1>11, <1>12

LEMMA RealizeHolds ==
  ASSUME VAInv, realize_virt_arrays
  PROVE  VAInv' /\ Kept
<1> DEFINE blank(a) == [r \in 0..(arrays[a].rows_in_array - 1) |->
                          [k \in 0..(arrays[a].width - 1) |-> junk]]
<1>1. PICK avail_mem \in Available, opens \in BOOLEAN :
        LET m == MaxMinHeights(avail_mem)
            whole == {a \in Waiting : RowsInMem(a, m) = arrays[a].rows_in_array}
        IN  IF whole = Waiting \/ opens
            THEN /\ arrays' = [a \in Array |->
                      IF a \in Waiting THEN Realize(a, RowsInMem(a, m)) ELSE arrays[a]]
                 /\ store' = [a \in Array |-> IF a \in Waiting \ whole THEN blank(a) ELSE store[a]]
                 /\ refused' = ""
            ELSE /\ \E done \in SUBSET whole : arrays' = [a \in Array |->
                      IF a \in done THEN Realize(a, arrays[a].rows_in_array) ELSE arrays[a]]
                 /\ refused' = "no backing store" /\ UNCHANGED store
  BY DEF realize_virt_arrays
<1> DEFINE m == MaxMinHeights(avail_mem)
           whole == {a \in Waiting : RowsInMem(a, m) = arrays[a].rows_in_array}
<1>2. Waiting # {} /\ strip' = NoStrip /\ Waiting \subseteq Array /\ Waiting \subseteq Requested
  BY DEF realize_virt_arrays, Waiting, Requested
<1>3. m \in Nat \ {0}
  BY <1>2, MinHeights, ShapeAssumption DEF VAInv
<1> HIDE DEF m, blank
<1>4. ASSUME NEW a \in Waiting
      PROVE  /\ arrays[a] \in Control /\ arrays[a].maxaccess <= arrays[a].rows_in_array
             /\ arrays[a].rows_in_array \in Nat
             /\ RowsInMem(a, m) \in Nat /\ RowsInMem(a, m) >= arrays[a].maxaccess
             /\ RowsInMem(a, m) <= arrays[a].rows_in_array
             /\ a \notin whole => RowsInMem(a, m) < arrays[a].rows_in_array
  <2>1. arrays[a] \in Control /\ Unrealized(arrays[a])
    BY DEF VAInv, ArraysInv, Waiting, Realized, Requested, Sized
  <2>2. /\ arrays[a].rows_in_array \in Nat \ {0} /\ arrays[a].maxaccess \in Nat \ {0}
        /\ arrays[a].maxaccess <= arrays[a].rows_in_array
    BY <2>1 DEF Control, Unrealized
  <2>3. /\ m * arrays[a].maxaccess \in Nat /\ m * arrays[a].maxaccess >= arrays[a].maxaccess
        /\ ~((arrays[a].rows_in_array - 1) \div arrays[a].maxaccess + 1 <= m)
             => m * arrays[a].maxaccess < arrays[a].rows_in_array
    BY <1>3, <2>2, WindowHeights
  <2> QED BY <2>1, <2>2, <2>3 DEF RowsInMem
<1>5. ASSUME NEW a \in Array
      PROVE  \/ arrays'[a] = arrays[a] /\ store'[a] = store[a]
             \/ /\ a \in Waiting /\ arrays'[a] \in Control
                /\ Fits(arrays'[a]) /\ Sized(arrays'[a], store'[a]) /\ Held(arrays'[a], store'[a])
                /\ arrays'[a].rows_in_array = arrays[a].rows_in_array
                /\ \A r \in Nat : RowOf(arrays'[a], store'[a], r) = RowOf(arrays[a], store[a], r)
  <2>1. CASE whole = Waiting \/ opens
    <3>1. /\ arrays' = [b \in Array |->
               IF b \in Waiting THEN Realize(b, RowsInMem(b, m)) ELSE arrays[b]]
          /\ store' = [b \in Array |-> IF b \in Waiting \ whole THEN blank(b) ELSE store[b]]
      BY <1>1, <2>1 DEF m
    <3>2. CASE a \notin Waiting
      BY <3>1, <3>2
    <3>3. CASE a \in Waiting
      <4>1. arrays'[a] = Realize(a, RowsInMem(a, m))
        BY <3>1, <3>3
      <4>2. RowsInMem(a, m) < arrays[a].rows_in_array =>
              store'[a] \in [0..(arrays[a].rows_in_array - 1) -> Samples(arrays[a].width)]
        <5>1. SUFFICES ASSUME RowsInMem(a, m) < arrays[a].rows_in_array
                       PROVE  store'[a] \in [0..(arrays[a].rows_in_array - 1) -> Samples(arrays[a].width)]
          OBVIOUS
        <5>2. a \notin whole
          BY <1>4, <3>3, <5>1
        <5>3. store'[a] = blank(a)
          BY <3>1, <3>3, <5>2
        <5>4. [k \in 0..(arrays[a].width - 1) |-> junk] \in Samples(arrays[a].width)
          BY DEF Slot, Samples
        <5> QED BY <5>3, <5>4 DEF blank
      <4> QED BY <1>4, <3>3, <4>1, <4>2, RealizeSized
    <3> QED BY <3>2, <3>3
  <2>2. CASE ~(whole = Waiting \/ opens)
    <3>1. UNCHANGED store
      BY <1>1, <2>2 DEF m
    <3>2. PICK done \in SUBSET whole :
            arrays' = [b \in Array |->
              IF b \in done THEN Realize(b, arrays[b].rows_in_array) ELSE arrays[b]]
      BY <1>1, <2>2 DEF m
    <3>3. CASE a \notin done
      BY <3>1, <3>2, <3>3
    <3>4. CASE a \in done
      <4>1. a \in Waiting /\ arrays'[a] = Realize(a, arrays[a].rows_in_array)
        BY <3>2, <3>4
      <4>2. /\ arrays[a].rows_in_array \in Nat
            /\ arrays[a].rows_in_array >= arrays[a].maxaccess
            /\ arrays[a].rows_in_array <= arrays[a].rows_in_array
            /\ ~(arrays[a].rows_in_array < arrays[a].rows_in_array)
        BY <1>4, <4>1 DEF Control
      <4> QED BY <4>1, <4>2, RealizeSized
    <3> QED BY <3>3, <3>4
  <2> QED BY <2>1, <2>2
<1>6. DOMAIN arrays' = Array /\ arrays' = [b \in Array |-> arrays'[b]] /\ DOMAIN store' = Array
  BY <1>1 DEF m, VAInv, ArraysInv
<1> HIDE DEF whole
<1>7. ArraysInv'
  <2>1. arrays' \in [Array -> Control \cup {None}]
    BY <1>5, <1>6 DEF VAInv, ArraysInv
  <2>2. \A b \in Requested' :
          /\ Fits(arrays'[b])
          /\ \/ Unrealized(arrays'[b])
             \/ /\ Sized(arrays'[b], store'[b])
                /\ Exact(arrays'[b]) => Held(arrays'[b], store'[b])
    <3> TAKE b \in Requested'
    <3>1. CASE arrays'[b] = arrays[b] /\ store'[b] = store[b]
      <4>1. b \in Requested
        BY <3>1 DEF Requested
      <4> QED BY <3>1, <4>1 DEF VAInv, ArraysInv
    <3>2. CASE ~(arrays'[b] = arrays[b] /\ store'[b] = store[b])
      BY <1>5, <3>2 DEF Requested
    <3> QED BY <3>1, <3>2
  <2> QED BY <1>6, <2>1, <2>2 DEF ArraysInv, Requested
<1>8. \A b \in Array : StripOf(b)' = <<>> /\ NoJunk(StripOf(b))'
  BY <1>2, NothingShown
<1>9. VAInv'
  <2>1. refused' \in {"", "bad access", "no backing store"}
    BY <1>1
  <2>2. Requested' \subseteq Array
    BY DEF Requested
  <2> QED BY <1>7, <1>8, <2>1, <2>2 DEF VAInv
<1>10. ASSUME NEW b \in Array PROVE UNCHANGED Content(b)
  <2>1. CASE arrays'[b] = arrays[b] /\ store'[b] = store[b]
    BY <2>1 DEF Content, Row
  <2>2. CASE ~(arrays'[b] = arrays[b] /\ store'[b] = store[b])
    <3>1. /\ b \in Waiting /\ arrays'[b].rows_in_array = arrays[b].rows_in_array
          /\ \A r \in Nat : RowOf(arrays'[b], store'[b], r) = RowOf(arrays[b], store[b], r)
      BY <1>5, <2>2
    <3>2. arrays[b].rows_in_array \in Nat
      BY <1>4, <3>1
    <3>3. \A r \in Nat : Row(b, r)' = Row(b, r)
      BY <3>1 DEF Row, RowOf
    <3> QED BY <3>1, <3>2, <3>3 DEF Content
  <2> QED BY <2>1, <2>2
<1> QED BY <1>8, <1>9, <1>10 DEF Kept, Rows!Next, Rows!Refuse

(* The abstract array reads the strip, or writes it. *)
LEMMA ReadRefines ==
  ASSUME NEW b \in Array, NEW rows \in (SUBSET DOMAIN Content(b)) \ {{}},
         UNCHANGED Content(b),
         StripOf(b)' = [r \in rows |-> Rows(b)!Shown(Content(b)[r])]
  PROVE  Rows(b)!Next
BY DEF Rows!Next, Rows!Read

LEMMA WriteRefines ==
  ASSUME NEW b \in Array, NEW start_row \in Nat, NEW end_row \in Nat, start_row < end_row,
         NEW values \in [start_row..(end_row - 1) -> Value \cup {junk}],
         start_row..(end_row - 1) \subseteq DOMAIN Content(b), DOMAIN Content(b) \subseteq Int,
         \A r \in DOMAIN Content(b) :
           (\E k \in DOMAIN Content(b)[r] : Content(b)[r][k] = junk) => r >= start_row,
         Content(b)' = [r \in DOMAIN Content(b) |->
                          IF r \notin start_row..(end_row - 1) THEN Content(b)[r]
                          ELSE IF values[r] # junk
                          THEN [k \in DOMAIN Content(b)[r] |-> values[r][k]]
                          ELSE Rows(b)!Shown(Content(b)[r])],
         StripOf(b)' = [r \in start_row..(end_row - 1) |-> Content(b)'[r]]
  PROVE  Rows(b)!Next
<1> DEFINE rows == start_row..(end_row - 1)
           Lowest(s) == \A t \in rows : s <= t
<1>1. (CHOOSE s \in rows : Lowest(s)) = start_row
  <2>1. start_row \in rows /\ Lowest(start_row)
    OBVIOUS
  <2>2. \A s \in rows : Lowest(s) => s = start_row
    <3> TAKE s \in rows
    <3>1. HAVE Lowest(s)
    <3>2. s <= start_row /\ start_row <= s
      BY <2>1, <3>1
    <3> QED BY <3>2
  <2> HIDE DEF rows, Lowest
  <2>3. (CHOOSE s \in rows : Lowest(s)) \in rows /\ Lowest(CHOOSE s \in rows : Lowest(s))
    BY <2>1
  <2> QED BY <2>2, <2>3
<1>2. ~Rows(b)!Gap(rows)
  <2>1. \A r \in Rows(b)!Undef : r >= start_row /\ r \in Int
    BY DEF Rows!Undef
  <2> QED BY <1>1, <2>1 DEF Rows!Gap
<1>3. rows \in (SUBSET DOMAIN Content(b)) \ {{}}
  <2>1. start_row \in rows
    OBVIOUS
  <2> QED BY <2>1
<1>4. Rows(b)!Write(rows)
  <2> HIDE DEF rows
  <2> QED BY <1>2 DEF Rows!Write, rows
<1> QED BY <1>3, <1>4 DEF Rows!Next

LEMMA AccessHolds ==
  ASSUME VAInv, NEW a \in Realized, NEW start_row \in Nat, NEW num_rows \in Nat \ {0},
         NEW writable \in BOOLEAN, Access(a, start_row, num_rows, writable)
  PROVE  VAInv' /\ Kept
<1> DEFINE p == arrays[a]
           end_row == start_row + num_rows
           rows == start_row..(end_row - 1)
           t == IF ~Inside(p, start_row, end_row) /\ p.dirty
                THEN WriteStore(p, store[a]) ELSE store[a]
           q == Moved(p, t, start_row, end_row)
<1>1. /\ a \in Array /\ a \in Requested /\ p # None /\ p \in Control
      /\ Fits(p) /\ Sized(p, store[a]) /\ (Exact(p) => Held(p, store[a]))
      /\ p.rows_in_array \in Nat /\ p.maxaccess \in Nat /\ p.width \in Nat
  BY RealizedSized DEF VAInv, Control
<1>2. CASE Misused(p, start_row, end_row, num_rows)
  <2>1. refused' = "bad access" /\ strip' = NoStrip /\ UNCHANGED <<arrays, store>>
    BY <1>2 DEF Access, Refuse
  <2> QED BY <2>1, RefusalHolds
<1>3. CASE ~Misused(p, start_row, end_row, num_rows)
  <2>1. end_row <= p.rows_in_array /\ num_rows <= p.maxaccess
    BY <1>1, <1>3 DEF Misused
  <2>2. Inside(p, start_row, end_row) \/ p.b_s_open
    BY <1>1, <2>1 DEF Inside, Sized
  <2>3. /\ q \in Control /\ Fits(q) /\ Sized(q, t) /\ Inside(q, start_row, end_row)
        /\ q.rows_in_array = p.rows_in_array /\ q.pre_zero = p.pre_zero /\ q.width = p.width
        /\ q.first_undef_row = p.first_undef_row /\ Exact(q) = Exact(p)
        /\ Exact(p) =>
             /\ Held(q, t)
             /\ \A r \in 0..(p.rows_in_array - 1) : RowOf(q, t, r) = RowOf(p, store[a], r)
    <3>1. end_row \in Nat /\ start_row < end_row /\ end_row <= start_row + p.maxaccess
      BY <1>1, <2>1
    <3> HIDE DEF p, end_row
    <3>2. /\ q \in Control /\ Sized(q, t) /\ Inside(q, start_row, end_row) /\ Same(q, p)
          /\ Exact(p) /\ Held(p, store[a]) =>
               /\ Held(q, t)
               /\ \A r \in 0..(p.rows_in_array - 1) : RowOf(q, t, r) = RowOf(p, store[a], r)
      BY <1>1, <2>2, <3>1, Positioned
    <3> HIDE DEF q, t
    <3>3. Fits(q) /\ Exact(q) = Exact(p)
      BY <1>1, <3>2 DEF Fits, Exact, Stride, Same
    <3> QED BY <1>1, <3>2, <3>3 DEF Same
  <2>4. Content(a) = [r \in 0..(p.rows_in_array - 1) |-> RowOf(p, store[a], r)]
    BY DEF Content, Row, RowOf
  <2>5. ASSUME NEW d \in Control, NEW s, arrays' = [arrays EXCEPT ![a] = d],
               store' = [store EXCEPT ![a] = s], Fits(d), Sized(d, s),
               Exact(d) => Held(d, s), d.rows_in_array = p.rows_in_array
        PROVE  /\ ArraysInv' /\ Requested' = Requested /\ arrays'[a] = d
               /\ Content(a)' = [r \in 0..(p.rows_in_array - 1) |-> RowOf(d, s, r)]
               /\ \A b \in Array \ {a} : UNCHANGED Content(b)
    <3>1. /\ arrays'[a] = d /\ store'[a] = s
          /\ \A b \in Array \ {a} : arrays'[b] = arrays[b] /\ store'[b] = store[b]
      BY <1>1, <2>5 DEF VAInv, ArraysInv
    <3>2. d # None
      BY NoneNotControl
    <3>3. Requested' = Requested
      BY <1>1, <3>1, <3>2 DEF Requested
    <3>4. arrays' \in [Array -> Control \cup {None}] /\ DOMAIN store' = Array
      BY <1>1, <2>5 DEF VAInv, ArraysInv
    <3>5. \A b \in Requested :
            /\ Fits(arrays'[b])
            /\ \/ Unrealized(arrays'[b])
               \/ /\ Sized(arrays'[b], store'[b])
                  /\ Exact(arrays'[b]) => Held(arrays'[b], store'[b])
      BY <2>5, <3>1 DEF VAInv, ArraysInv, Requested
    <3>6. Content(a)' = [r \in 0..(p.rows_in_array - 1) |-> RowOf(d, s, r)]
      <4>1. \A r : Row(a, r)' = RowOf(d, s, r)
        BY <3>1 DEF Row, RowOf
      <4>2. arrays'[a].rows_in_array = p.rows_in_array
        BY <2>5, <3>1
      <4> HIDE DEF p
      <4> QED BY <4>1, <4>2 DEF Content
    <3>7. \A b \in Array \ {a} : UNCHANGED Content(b)
      BY <3>1 DEF Content, Row
    <3> QED BY <3>1, <3>3, <3>4, <3>5, <3>6, <3>7 DEF ArraysInv, Requested
  <2>6. ~(~Inside(p, start_row, end_row) /\ ~p.b_s_open)
    BY <2>2
  <2>7. CASE Undefinable(p, start_row, end_row, writable)
    <3>1. /\ arrays' = [arrays EXCEPT ![a] = q] /\ store' = [store EXCEPT ![a] = t]
          /\ strip' = NoStrip /\ refused' = "bad access"
      BY <1>3, <2>6, <2>7 DEF Access
    <3> HIDE DEF q, t
    <3>2. /\ ArraysInv' /\ Requested' = Requested
          /\ Content(a)' = [r \in 0..(p.rows_in_array - 1) |-> RowOf(q, t, r)]
          /\ \A b \in Array \ {a} : UNCHANGED Content(b)
      BY <2>3, <2>5, <3>1
    <3>3. \A b \in Array : Promised(b) => UNCHANGED Content(b)
      BY <1>1, <2>3, <2>4, <3>2 DEF Promised
    <3>4. \A b \in Array : StripOf(b)' = <<>> /\ NoJunk(StripOf(b))'
      BY <3>1, NothingShown
    <3>5. VAInv'
      <4>1. Requested' \subseteq Array
        BY DEF Requested
      <4> QED BY <3>1, <3>2, <3>4, <4>1 DEF VAInv
    <3> QED BY <3>3, <3>4, <3>5 DEF Kept, Rows!Next, Rows!Refuse
  <2>8. CASE ~Undefinable(p, start_row, end_row, writable)
    <3>1. PICK values \in [rows -> Value \cup {junk}] :
            /\ writable \/ \A r \in rows : values[r] = junk
            /\ (writable /\ ~p.pre_zero) =>
                 \A r \in rows : r >= p.first_undef_row => values[r] # junk
            /\ LET done == Done(q, start_row, end_row, writable, values) IN
               /\ arrays' = [arrays EXCEPT ![a] = done]
               /\ strip' = [of |-> a,
                            rows |-> [r \in rows |->
                                        Line(p, done.mem_buffer[r - done.cur_start_row])]]
            /\ store' = [store EXCEPT ![a] = t]
            /\ refused' = ""
      BY <1>3, <2>6, <2>8 DEF Access, Done
    <3> DEFINE d == Done(q, start_row, end_row, writable, values)
    <3>2. arrays' = [arrays EXCEPT ![a] = d] /\ store' = [store EXCEPT ![a] = t] /\ refused' = ""
      BY <3>1
    <3>3. strip' = [of |-> a, rows |-> [r \in rows |-> Line(p, d.mem_buffer[r - d.cur_start_row])]]
      BY <3>1
    <3>4. end_row \in Nat /\ start_row < end_row
      OBVIOUS
    <3>5. ~Undefinable(q, start_row, end_row, writable)
      BY <2>3, <2>8 DEF Undefinable
    <3> HIDE DEF p, q, t, end_row
    <3>6. /\ d \in Control /\ Fits(d) /\ Sized(d, t) /\ d.rows_in_array = q.rows_in_array
          /\ d.width = q.width /\ Exact(d) = Exact(q)
      <4>1. end_row <= q.rows_in_array
        BY <2>1, <2>3
      <4>2. q \in Control /\ Fits(q) /\ Sized(q, t) /\ Inside(q, start_row, end_row)
        BY <2>3
      <4>3. /\ d \in Control /\ Sized(d, t)
            /\ d.rows_in_array = q.rows_in_array
            /\ d.width = q.width /\ d.kind = q.kind /\ d.b_s_open = q.b_s_open
        <5>1. values \in [start_row..(end_row - 1) -> Value \cup {junk}]
          BY <3>1
        <5>2. d = Done(q, start_row, end_row, writable, values)
          OBVIOUS
        <5> HIDE DEF rows, d
        <5> QED BY <3>4, <4>1, <4>2, <5>1, <5>2, DoneFields
      <4> HIDE DEF d
      <4> QED BY <4>2, <4>3 DEF Fits, Exact, Stride
    <3>7. ASSUME Exact(p)
          PROVE  /\ Held(d, t)
                 /\ \A r \in rows :
                      /\ Line(d, d.mem_buffer[r - d.cur_start_row]) = Left(q, t, values, r)
                      /\ \A k \in 0..(q.width - 1) : Left(q, t, values, r)[k] # junk
                 /\ \A r \in 0..(q.rows_in_array - 1) :
                      RowOf(d, t, r) = IF writable /\ r \in rows
                                       THEN Left(q, t, values, r) ELSE RowOf(q, t, r)
      <4>1. end_row <= q.rows_in_array
        BY <2>1, <2>3
      <4>2. (writable /\ ~q.pre_zero) => \A r \in rows : r >= q.first_undef_row => values[r] # junk
        BY <2>3, <3>1
      <4>3. /\ values \in [start_row..(end_row - 1) -> Value \cup {junk}]
            /\ writable \/ \A r \in rows : values[r] = junk
        BY <3>1
      <4>4. /\ q \in Control /\ Fits(q) /\ Sized(q, t) /\ Exact(q) /\ Held(q, t)
            /\ Inside(q, start_row, end_row)
        BY <2>3, <3>7
      <4> QED BY <3>4, <3>5, <4>1, <4>2, <4>3, <4>4, StripServed
    <3> HIDE DEF d
    <3>8. /\ ArraysInv' /\ Requested' = Requested /\ arrays'[a] = d
          /\ Content(a)' = [r \in 0..(p.rows_in_array - 1) |-> RowOf(d, t, r)]
          /\ \A b \in Array \ {a} : UNCHANGED Content(b)
      <4>1. Exact(d) => Held(d, t)
        BY <2>3, <3>6, <3>7
      <4> QED BY <2>3, <2>5, <3>2, <3>6, <4>1
    <3>9. \A b \in Array \ {a} : StripOf(b)' = <<>>
      BY <3>3 DEF StripOf
    <3>10. StripOf(a)' = [r \in rows |-> Line(p, d.mem_buffer[r - d.cur_start_row])]
      <4> HIDE DEF rows
      <4> QED BY <3>3 DEF StripOf
    <3>11. Exact(p) => StripOf(a)' = [r \in rows |-> Left(q, t, values, r)]
      <4>1. \A row : Line(p, row) = Line(d, row)
        BY <2>3, <3>6 DEF Line
      <4> HIDE DEF rows
      <4> QED BY <3>7, <3>10, <4>1
    <3>12. ASSUME NEW b \in Requested', Exact(arrays'[b]) PROVE NoJunk(StripOf(b))'
      <4>1. CASE b = a
        <5>1. Exact(p)
          BY <2>3, <3>6, <3>8, <3>12, <4>1
        <5>2. StripOf(b)' = [r \in rows |-> Left(q, t, values, r)]
          BY <3>11, <4>1, <5>1
        <5>3. \A r \in rows : DOMAIN Left(q, t, values, r) = 0..(q.width - 1)
          BY DEF Left
        <5>4. \A r \in rows : \A k \in DOMAIN Left(q, t, values, r) : Left(q, t, values, r)[k] # junk
          BY <3>7, <5>1, <5>3
        <5> HIDE DEF rows
        <5> QED BY <5>2, <5>4 DEF NoJunk
      <4>2. CASE b # a
        <5>1. StripOf(b)' = <<>>
          BY <3>9, <4>2 DEF Requested
        <5>2. DOMAIN StripOf(b)' = {}
          BY <5>1
        <5> QED BY <5>2 DEF NoJunk
      <4> QED BY <4>1, <4>2
    <3>13. VAInv'
      <4>1. a \in Requested'
        BY <1>1, <3>8
      <4>2. \A b \in Array \ Requested' : StripOf(b)' = <<>>
        BY <3>9, <4>1
      <4> QED BY <3>2, <3>8, <3>12, <4>2 DEF VAInv
    <3>14. ASSUME Exact(p) PROVE Rows(a)!Next
      <4>0. /\ DOMAIN Content(a) = 0..(p.rows_in_array - 1) /\ rows \subseteq DOMAIN Content(a)
            /\ \A r \in DOMAIN Content(a) : Content(a)[r] = RowOf(q, t, r)
        BY <1>1, <2>1, <2>3, <2>4, <3>4, <3>14
      <4>1. \A r \in DOMAIN Content(a) : DOMAIN Content(a)[r] = 0..(q.width - 1)
        <5>1. ASSUME NEW r \in DOMAIN Content(a)
              PROVE  DOMAIN RowOf(q, t, r) = 0..(q.width - 1)
          <6>1. r \in 0..(q.rows_in_array - 1)
            BY <2>3, <4>0
          <6>2. /\ q.rows_in_array \in Nat /\ q.cur_start_row \in Nat /\ q.rows_in_mem \in Nat
                /\ q.first_undef_row \in Nat /\ q.b_s_open \in BOOLEAN
            BY <2>3 DEF Control
          <6>3. CASE q.rows_in_mem = 0 \/ r >= q.first_undef_row
            BY <6>3 DEF RowOf
          <6>4. CASE /\ ~(q.rows_in_mem = 0 \/ r >= q.first_undef_row)
                     /\ r \in q.cur_start_row..(q.cur_start_row + q.rows_in_mem - 1)
            BY <6>4 DEF RowOf, Line
          <6>5. CASE /\ ~(q.rows_in_mem = 0 \/ r >= q.first_undef_row)
                     /\ r \notin q.cur_start_row..(q.cur_start_row + q.rows_in_mem - 1)
            <7>1. q.b_s_open
              BY <2>3, <6>1, <6>2, <6>5 DEF Sized
            <7>2. t[r] \in [0..(q.width - 1) -> Slot]
              BY <2>3, <6>1, <7>1 DEF Sized, Samples
            <7>3. RowOf(q, t, r) = t[r]
              BY <6>5 DEF RowOf
            <7> QED BY <7>2, <7>3
          <6> QED BY <6>3, <6>4, <6>5
        <5> QED BY <4>0, <5>1
      <4>2. \A r \in rows :
              Left(q, t, values, r) = IF values[r] # junk
                                      THEN [k \in DOMAIN Content(a)[r] |-> values[r][k]]
                                      ELSE Rows(a)!Shown(Content(a)[r])
        <5>1. ASSUME NEW r \in rows
              PROVE  Left(q, t, values, r) = IF values[r] # junk
                                             THEN [k \in DOMAIN Content(a)[r] |-> values[r][k]]
                                             ELSE Rows(a)!Shown(Content(a)[r])
          <6>1. r \in DOMAIN Content(a) /\ Content(a)[r] = RowOf(q, t, r)
                /\ DOMAIN Content(a)[r] = 0..(q.width - 1)
            BY <4>0, <4>1
          <6>2. Rows(a)!Shown(Content(a)[r]) =
                  [k \in 0..(q.width - 1) |-> IF RowOf(q, t, r)[k] = junk THEN zero ELSE RowOf(q, t, r)[k]]
            BY <6>1 DEF Rows!Shown
          <6> QED BY <6>1, <6>2 DEF Left
        <5> QED BY <5>1
      <4>3. CASE ~writable
        <5>1. Content(a)' = Content(a)
          <6>1. \A r \in 0..(p.rows_in_array - 1) : RowOf(d, t, r) = RowOf(p, store[a], r)
            BY <2>3, <3>7, <3>14, <4>3
          <6> QED BY <2>4, <3>8, <6>1
        <5>2. StripOf(a)' = [r \in rows |-> Rows(a)!Shown(Content(a)[r])]
          <6>1. \A r \in rows : values[r] = junk
            BY <3>1, <4>3
          <6> HIDE DEF rows
          <6> QED BY <3>11, <3>14, <4>2, <6>1
        <5>3. rows \in (SUBSET DOMAIN Content(a)) \ {{}}
          BY <3>4, <4>0
        <5> HIDE DEF rows
        <5> QED BY <1>1, <5>1, <5>2, <5>3, ReadRefines
      <4>4. CASE writable
        <5>1. Content(a)' = [r \in DOMAIN Content(a) |->
                               IF r \notin rows THEN Content(a)[r]
                               ELSE IF values[r] # junk
                               THEN [k \in DOMAIN Content(a)[r] |-> values[r][k]]
                               ELSE Rows(a)!Shown(Content(a)[r])]
          <6>1. \A r \in 0..(p.rows_in_array - 1) :
                  RowOf(d, t, r) = IF r \in rows THEN Left(q, t, values, r) ELSE Content(a)[r]
            BY <2>3, <3>7, <3>14, <4>0, <4>4
          <6> HIDE DEF rows
          <6> QED BY <3>8, <4>0, <4>2, <6>1
        <5>2. StripOf(a)' = [r \in rows |-> Content(a)'[r]]
          <6>1. \A r \in rows : Content(a)'[r] = Left(q, t, values, r)
            <7> HIDE DEF rows
            <7> QED BY <4>0, <4>2, <5>1
          <6> HIDE DEF rows
          <6> QED BY <3>11, <3>14, <6>1
        <5>3. ASSUME NEW r \in DOMAIN Content(a), NEW k \in DOMAIN Content(a)[r],
                     Content(a)[r][k] = junk
              PROVE  r >= start_row
          <6>1. r \in Nat /\ RowOf(q, t, r)[k] = junk /\ k \in 0..(q.width - 1)
            <7>1. r \in Nat
              BY <1>1, <4>0, <5>3
            <7>2. RowOf(q, t, r)[k] = junk
              BY <4>0, <5>3
            <7>3. k \in 0..(q.width - 1)
              BY <4>1, <5>3
            <7> QED BY <7>1, <7>2, <7>3
          <6>2. q.first_undef_row \in Nat /\ ~(r < q.first_undef_row)
            BY <2>3, <3>14, <6>1 DEF Held, Control
          <6>3. CASE q.first_undef_row < end_row
            BY <3>5, <4>4, <6>1, <6>2, <6>3 DEF Undefinable
          <6>4. CASE ~(q.first_undef_row < end_row)
            BY <3>4, <6>1, <6>2, <6>4
          <6> QED BY <6>3, <6>4
        <5>4. DOMAIN Content(a) \subseteq Int
          BY <4>0
        <5> QED BY <1>1, <3>4, <4>0, <5>1, <5>2, <5>3, <5>4, WriteRefines
      <4> QED BY <4>3, <4>4
    <3>15. \A b \in Array \ {a} : Rows(b)!Next
      BY <3>8, <3>9 DEF Rows!Next, Rows!Refuse
    <3>16. Promised(a) => Exact(p)
      BY <1>1 DEF Promised, p
    <3> QED BY <1>1, <3>13, <3>14, <3>15, <3>16 DEF Kept
  <2> QED BY <2>7, <2>8
<1> QED BY <1>2, <1>3

LEMMA FreeHolds ==
  ASSUME VAInv, FreeImagePool
  PROVE  VAInv' /\ Kept
<1>1. /\ arrays' = [a \in Array |-> None] /\ store' = [a \in Array |-> <<>>]
      /\ strip' = NoStrip /\ refused' = ""
  BY DEF FreeImagePool
<1>2. \A b \in Array : StripOf(b)' = <<>>
  BY <1>1, NothingShown
<1>3. VAInv'
  BY <1>1, <1>2 DEF VAInv, ArraysInv, Requested
<1>4. ASSUME NEW b \in Array PROVE Rows(b)!Create
  <2>1. arrays'[b].rows_in_array = 0
    BY <1>1 DEF None
  <2>2. DOMAIN Content(b)' = {}
    BY <2>1 DEF Content
  <2> QED BY <1>2, <2>2 DEF Rows!Create
<1> QED BY <1>3, <1>4 DEF Kept, Rows!Next

-----------------------------------------------------------------------------

LEMMA VAInitHolds == VAInit => VAInv
<1> SUFFICES ASSUME VAInit PROVE VAInv
  OBVIOUS
<1>1. \A b \in Array : StripOf(b) = <<>>
  <2>1. strip.rows = <<>>
    BY DEF VAInit, NoStrip
  <2> QED BY <2>1 DEF StripOf
<1>2. Requested = {}
  BY DEF VAInit, Requested
<1> QED BY <1>1, <1>2 DEF VAInit, VAInv, ArraysInv

LEMMA VANextHolds ==
  ASSUME VAInv, [VANext]_vaVars
  PROVE  VAInv' /\ (Kept \/ UNCHANGED vaVars)
<1>1. CASE UNCHANGED vaVars
  <2>1. UNCHANGED <<arrays, store, strip, refused>>
    BY <1>1 DEF vaVars
  <2>2. ArraysInv'
    BY <2>1 DEF VAInv, ArraysInv, Requested
  <2>3. Requested' = Requested /\ \A b \in Array : StripOf(b)' = StripOf(b)
    BY <2>1 DEF Requested, StripOf
  <2>4. \A b \in Requested : NoJunk(StripOf(b)) => NoJunk(StripOf(b))'
    BY <2>3 DEF NoJunk, Requested
  <2> QED BY <1>1, <2>1, <2>2, <2>3, <2>4 DEF VAInv
<1>2. ASSUME NEW a \in Array, request_virt_sarray(a) \/ request_virt_barray(a)
      PROVE  VAInv' /\ Kept
  BY <1>2, RequestHolds DEF request_virt_sarray, request_virt_barray
<1>3. CASE realize_virt_arrays
  BY <1>3, RealizeHolds
<1>4. ASSUME NEW a \in Array, access_virt_sarray(a) \/ access_virt_barray(a)
      PROVE  VAInv' /\ Kept
  <2>1. a \in Realized /\ arrays[a].rows_in_array \in Nat /\ arrays[a].maxaccess \in Nat
    BY <1>4, RealizedSized DEF access_virt_sarray, access_virt_barray, VAInv, Control
  <2>2. PICK start_row \in 0..arrays[a].rows_in_array, n \in 1..(arrays[a].maxaccess + 1),
             writable \in BOOLEAN : Access(a, start_row, n, writable)
    BY <1>4 DEF access_virt_sarray, access_virt_barray
  <2>3. start_row \in Nat /\ n \in Nat \ {0}
    BY <2>1
  <2> QED BY <2>1, <2>2, <2>3, AccessHolds
<1>5. CASE FreeImagePool
  BY <1>5, FreeHolds
<1> QED BY <1>1, <1>2, <1>3, <1>4, <1>5 DEF VANext

(* What an access to an array whose transfers are exact hands out has been *)
(* written or zeroed, or the access is refused, and no legal sequence of   *)
(* accesses to any array meets the error for a bug of the library          *)
(* (jmemmgr.c:783-957), for any arrays, widths, chunks, windows and memory.*)
THEOREM RowsDefinedHolds == VASpec => []RowsDefined
<1>1. ASSUME VAInv PROVE RowsDefined
  <2>1. \A a \in Realized : Sized(arrays[a], store[a])
    BY <1>1, RealizedSized DEF VAInv
  <2> QED BY <1>1, <2>1 DEF VAInv, Sized, RowsDefined, VATypeOK, NoVirtualBug
<1> QED BY <1>1, VAInitHolds, VANextHolds, PTL DEF VASpec

(* Every step of every virtual array whose transfers are exact, which all  *)
(* arrays of blocks and all arrays in memory are, is a step of the rows it *)
(* stands for: windows, chunks and backing stores lose no sample that was  *)
(* written, whatever the height and width of the array and the memory it   *)
(* gets (jmemmgr.c:419-957).                                               *)
THEOREM RowsKeptHolds == VASpec => RowsKept
<1>1. ASSUME VAInv, [VANext]_vaVars
      PROVE  [\A a \in Array : (a \in Requested => Exact(arrays[a])) =>
                Rows(a)!Next \/ UNCHANGED <<Content(a), StripOf(a)>>]_vaVars
  BY <1>1, VANextHolds DEF Kept, Promised
<1> QED BY <1>1, VAInitHolds, VANextHolds, PTL DEF VASpec, RowsKept

-----------------------------------------------------------------------------
(* The choice of SIMD routines: what every list of routines looks like. *)

Routine(r) ==
  r = [isa |-> r.isa, const |-> r.const, layout |-> r.layout] /\ r.isa # "none"

(* Both lists of an operation are lists of routines, and without x86_64    *)
(* jsimd_X() tries what jsimd_can_X() looked at.                           *)
Listed(list) == DOMAIN list \subseteq Nat /\ \A i \in DOMAIN list : Routine(list[i])

SameAs(list, other) ==
  /\ DOMAIN list = DOMAIN other
  /\ \A i \in DOMAIN list : list[i].isa = other[i].isa /\ list[i].const = other[i].const

LEMMA PlainIs ==
  ASSUME NEW isa, isa # "none", NEW const
  PROVE  Routine(R(isa, const)) /\ Routine(Plain(isa))
  BY DEF Routine, R, Plain

LEMMA ListedShort ==
  /\ Listed(<<>>)
  /\ \A r : Routine(r) => Listed(<<r>>)
  /\ \A r, s : Routine(r) /\ Routine(s) => Listed(<<r, s>>)
  /\ \A r, s, u : Routine(r) /\ Routine(s) /\ Routine(u) => Listed(<<r, s, u>>)
  BY DEF Listed

LEMMA BothSame ==
  ASSUME NEW list, Listed(list)
  PROVE  /\ Listed(Both(list).can) /\ Listed(Both(list).run)
         /\ SameAs(Both(list).run, Both(list).can)
  BY DEF Both, SameAs

LEMMA LaidSame ==
  ASSUME NEW list, Listed(list), NEW default
  PROVE  /\ Listed(Laid(list, default)) /\ SameAs(Laid(list, default), list)
         /\ \A i \in DOMAIN Laid(list, default) :
              Laid(list, default)[i].layout = layout(op.space, default)
<1> DEFINE name == layout(op.space, default)
<1>2. \A i \in DOMAIN list : Routine([list[i] EXCEPT !.layout = name])
  BY DEF Listed, Routine
<1>3. \A i \in DOMAIN list : /\ [list[i] EXCEPT !.layout = name].isa = list[i].isa
                             /\ [list[i] EXCEPT !.layout = name].const = list[i].const
                             /\ [list[i] EXCEPT !.layout = name].layout = name
  BY DEF Listed, Routine
<1>4. DOMAIN Laid(list, default) = DOMAIN list /\ DOMAIN list \subseteq Nat
  BY DEF Laid, Listed
<1>5. \A i \in DOMAIN list : Laid(list, default)[i] = [list[i] EXCEPT !.layout = name]
  BY DEF Laid
<1> HIDE DEF name
<1>6. Listed(Laid(list, default))
  BY <1>2, <1>4, <1>5 DEF Listed
<1>7. SameAs(Laid(list, default), list)
  BY <1>3, <1>4, <1>5 DEF SameAs
<1>8. \A i \in DOMAIN Laid(list, default) : Laid(list, default)[i].layout = name
  BY <1>3, <1>4, <1>5
<1> QED BY <1>6, <1>7, <1>8 DEF name

-----------------------------------------------------------------------------
(* The tables of the architectures. *)

Agreeing(lists) == Listed(lists.can) /\ Listed(lists.run) /\ SameAs(lists.run, lists.can)

(* x86_64 has SSE2 and jsimd_X() looks at nothing. *)
Unchecked(lists) ==
  /\ Listed(lists.can) /\ Listed(lists.run)
  /\ 1 \in DOMAIN lists.run /\ lists.run[1].isa = "SSE2" /\ lists.run[1].const = "none"

Coloured(list) ==
  \A i \in DOMAIN list : list[i].layout \in {layout(op.space, "rgb"), layout(op.space, "extrgb")}

LEMMA BothAgree ==
  ASSUME NEW list, Listed(list)
  PROVE  Agreeing(Both(list))
  BY BothSame DEF Agreeing

LEMMA LaidAgree ==
  ASSUME NEW list, Listed(list), NEW default \in {"rgb", "extrgb"}
  PROVE  /\ Agreeing([can |-> list, run |-> Laid(list, default)])
         /\ Coloured(Laid(list, default))
<1>1. Coloured(Laid(list, default))
  BY LaidSame DEF Coloured
<1> QED BY <1>1, LaidSame DEF Agreeing

LEMMA NeverAgrees == Agreeing(Never) /\ Coloured(Never.run)
<1>1. Agreeing(Never)
  BY ListedShort, BothAgree DEF Never
<1>2. Never.run = <<>>
  BY DEF Never, Both
<1> QED BY <1>1, <1>2 DEF Coloured

LEMMA I386Lists ==
  ASSUME NEW f, f # "fdct_ifast"
  PROVE  /\ Agreeing(i386(f))
         /\ f \in OnPixels => Coloured(i386(f).run)
<1> DEFINE convert == [can |-> i386_can_convert(f), run |-> i386_convert(f, "rgb")]
           merged == [can |-> i386_can_merged_upsample, run |-> i386_merged_upsample]
           forward == [can |-> i386_can_fdct(f), run |-> i386_fdct(f)]
<1>1. Agreeing(convert) /\ Coloured(convert.run)
  <2>1. Listed(<<R("SSE2", f), Plain("MMX")>>)
    BY PlainIs, ListedShort
  <2> QED BY <2>1, LaidAgree DEF i386_can_convert, i386_convert
<1>2. Agreeing(merged) /\ Coloured(merged.run)
  <2>1. Listed(<<R("SSE2", "merged_upsample"), Plain("MMX")>>)
    BY PlainIs, ListedShort
  <2> QED BY <2>1, LaidAgree DEF i386_can_merged_upsample, i386_merged_upsample
<1>3. Agreeing(i386_downsample) /\ Agreeing(i386_upsample) /\ Agreeing(i386_fancy_upsample)
      /\ Agreeing(i386_idct_red)
  <2>1. /\ Listed(<<Plain("SSE2"), Plain("MMX")>>)
        /\ Listed(<<R("SSE2", "fancy_upsample"), Plain("MMX")>>)
        /\ Listed(<<R("SSE2", "idct_red"), Plain("MMX")>>)
    BY PlainIs, ListedShort
  <2> QED BY <2>1, BothAgree DEF i386_downsample, i386_upsample, i386_fancy_upsample, i386_idct_red
<1>4. Agreeing(i386_convsamp(f)) /\ Agreeing(i386_quantize(f)) /\ Agreeing(i386_idct(f))
  <2>1. /\ Listed(<<Plain("SSE2"), Plain("MMX")>>)
        /\ Listed(<<Plain("SSE2"), Plain("SSE"), Plain("3DNOW")>>)
        /\ Listed(<<R("SSE2", "idct_float_sse2"), R("SSE", "idct_float_sse"), Plain("3DNOW")>>)
        /\ Listed(<<R("SSE2", f), Plain("MMX")>>)
    BY PlainIs, ListedShort
  <2> QED BY <2>1, BothAgree DEF i386_convsamp, i386_quantize, i386_idct
<1>5. f \in {"fdct_islow", "fdct_float"} => Agreeing(forward)
  <2>1. /\ Listed(<<R("SSE", f), Plain("3DNOW")>>)
        /\ Listed(<<R("SSE2", "fdct_islow"), Plain("MMX")>>)
    BY PlainIs, ListedShort
  <2>2. forward.can = forward.run \/ f \notin {"fdct_islow", "fdct_float"}
    BY DEF i386_can_fdct, i386_fdct
  <2>3. f \in {"fdct_islow", "fdct_float"} => Listed(forward.run)
    BY <2>1 DEF i386_fdct
  <2> QED BY <2>2, <2>3 DEF Agreeing, SameAs
<1> HIDE DEF convert, merged, forward
<1>6. CASE f \in {"rgb_ycc_convert", "rgb_gray_convert", "ycc_rgb_convert"}
  <2>1. i386(f) = convert
    BY <1>6 DEF i386, convert, Downsampling, Upsampling, Fancy, Merged, Reduced
  <2> QED BY <2>1, <1>1
<1>7. CASE f \in {"h2v2_merged_upsample", "h2v1_merged_upsample"}
  <2>1. i386(f) = merged
    BY <1>7 DEF i386, merged, Downsampling, Upsampling, Fancy, Merged, Reduced
  <2> QED BY <2>1, <1>2
<1>8. CASE f \notin OnPixels
  <2>1. i386(f) \in {i386_downsample, i386_upsample, i386_fancy_upsample, i386_idct_red,
                     i386_convsamp(f), i386_quantize(f), i386_idct(f)}
        \/ (f \in {"fdct_islow", "fdct_float"} /\ i386(f) = forward)
    BY <1>8 DEF i386, forward, OnPixels, Conversions, Merged
  <2> QED BY <2>1, <1>3, <1>4, <1>5, <1>8
<1> QED BY <1>6, <1>7, <1>8 DEF OnPixels, Conversions, Merged

LEMMA ArmLists ==
  ASSUME NEW f
  PROVE  /\ Agreeing(arm(f))
         /\ f \in OnPixels => Coloured(arm(f).run)
<1>1. Listed(<<Plain("NEON")>>)
  BY PlainIs, ListedShort
<1>2. Agreeing(arm_convert(f)) /\ Coloured(arm_convert(f).run)
  BY <1>1, LaidAgree, NeverAgrees DEF arm_convert
<1>3. Agreeing(arm_sample) /\ Coloured(arm_sample.run)
  BY NeverAgrees DEF arm_sample
<1>4. Agreeing(arm_fancy_upsample(f)) /\ Agreeing(arm_forward(f)) /\ Agreeing(arm_inverse(f))
  BY <1>1, BothAgree, NeverAgrees DEF arm_fancy_upsample, arm_forward, arm_inverse
<1>5. CASE f \in {"rgb_ycc_convert", "rgb_gray_convert", "ycc_rgb_convert"}
  <2>1. arm(f) = arm_convert(f)
    BY <1>5 DEF arm, Conversions, Downsampling, Upsampling, Merged, Fancy
  <2> QED BY <2>1, <1>2
<1>6. CASE f \in {"h2v2_merged_upsample", "h2v1_merged_upsample"}
  <2>1. arm(f) = arm_sample
    BY <1>6 DEF arm, Conversions, Downsampling, Upsampling, Merged, Fancy
  <2> QED BY <2>1, <1>3
<1>7. CASE f \notin OnPixels
  <2>1. arm(f) \in {arm_sample, arm_fancy_upsample(f), arm_inverse(f), arm_forward(f)}
    BY <1>7 DEF arm, OnPixels, Merged
  <2> QED BY <2>1, <1>3, <1>4, <1>7
<1> QED BY <1>5, <1>6, <1>7 DEF OnPixels, Conversions, Merged

LEMMA AlwaysUnchecked ==
  ASSUME NEW const
  PROVE  Unchecked(Always(const))
<1>1. Listed(<<R("SSE2", const)>>) /\ Listed(<<Plain("SSE2")>>)
  BY PlainIs, ListedShort
<1> QED BY <1>1 DEF Always, Unchecked, Plain, R

LEMMA BothUnchecked ==
  ASSUME NEW list, list = <<Plain("SSE2")>>
  PROVE  Unchecked(Both(list))
<1>1. Listed(<<Plain("SSE2")>>)
  BY PlainIs, ListedShort
<1> QED BY <1>1 DEF Both, Unchecked, Plain, R

LEMMA LaidUnchecked ==
  ASSUME NEW list, Listed(list)
  PROVE  LET lists == [can |-> list, run |-> Laid(<<Plain("SSE2")>>, "rgb")]
         IN Unchecked(lists) /\ Coloured(lists.run)
<1>1. Listed(<<Plain("SSE2")>>)
  BY PlainIs, ListedShort
<1>2. /\ Listed(Laid(<<Plain("SSE2")>>, "rgb")) /\ Coloured(Laid(<<Plain("SSE2")>>, "rgb"))
      /\ SameAs(Laid(<<Plain("SSE2")>>, "rgb"), <<Plain("SSE2")>>)
  BY <1>1, LaidSame DEF Coloured
<1> QED BY <1>2 DEF Unchecked, SameAs, Plain, R

LEMMA X8664Lists ==
  ASSUME NEW f
  PROVE  /\ Unchecked(x86_64(f))
         /\ f \in OnPixels => Coloured(x86_64(f).run)
<1> DEFINE convert == [can |-> x86_64_can_convert(f), run |-> x86_64_convert("rgb")]
           merged == [can |-> x86_64_can_merged_upsample, run |-> x86_64_merged_upsample]
<1>1. Unchecked(convert) /\ Coloured(convert.run)
  <2>1. Listed(<<R("SSE2", f)>>)
    BY PlainIs, ListedShort
  <2> QED BY <2>1, LaidUnchecked DEF x86_64_can_convert, x86_64_convert
<1>2. Unchecked(merged) /\ Coloured(merged.run)
  <2>1. Listed(<<R("SSE2", "merged_upsample")>>)
    BY PlainIs, ListedShort
  <2> QED BY <2>1, LaidUnchecked DEF x86_64_can_merged_upsample, x86_64_merged_upsample
<1> HIDE DEF convert, merged
<1>3. /\ Unchecked(x86_64_downsample) /\ Unchecked(x86_64_upsample)
      /\ Unchecked(x86_64_convsamp) /\ Unchecked(x86_64_quantize)
  BY BothUnchecked DEF x86_64_downsample, x86_64_upsample, x86_64_convsamp, x86_64_quantize
<1>4. /\ Unchecked(x86_64_fancy_upsample) /\ Unchecked(x86_64_fdct(f))
      /\ Unchecked(x86_64_idct_red) /\ Unchecked(x86_64_idct(f))
  BY AlwaysUnchecked DEF x86_64_fancy_upsample, x86_64_fdct, x86_64_idct_red, x86_64_idct
<1>5. CASE f \in {"rgb_ycc_convert", "rgb_gray_convert", "ycc_rgb_convert"}
  <2>1. x86_64(f) = convert
    BY <1>5 DEF x86_64, convert, Downsampling, Upsampling, Fancy, Merged, Reduced
  <2> QED BY <2>1, <1>1
<1>6. CASE f \in {"h2v2_merged_upsample", "h2v1_merged_upsample"}
  <2>1. x86_64(f) = merged
    BY <1>6 DEF x86_64, merged, Downsampling, Upsampling, Fancy, Merged, Reduced
  <2> QED BY <2>1, <1>2
<1>7. CASE f \notin OnPixels
  <2>1. x86_64(f) \in {x86_64_downsample, x86_64_upsample, x86_64_convsamp, x86_64_quantize,
                       x86_64_fancy_upsample, x86_64_fdct(f), x86_64_idct_red, x86_64_idct(f)}
    BY <1>7 DEF x86_64, OnPixels, Conversions, Merged
  <2> QED BY <2>1, <1>3, <1>4, <1>7
<1> QED BY <1>5, <1>6, <1>7 DEF OnPixels, Conversions, Merged

-----------------------------------------------------------------------------
(* The first usable routine. *)

LEMMA FirstUsableIs ==
  ASSUME NEW list, Listed(list), NEW support
  PROVE  /\ FirstUsable(list, support) # Nothing <=>
              \E i \in DOMAIN list : Usable(list[i], support)
         /\ FirstUsable(list, support) # Nothing =>
              \E i \in DOMAIN list : /\ Usable(list[i], support)
                                    /\ FirstUsable(list, support) = list[i]
<1> DEFINE usable == {i \in DOMAIN list : Usable(list[i], support)}
<1>1. CASE usable = {}
  BY <1>1 DEF FirstUsable
<1>2. CASE usable # {}
  <2> DEFINE least == CHOOSE i \in usable : \A j \in usable : i <= j
  <2>1. usable \in SUBSET Nat
    BY DEF Listed
  <2>2. \E i \in usable : \A j \in usable : i <= j
    <3> HIDE DEF usable
    <3> QED BY <1>2, <2>1, HasLeast
  <2>3. least \in usable
    BY <2>2
  <2>4. FirstUsable(list, support) = list[least]
    BY <1>2 DEF FirstUsable
  <2>5. list[least] # Nothing
    BY <2>3 DEF Listed, Routine, Nothing
  <2> QED BY <2>3, <2>4, <2>5
<1> QED BY <1>1, <1>2

(* What jsimd_can_X() accepts, jsimd_X() has a routine for. *)
LEMMA AgreeingServes ==
  ASSUME NEW lists, Agreeing(lists), NEW support,
         FirstUsable(lists.can, support) # Nothing
  PROVE  FirstUsable(lists.run, support) # Nothing
<1>1. Listed(lists.can) /\ Listed(lists.run) /\ SameAs(lists.run, lists.can)
  BY DEF Agreeing
<1>2. PICK i \in DOMAIN lists.can : Usable(lists.can[i], support)
  BY <1>1, FirstUsableIs
<1>3. i \in DOMAIN lists.run /\ Usable(lists.run[i], support)
  BY <1>1, <1>2 DEF SameAs, Usable
<1> QED BY <1>1, <1>3, FirstUsableIs

LEMMA UncheckedServes ==
  ASSUME NEW lists, Unchecked(lists), NEW support, "SSE2" \in support, "none" \notin misaligned
  PROVE  FirstUsable(lists.run, support) # Nothing
<1>1. Listed(lists.run) /\ 1 \in DOMAIN lists.run /\ Usable(lists.run[1], support)
  BY DEF Unchecked, Usable
<1> QED BY <1>1, FirstUsableIs

LEMMA LayoutsRight ==
  ASSUME NEW space \in {"RGB", "EXT_RGB", "EXT_RGBX", "EXT_RGBA", "EXT_BGR", "EXT_BGRX",
                        "EXT_BGRA", "EXT_XBGR", "EXT_ABGR", "EXT_XRGB", "EXT_ARGB"},
         NEW default \in {"rgb", "extrgb"}
  PROVE  LayoutOffsets[layout(space, default)] = Offsets(space)
  BY DEF LayoutOffsets, layout, Offsets

-----------------------------------------------------------------------------
(* What holds of the threads. *)

PixelSpaces == {"RGB", "EXT_RGB", "EXT_RGBX", "EXT_RGBA", "EXT_BGR", "EXT_BGRX", "EXT_BGRA",
                "EXT_XBGR", "EXT_ABGR", "EXT_XRGB", "EXT_ARGB"}

(* What the machine and the call are. *)
Setting ==
  /\ arch \in {"i386", "x86_64", "arm", "none"} /\ cpu \in Cpus(arch) /\ env \in Envs(arch)
  /\ op.fn # "fdct_ifast" /\ (op.fn \in OnPixels => op.space \in PixelSpaces)
  /\ "none" \notin misaligned

(* The static never claims what the processor lacks. *)
Detected ==
  /\ simd_support = Unset \/ simd_support \subseteq cpu
  /\ arch \in {"x86_64", "none"} => simd_support = cpu
  /\ arch # "arm" /\ env = "" => simd_support \in {Unset, cpu}

Steps == {"start", "detect", "parse", "mask", "ask", "run", "done", "plain"}

(* A thread that asks finds simd_support filled in; one that was promised  *)
(* a routine saw what the processor has; and what ran was the choice for   *)
(* some part of it.                                                        *)
ThreadSound(t) ==
  /\ pc[t] \in {"detect", "mask"} => arch \in {"i386", "arm"}
  /\ pc[t] = "parse" => arch = "arm"
  /\ pc[t] \notin {"start", "detect"} => simd_support # Unset
  /\ pc[t] = "run" =>
       /\ seen[t] \subseteq cpu
       /\ FirstUsable(Selection(arch, op.fn).can, seen[t]) # Nothing
       /\ arch # "arm" /\ env = "" => seen[t] = cpu
  /\ ran[t] # Nothing =>
       \E support \in SUBSET cpu : ran[t] = FirstUsable(Selection(arch, op.fn).run, support)

SimdInv ==
  /\ Setting
  /\ Detected
  /\ pc \in [Threads -> Steps]
  /\ seen = [t \in Threads |-> seen[t]] /\ ran = [t \in Threads |-> ran[t]]
  /\ \A t \in Threads : ThreadSound(t)

LEMMA KnownCpus ==
  ASSUME Setting
  PROVE  /\ "unset" \notin cpu
         /\ arch = "x86_64" => "SSE2" \in cpu
         /\ \A support \in SUBSET cpu : support # Unset
<1>1. "unset" \notin cpu /\ (arch = "x86_64" => "SSE2" \in cpu)
  BY DEF Setting, Cpus
<1> QED BY <1>1 DEF Unset

LEMMA ListsOf ==
  ASSUME Setting
  PROVE  /\ Listed(Selection(arch, op.fn).can) /\ Listed(Selection(arch, op.fn).run)
         /\ arch # "x86_64" => Agreeing(Selection(arch, op.fn))
         /\ arch = "x86_64" => Unchecked(Selection(arch, op.fn))
         /\ op.fn \in OnPixels => Coloured(Selection(arch, op.fn).run)
<1>1. CASE arch = "i386"
  BY <1>1, I386Lists DEF Setting, Selection, Agreeing
<1>2. CASE arch = "x86_64"
  BY <1>2, X8664Lists DEF Setting, Selection, Unchecked
<1>3. CASE arch = "arm"
  BY <1>3, ArmLists DEF Setting, Selection, Agreeing
<1>4. CASE arch = "none"
  BY <1>4, NeverAgrees DEF Setting, Selection, Agreeing, none
<1> QED BY <1>1, <1>2, <1>3, <1>4 DEF Setting

LEMMA SimdInvSuffices ==
  ASSUME SimdInv
  PROVE  DispatchSound
<1>1. Setting
  BY DEF SimdInv
<1>2. ASSUME NEW t \in Threads, ran[t] # Nothing
      PROVE  /\ ran[t].isa \in cpu /\ Loads(op.fn, ran[t]) \notin misaligned
             /\ op.fn \in OnPixels => LayoutOffsets[ran[t].layout] = Offsets(op.space)
  <2> DEFINE list == Selection(arch, op.fn).run
  <2>1. PICK support \in SUBSET cpu : ran[t] = FirstUsable(list, support)
    BY <1>2 DEF SimdInv, ThreadSound
  <2>2. Listed(list) /\ (op.fn \in OnPixels => Coloured(list))
    BY <1>1, ListsOf
  <2> HIDE DEF list
  <2>3. PICK i \in DOMAIN list : Usable(list[i], support) /\ ran[t] = list[i]
    BY <1>2, <2>1, <2>2, FirstUsableIs
  <2>4. ran[t].isa \in cpu /\ ran[t].const \notin misaligned
    BY <2>3 DEF Usable
  <2>5. Loads(op.fn, ran[t]) = ran[t].const
    BY <1>1 DEF Loads, Setting
  <2>6. ASSUME op.fn \in OnPixels PROVE LayoutOffsets[ran[t].layout] = Offsets(op.space)
    <3>1. ran[t].layout \in {layout(op.space, "rgb"), layout(op.space, "extrgb")}
      BY <2>2, <2>3, <2>6 DEF Coloured
    <3>2. op.space \in PixelSpaces
      BY <1>1, <2>6 DEF Setting
    <3> QED BY <3>1, <3>2, LayoutsRight DEF PixelSpaces
  <2> QED BY <2>4, <2>5, <2>6
<1>3. ASSUME NEW t \in Threads, pc[t] = "run",
             simd_support = seen[t] \/ (arch # "arm" /\ env = "")
      PROVE  FirstUsable(Selection(arch, op.fn).run, simd_support) # Nothing
  <2>1. simd_support = seen[t]
    BY <1>3 DEF SimdInv, Detected, ThreadSound
  <2>2. CASE arch = "x86_64"
    BY <1>1, <2>2, ListsOf, KnownCpus, UncheckedServes DEF SimdInv, Detected, Setting
  <2>3. CASE arch # "x86_64"
    <3>1. FirstUsable(Selection(arch, op.fn).can, simd_support) # Nothing
      BY <1>3, <2>1 DEF SimdInv, ThreadSound
    <3> QED BY <1>1, <2>3, <3>1, ListsOf, AgreeingServes
  <2> QED BY <2>2, <2>3
<1> QED BY <1>2, <1>3 DEF DispatchSound, RoutineFits, Served, LayoutRight

(* The architectures and colour spaces there are, and every operation but  *)
(* the one whose alignment is looked up at the wrong constant.             *)
Supported ==
  /\ Archs \subseteq {"i386", "x86_64", "arm", "none"}
  /\ Spaces \subseteq PixelSpaces
  /\ "fdct_ifast" \notin Functions

LEMMA SimdInitGives ==
  ASSUME Supported, SimdInit
  PROVE  SimdInv
<1>1. arch \in {"i386", "x86_64", "arm", "none"} /\ cpu \in Cpus(arch) /\ env \in Envs(arch)
  BY Zenon DEF SimdInit, Supported
<1>2. op.fn # "fdct_ifast" /\ (op.fn \in OnPixels => op.space \in PixelSpaces)
  <2>1. op \in Ops
    BY DEF SimdInit
  <2> QED BY <2>1 DEF Ops, Supported
<1>3. "none" \notin misaligned
  <2>1. misaligned \in SUBSET ConstsOf(op.fn)
    BY Zenon DEF SimdInit
  <2> QED BY <2>1, Zenon DEF ConstsOf
<1>4. Setting
  BY <1>1, <1>2, <1>3 DEF Setting
<1>5. Detected
  <2>1. simd_support = IF arch \in {"i386", "arm"} THEN Unset ELSE cpu
    BY Zenon DEF SimdInit
  <2> QED BY <1>1, <2>1 DEF Detected
<1>6. /\ pc = [t \in Threads |-> "start"]
      /\ seen = [t \in Threads |-> Unset] /\ ran = [t \in Threads |-> Nothing]
  BY Zenon DEF SimdInit
<1>7. \A t \in Threads : ThreadSound(t)
  BY <1>6 DEF ThreadSound
<1>8. pc \in [Threads -> Steps]
  BY <1>6 DEF Steps
<1> QED BY <1>4, <1>5, <1>6, <1>7, <1>8 DEF SimdInv

(* A step of one thread that leaves the machine alone. *)
LEMMA FixedKeeps ==
  ASSUME Setting, Fixed
  PROVE  /\ Setting'
         /\ \A list, support : FirstUsable(list, support)' = FirstUsable(list, support)
         /\ Selection(arch, op.fn)' = Selection(arch, op.fn)
<1>1. arch' = arch /\ cpu' = cpu /\ env' = env /\ op' = op /\ misaligned' = misaligned
  BY DEF Fixed
<1>2. Setting'
  BY <1>1 DEF Setting
<1>3. \A list, support : FirstUsable(list, support)' = FirstUsable(list, support)
  BY <1>1 DEF FirstUsable, Usable
<1>4. Selection(arch, op.fn)' = Selection(arch, op.fn)
  BY <1>1, Zenon DEF Selection, i386, x86_64, arm, none, i386_convert, i386_merged_upsample, x86_64_convert, x86_64_merged_upsample, arm_convert, Laid, layout
<1> QED BY <1>2, <1>3, <1>4

LEMMA ForcedLess ==
  ASSUME Setting, NEW support
  PROVE  /\ Forced(support) \subseteq support /\ ForcedArm(support) \subseteq support
         /\ env = "" => Forced(support) = support
  BY DEF Forced, ForcedArm

LEMMA OthersKept ==
  ASSUME SimdInv, Fixed, simd_support' = simd_support \/ simd_support' # Unset,
         NEW u \in Threads, pc'[u] = pc[u], seen'[u] = seen[u], ran'[u] = ran[u]
  PROVE  ThreadSound(u)'
<1> DEFINE lists == Selection(arch, op.fn)
<1>1. Setting /\ ThreadSound(u)
  BY DEF SimdInv
<1>2. lists' = lists /\ \A list, support : FirstUsable(list, support)' = FirstUsable(list, support)
  BY <1>1, FixedKeeps
<1>3. arch' = arch /\ cpu' = cpu /\ env' = env
  BY DEF Fixed
<1> HIDE DEF lists
<1> QED BY <1>1, <1>2, <1>3 DEF ThreadSound, lists

(* What a step leaves to show: the static and the thread that took it. *)
LEMMA StepKeeps ==
  ASSUME SimdInv, Fixed, NEW t \in Threads, NEW next \in Steps, Goto(t, next),
         simd_support' = simd_support \/ simd_support' # Unset,
         Detected', ThreadSound(t)',
         NEW a, NEW b, seen' = [seen EXCEPT ![t] = a], ran' = [ran EXCEPT ![t] = b]
  PROVE  SimdInv'
<1>1. /\ pc \in [Threads -> Steps]
      /\ seen = [u \in Threads |-> seen[u]] /\ ran = [u \in Threads |-> ran[u]]
  BY DEF SimdInv
<1>2. pc' \in [Threads -> Steps]
  BY <1>1 DEF Goto
<1>3. seen' = [u \in Threads |-> seen'[u]] /\ ran' = [u \in Threads |-> ran'[u]]
  BY <1>1
<1>4. ASSUME NEW u \in Threads PROVE ThreadSound(u)'
  <2>1. CASE u = t
    BY <2>1
  <2>2. CASE u # t
    <3>1. pc'[u] = pc[u] /\ seen'[u] = seen[u] /\ ran'[u] = ran[u]
      BY <1>1, <2>2 DEF Goto
    <3> QED BY <3>1, OthersKept
  <2> QED BY <2>1, <2>2
<1>5. Setting'
  BY FixedKeeps DEF SimdInv
<1> QED BY <1>2, <1>3, <1>4, <1>5 DEF SimdInv

(* Nothing happens to what a thread has seen and run. *)
LEMMA Unchanging ==
  ASSUME SimdInv, NEW t \in Threads, UNCHANGED <<seen, ran>>
  PROVE  seen' = [seen EXCEPT ![t] = seen[t]] /\ ran' = [ran EXCEPT ![t] = ran[t]]
  BY DEF SimdInv

LEMMA CheckKeeps ==
  ASSUME SimdInv, NEW t \in Threads, Check(t)
  PROVE  SimdInv'
<1> DEFINE next == IF simd_support = Unset THEN "detect" ELSE "ask"
<1>1. /\ pc[t] = "start" /\ Goto(t, next) /\ Fixed
      /\ UNCHANGED simd_support /\ UNCHANGED <<seen, ran>>
  BY DEF Check
<1>2. pc'[t] = next /\ next \in Steps
  BY <1>1 DEF Goto, SimdInv, Steps
<1>3. Setting /\ Detected /\ ThreadSound(t)
  BY DEF SimdInv
<1>4. Detected'
  BY <1>1, <1>3 DEF Detected, Fixed
<1> DEFINE lists == Selection(arch, op.fn)
<1>5. lists' = lists /\ \A list, support : FirstUsable(list, support)' = FirstUsable(list, support)
  BY <1>1, <1>3, FixedKeeps
<1> HIDE DEF lists
<1>6. ThreadSound(t)'
  <2>1. simd_support = Unset => arch \in {"i386", "arm"}
    BY <1>3, KnownCpus DEF Detected, Setting
  <2> QED BY <1>1, <1>2, <1>3, <1>5, <2>1 DEF ThreadSound, Fixed, lists
<1> HIDE DEF next
<1> QED BY <1>1, <1>2, <1>4, <1>6, Unchanging, StepKeeps

LEMMA InitSimdKeeps ==
  ASSUME SimdInv, NEW t \in Threads, Detect(t) \/ parse_proc_cpuinfo(t) \/ Mask(t)
  PROVE  SimdInv'
<1>1. Fixed /\ UNCHANGED <<seen, ran>>
  BY DEF Detect, parse_proc_cpuinfo, Mask
<1>2. PICK next \in {"parse", "mask", "ask"} :
        /\ Goto(t, next)
        /\ next = "parse" => arch = "arm"
  BY DEF Detect, parse_proc_cpuinfo, Mask, SimdInv, ThreadSound
<1>3. Setting /\ Detected /\ ThreadSound(t)
  BY DEF SimdInv
<1>4. arch \in {"i386", "arm"}
  BY <1>3 DEF Detect, parse_proc_cpuinfo, Mask, ThreadSound
<1>5. simd_support' \in SUBSET cpu /\ (arch # "arm" /\ env = "" => simd_support' = cpu)
  <2>1. CASE Detect(t)
    BY <2>1 DEF Detect
  <2>2. CASE parse_proc_cpuinfo(t)
    BY <2>2, <1>3 DEF parse_proc_cpuinfo, ThreadSound
  <2>3. CASE Mask(t)
    <3>1. simd_support # Unset
      BY <1>3, <2>3 DEF ThreadSound, Mask
    <3>2. simd_support \subseteq cpu /\ (arch # "arm" /\ env = "" => simd_support = cpu)
      BY <1>3, <3>1 DEF Detected
    <3>3. simd_support' = IF arch = "arm" THEN ForcedArm(simd_support) ELSE Forced(simd_support)
      BY <2>3 DEF Mask
    <3> QED BY <1>3, <3>2, <3>3, ForcedLess
  <2> QED BY <2>1, <2>2, <2>3
<1>6. simd_support' # Unset
  BY <1>3, <1>5, KnownCpus
<1>7. Detected'
  BY <1>1, <1>4, <1>5 DEF Detected, Fixed
<1>8. pc'[t] = next
  BY <1>2 DEF Goto, SimdInv
<1> DEFINE lists == Selection(arch, op.fn)
<1>9. lists' = lists /\ \A list, support : FirstUsable(list, support)' = FirstUsable(list, support)
  BY <1>1, <1>3, FixedKeeps
<1> HIDE DEF lists
<1>10. ThreadSound(t)'
  BY <1>1, <1>2, <1>3, <1>4, <1>6, <1>8, <1>9 DEF ThreadSound, Fixed, lists
<1>11. next \in Steps
  BY DEF Steps
<1> QED BY <1>1, <1>2, <1>6, <1>7, <1>10, <1>11, Unchanging, StepKeeps

LEMMA AskKeeps ==
  ASSUME SimdInv, NEW t \in Threads, Ask(t)
  PROVE  SimdInv'
<1> DEFINE lists == Selection(arch, op.fn)
           can == FirstUsable(lists.can, simd_support) # Nothing
           next == IF can THEN "run" ELSE "plain"
<1>1. /\ pc[t] = "ask" /\ Goto(t, next) /\ Fixed /\ seen' = [seen EXCEPT ![t] = simd_support]
      /\ simd_support' = simd_support /\ ran' = ran
  BY DEF Ask
<1>2. Setting /\ Detected /\ ThreadSound(t) /\ next \in Steps
  BY DEF SimdInv, Steps
<1>3. lists' = lists /\ \A list, support : FirstUsable(list, support)' = FirstUsable(list, support)
  BY <1>1, <1>2, FixedKeeps
<1>4. pc'[t] = next /\ seen'[t] = simd_support
  BY <1>1 DEF Goto, SimdInv
<1> HIDE DEF lists
<1>5. simd_support # Unset
  BY <1>1, <1>2 DEF ThreadSound
<1>6. simd_support \subseteq cpu /\ (arch # "arm" /\ env = "" => simd_support = cpu)
  BY <1>2, <1>5 DEF Detected
<1>7. ThreadSound(t)'
  BY <1>1, <1>2, <1>3, <1>4, <1>5, <1>6 DEF ThreadSound, Fixed, lists
<1>8. Detected'
  BY <1>1, <1>2 DEF Detected, Fixed
<1>9. ran' = [ran EXCEPT ![t] = ran[t]]
  BY <1>1 DEF SimdInv
<1> HIDE DEF next
<1> QED BY <1>1, <1>2, <1>7, <1>8, <1>9, StepKeeps

LEMMA RunKeeps ==
  ASSUME SimdInv, NEW t \in Threads, Run(t)
  PROVE  SimdInv'
<1> DEFINE lists == Selection(arch, op.fn)
           routine == FirstUsable(lists.run, simd_support)
<1>1. /\ pc[t] = "run" /\ Goto(t, "done") /\ Fixed /\ seen' = seen
      /\ simd_support' = simd_support /\ ran' = [ran EXCEPT ![t] = routine]
  BY DEF Run
<1>2. Setting /\ Detected /\ ThreadSound(t) /\ "done" \in Steps
  BY DEF SimdInv, Steps
<1>3. lists' = lists /\ \A list, support : FirstUsable(list, support)' = FirstUsable(list, support)
  BY <1>1, <1>2, FixedKeeps
<1>4. pc'[t] = "done" /\ ran'[t] = routine
  BY <1>1 DEF Goto, SimdInv
<1> HIDE DEF lists
<1>5. simd_support # Unset
  BY <1>1, <1>2 DEF ThreadSound
<1>6. simd_support \in SUBSET cpu /\ cpu' = cpu
  BY <1>1, <1>2, <1>5 DEF Detected, Fixed
<1>7. ThreadSound(t)'
  <2>1. \E support \in SUBSET cpu' : ran'[t] = FirstUsable(lists.run, support)
    BY <1>4, <1>6
  <2>2. \E support \in SUBSET cpu' : ran'[t] = FirstUsable(lists.run, support)'
    BY <1>3, <2>1
  <2> QED BY <1>1, <1>3, <1>4, <1>5, <2>2 DEF ThreadSound, lists
<1>8. Detected'
  BY <1>1, <1>2 DEF Detected, Fixed
<1>9. seen' = [seen EXCEPT ![t] = seen[t]]
  BY <1>1 DEF SimdInv
<1> HIDE DEF routine
<1> QED BY <1>1, <1>2, <1>7, <1>8, <1>9, StepKeeps

LEMMA AgainKeeps ==
  ASSUME SimdInv, NEW t \in Threads, Again(t)
  PROVE  SimdInv'
<1>1. /\ pc[t] \in {"done", "plain"} /\ Goto(t, "start") /\ Fixed /\ simd_support' = simd_support
      /\ seen' = [seen EXCEPT ![t] = Unset] /\ ran' = [ran EXCEPT ![t] = Nothing]
  BY DEF Again, Goto
<1>2. Detected /\ "start" \in Steps
  BY DEF SimdInv, Steps
<1>3. pc'[t] = "start" /\ ran'[t] = Nothing
  BY <1>1 DEF Goto, SimdInv
<1>4. ThreadSound(t)'
  BY <1>3 DEF ThreadSound
<1>5. Detected'
  BY <1>1, <1>2 DEF Detected, Fixed
<1> QED BY <1>1, <1>2, <1>4, <1>5, StepKeeps

(* DispatchSound, for any number of threads: whatever the processor, the   *)
(* environment and the linker's alignment, and however the threads race to *)
(* fill in simd_support, what jsimd_can_X() promises jsimd_X() does, with a *)
(* routine the processor has, aligned constants and the right colours.     *)
THEOREM DispatchSoundHolds ==
  ASSUME Supported
  PROVE  SimdSpec => []DispatchSound
<1>1. SimdInit => SimdInv
  BY SimdInitGives
<1>2. SimdInv /\ [SimdNext]_simdVars => SimdInv'
  <2> SUFFICES ASSUME SimdInv, [SimdNext]_simdVars PROVE SimdInv'
    OBVIOUS
  <2>1. CASE SimdNext
    <3>1. PICK t \in Threads : Check(t) \/ Detect(t) \/ parse_proc_cpuinfo(t) \/ Mask(t)
                                 \/ Ask(t) \/ Run(t) \/ Again(t)
      BY <2>1, Zenon DEF SimdNext
    <3> QED BY <3>1, CheckKeeps, InitSimdKeeps, AskKeeps, RunKeeps, AgainKeeps
  <2>2. CASE UNCHANGED simdVars
    <3>1. Fixed /\ simd_support' = simd_support /\ pc' = pc /\ seen' = seen /\ ran' = ran
      BY <2>2 DEF simdVars, Fixed
    <3>2. \A u \in Threads : ThreadSound(u)'
      BY <3>1, OthersKept
    <3>3. Setting'
      BY <3>1, FixedKeeps DEF SimdInv
    <3>4. Detected'
      BY <3>1 DEF SimdInv, Detected, Fixed
    <3> QED BY <3>1, <3>2, <3>3, <3>4 DEF SimdInv
  <2> QED BY <2>1, <2>2
<1>3. SimdInv => DispatchSound
  BY SimdInvSuffices
<1> QED BY <1>1, <1>2, <1>3, PTL DEF SimdSpec

------------------------------------------------------------------------------
(***************************************************************************)
(* Scripts of scans: which bit of a coefficient was the last to be sent,   *)
(* what follows from acceptance, and the library's own scripts, the common *)
(* one of six blocks of scans and the one for YCbCr pictures.              *)
(***************************************************************************)
ScanType == [comps : Seq(Int), Ss : Int, Se : Int, Ah : Int, Al : Int]
Sends(s, c, k) == c \in InScan(s) /\ k \in Band(s)

(* The scan that says which bit was the last: none sends after it. *)
LEMMA LastIs ==
  ASSUME NEW n, NEW script, NEW i \in Nat, NEW c \in 1..n, NEW k \in Coefs, NEW q \in 1..i,
         Sends(script[q], c, k), \A j \in 1..i : j > q => ~Sends(script[j], c, k)
  PROVE  last_bitpos(n, script, i)[c][k] = script[q].Al
<1> DEFINE S == Senders(script, i, c, k)
<1>1. q \in S /\ S \subseteq 1..i BY DEF Senders, Sends
<1>2. \A j \in S : j <= q
  <2> SUFFICES ASSUME NEW j \in S, j > q PROVE FALSE BY <1>1
  <2> QED BY <1>1 DEF Senders, Sends
<1> HIDE DEF S
<1>3. LastOf(S) \in S /\ \A j \in S : j <= LastOf(S) BY <1>1, <1>2 DEF LastOf
<1>4. LastOf(S) = q
  <2> DEFINE m == LastOf(S)
  <2>1. m \in 1..i /\ q \in 1..i BY <1>1, <1>3
  <2>2. q <= m /\ m <= q BY <1>1, <1>2, <1>3
  <2> HIDE DEF m
  <2>3. m = q BY <2>1, <2>2
  <2> QED BY <2>3 DEF m
<1>5. S # {} BY <1>1
<1> QED BY <1>4, <1>5 DEF last_bitpos, S

(* No scan sends: no bit was sent. *)
LEMMA LastNone ==
  ASSUME NEW n, NEW script, NEW i, NEW c \in 1..n, NEW k \in Coefs,
         \A j \in 1..i : ~Sends(script[j], c, k)
  PROVE  last_bitpos(n, script, i)[c][k] = -1
<1>1. Senders(script, i, c, k) = {} BY DEF Senders, Sends
<1> QED BY <1>1 DEF last_bitpos

(* In every case it is a number. *)
LEMMA LastTyped ==
  ASSUME NEW n, NEW script \in Seq(ScanType), NEW i \in 0..Len(script), NEW c \in 1..n, NEW k \in Coefs
  PROVE  last_bitpos(n, script, i)[c][k] \in Int
<1> DEFINE S == Senders(script, i, c, k)
<1>1. CASE S = {} BY <1>1 DEF last_bitpos
<1>2. CASE S # {}
  <2>1. S \subseteq 1..i BY DEF Senders
  <2> HIDE DEF S
  <2>2. S \in SUBSET (0..i) /\ i \in Nat BY <2>1
  <2>3. PICK m \in S : \A j \in S : j <= m BY <2>2, <1>2, HasGreatest
  <2>4. LastOf(S) \in S BY <2>3 DEF LastOf
  <2>5. script[LastOf(S)] \in ScanType
    <3> DEFINE q == LastOf(S)
    <3>1. q \in 1..i BY <2>1, <2>4
    <3> HIDE DEF q
    <3>2. q \in 1..Len(script) BY <3>1
    <3>3. script[q] \in ScanType BY <3>2
    <3> QED BY <3>3 DEF q
  <2>6. script[LastOf(S)].Al \in Int BY <2>5 DEF ScanType
  <2> QED BY <2>6, <1>2 DEF last_bitpos, S
<1> QED BY <1>1, <1>2

(* What the compressor accepts, the decoder does not mind: this is the     *)
(* same condition, once for each of a scan's coefficients.                 *)
LEMMA AcceptedScanClean ==
  ASSUME NEW n \in Nat \ {0}, NEW script \in Seq(ScanType), NEW i \in DOMAIN script,
         ScanFits(n, script, i), Progressive(script)
  PROVE  /\ ~BadScan(script[i])
         /\ ~BogusScan(last_bitpos(n, script, i - 1), script[i])
<1> DEFINE s == script[i]
           last == last_bitpos(n, script, i - 1)
<1>1. s \in ScanType /\ ComponentsFit(s, n) /\ ProgressionFits(s, last) BY DEF ScanFits
<1>0. \A c \in 1..n, k \in Coefs : last[c][k] \in Int
  <2>1. i - 1 \in 0..Len(script) OBVIOUS
  <2> QED BY <2>1, LastTyped
<1> HIDE DEF s, last
<1>2. PICK c : c \in InScan(s)
  <2>1. s.comps \in Seq(Int) /\ Len(s.comps) \in 1..MAX_COMPS_IN_SCAN BY <1>1 DEF ScanType, ComponentsFit
  <2>2. 1 \in DOMAIN s.comps BY <2>1 DEF MAX_COMPS_IN_SCAN
  <2> QED BY <2>2 DEF InScan
<1>3. s.Ss \in Band(s) BY <1>1, CoefsAssumption DEF ProgressionFits, Band, Coefs
<1>4. Continues(s, last[c][s.Ss]) BY <1>1, <1>2, <1>3 DEF ProgressionFits
<1>5. ~BadScan(s) BY <1>1, <1>4, CoefsAssumption DEF BadScan, ProgressionFits, Continues, Coefs, MAX_AH_AL
<1>6. ~BogusScan(last, s)
  <2> SUFFICES ASSUME NEW d \in InScan(s)
               PROVE  /\ ~(s.Ss # 0 /\ last[d][0] < 0)
                      /\ \A k \in Band(s) : s.Ah = (IF last[d][k] < 0 THEN 0 ELSE last[d][k])
    BY DEF BogusScan
  <2>1. s.Ss # 0 => last[d][0] >= 0 BY <1>1 DEF ProgressionFits
  <2>2. \A k \in Band(s) : Continues(s, last[d][k]) BY <1>1 DEF ProgressionFits
  <2>3. ASSUME NEW k \in Band(s) PROVE s.Ah = (IF last[d][k] < 0 THEN 0 ELSE last[d][k])
    <3> DEFINE sent == last[d][k]
    <3>1. Continues(s, sent) BY <2>2
    <3> HIDE DEF sent
    <3>2. CASE sent < 0 BY <3>1, <3>2 DEF Continues, sent
    <3>3. CASE ~(sent < 0) BY <3>1, <3>3 DEF Continues, sent
    <3> QED BY <3>2, <3>3
  <2>4. last[d][0] \in Int
    <3>1. d \in 1..n BY <1>1 DEF ComponentsFit, InScan
    <3>2. 0 \in Coefs BY CoefsAssumption DEF Coefs
    <3> QED BY <3>1, <3>2, <1>0
  <2> QED BY <2>1, <2>3, <2>4
<1> QED BY <1>5, <1>6 DEF s, last

(***************************************************************************)
(* The script the library makes for any number of components: six blocks   *)
(* of scans, each with a scan for each component, or with one scan for all *)
(* of them.                                                                *)
(***************************************************************************)
Width(n) == IF n <= MAX_COMPS_IN_SCAN THEN 1 ELSE n
All(n) == [c \in 1..n |-> c]
CompsOf(n, dc, c) == IF dc /\ n <= MAX_COMPS_IN_SCAN THEN All(n) ELSE <<c>>

\* A scan for each component, with such a band and such bits.
EachScan(s, n, Ss, Se, Ah, Al) ==
  s \in Seq(ScanType) /\ Len(s) = n /\ \A i \in 1..n : s[i] = Scan(<<i>>, Ss, Se, Ah, Al)

LEMMA FilledScans ==
  ASSUME NEW n \in Nat \ {0}, NEW Ss \in Int, NEW Se \in Int, NEW Ah \in Int, NEW Al \in Int
  PROVE  EachScan(fill_scans(n, Ss, Se, Ah, Al), n, Ss, Se, Ah, Al)
<1>1. \A c \in 1..n : Scan(<<c>>, Ss, Se, Ah, Al) \in ScanType BY DEF Scan, ScanType
<1> QED BY <1>1 DEF fill_scans, EachScan

\* A scan of the first coefficient of all components, or one for each.
DcScans(s, n, Ah, Al) ==
  /\ s \in Seq(ScanType) /\ Len(s) = Width(n)
  /\ \A i \in 1..Width(n) : s[i] = Scan(CompsOf(n, TRUE, i), 0, 0, Ah, Al)

LEMMA FilledDcScans ==
  ASSUME NEW n \in Nat \ {0}, NEW Ah \in Int, NEW Al \in Int
  PROVE  DcScans(fill_dc_scans(n, Ah, Al), n, Ah, Al)
<1>1. CASE n <= MAX_COMPS_IN_SCAN
  <2>1. All(n) \in Seq(Int) BY DEF All
  <2> DEFINE s == Scan(All(n), 0, 0, Ah, Al)
  <2>2. s \in ScanType BY <2>1 DEF Scan, ScanType
  <2>3. fill_dc_scans(n, Ah, Al) = <<s>> BY <1>1 DEF fill_dc_scans, All
  <2>4. CompsOf(n, TRUE, 1) = All(n) /\ Width(n) = 1 BY <1>1 DEF CompsOf, Width
  <2> HIDE DEF s
  <2>5. <<s>> \in Seq(ScanType) /\ Len(<<s>>) = 1 /\ <<s>>[1] = s BY <2>2
  <2>6. 1..1 = {1} OBVIOUS
  <2> QED BY <2>3, <2>4, <2>5, <2>6 DEF s, DcScans
<1>2. CASE ~(n <= MAX_COMPS_IN_SCAN)
  <2>1. fill_dc_scans(n, Ah, Al) = fill_scans(n, 0, 0, Ah, Al) /\ Width(n) = n
        /\ \A i : CompsOf(n, TRUE, i) = <<i>>
    BY <1>2 DEF fill_dc_scans, Width, CompsOf
  <2> DEFINE f == fill_scans(n, 0, 0, Ah, Al)
  <2>2. f \in Seq(ScanType) /\ Len(f) = n /\ \A i \in 1..n : f[i] = Scan(<<i>>, 0, 0, Ah, Al) BY FilledScans DEF EachScan
  <2> HIDE DEF f
  <2>3. fill_dc_scans(n, Ah, Al) = f BY <2>1 DEF f
  <2> QED BY <2>1, <2>2, <2>3 DEF DcScans
<1> QED BY <1>1, <1>2

(* What putting two sequences one after the other gives. *)
Joins(S, s, a, b) ==
  /\ s \in Seq(S) /\ Len(s) = Len(a) + Len(b)
  /\ \A i \in 1..Len(a) : s[i] = a[i]
  /\ \A i \in 1..Len(b) : s[Len(a) + i] = b[i]

LEMMA TwoParts ==
  ASSUME NEW S, NEW a \in Seq(S), NEW b \in Seq(S)
  PROVE  a \o b \in Seq(S) /\ Joins(S, a \o b, a, b)
BY DEF Joins

SixJoined(S, s, a, b, c, d, e, f) ==
  /\ s \in Seq(S) /\ Len(s) = Len(a) + Len(b) + Len(c) + Len(d) + Len(e) + Len(f)
  /\ \A i \in 1..Len(a) : s[i] = a[i]
  /\ \A i \in 1..Len(b) : s[Len(a) + i] = b[i]
  /\ \A i \in 1..Len(c) : s[Len(a) + Len(b) + i] = c[i]
  /\ \A i \in 1..Len(d) : s[Len(a) + Len(b) + Len(c) + i] = d[i]
  /\ \A i \in 1..Len(e) : s[Len(a) + Len(b) + Len(c) + Len(d) + i] = e[i]
  /\ \A i \in 1..Len(f) : s[Len(a) + Len(b) + Len(c) + Len(d) + Len(e) + i] = f[i]

LEMMA SixParts ==
  ASSUME NEW S, NEW a \in Seq(S), NEW b \in Seq(S), NEW c \in Seq(S), NEW d \in Seq(S), NEW e \in Seq(S),
         NEW f \in Seq(S)
  PROVE  SixJoined(S, a \o b \o c \o d \o e \o f, a, b, c, d, e, f)
<1> DEFINE s2 == a \o b
           s3 == s2 \o c
           s4 == s3 \o d
           s5 == s4 \o e
           s == s5 \o f
<1>2. s2 \in Seq(S) /\ Joins(S, s2, a, b) BY TwoParts, Zenon
<1> HIDE DEF s2
<1>3. s3 \in Seq(S) /\ Joins(S, s3, s2, c) BY <1>2, TwoParts, Zenon
<1> HIDE DEF s3
<1>4. s4 \in Seq(S) /\ Joins(S, s4, s3, d) BY <1>3, TwoParts, Zenon
<1> HIDE DEF s4
<1>5. s5 \in Seq(S) /\ Joins(S, s5, s4, e) BY <1>4, TwoParts, Zenon
<1> HIDE DEF s5
<1>6. s \in Seq(S) /\ Joins(S, s, s5, f) BY <1>5, TwoParts, Zenon
<1> HIDE DEF s
<1>12. Len(a) \in Nat /\ Len(b) \in Nat /\ Len(c) \in Nat /\ Len(d) \in Nat /\ Len(e) \in Nat /\ Len(f) \in Nat
  OBVIOUS
<1>13. /\ Len(s2) = Len(a) + Len(b) /\ Len(s3) = Len(a) + Len(b) + Len(c)
       /\ Len(s4) = Len(a) + Len(b) + Len(c) + Len(d)
       /\ Len(s5) = Len(a) + Len(b) + Len(c) + Len(d) + Len(e)
       /\ Len(s) = Len(a) + Len(b) + Len(c) + Len(d) + Len(e) + Len(f)
  BY <1>2, <1>3, <1>4, <1>5, <1>6, <1>12 DEF Joins
<1>20. /\ Len(s2) <= Len(s3) /\ Len(s3) <= Len(s4) /\ Len(s4) <= Len(s5) /\ Len(s5) <= Len(s)
       /\ Len(s2) \in Int /\ Len(s3) \in Int /\ Len(s4) \in Int /\ Len(s5) \in Int /\ Len(s) \in Int
  BY <1>12, <1>13
<1>14. \A i \in 1..Len(a) : s[i] = a[i] BY <1>2, <1>3, <1>4, <1>5, <1>6, <1>12, <1>13 DEF Joins
<1>15. ASSUME NEW i \in 1..Len(b) PROVE s[Len(a) + i] = b[i]
  <2> DEFINE x == Len(a) + i
  <2>1. x \in 1..Len(s2) /\ x = Len(a) + i BY <1>12, <1>13
  <2> HIDE DEF x
  <2>2. s2[x] = b[i] BY <2>1, <1>2 DEF Joins
  <2>3. x \in 1..Len(s3) BY <2>1, <1>20
  <2>4. s3[x] = s2[x] BY <2>1, <1>3 DEF Joins
  <2>5. x \in 1..Len(s4) BY <2>3, <1>20
  <2>6. s4[x] = s3[x] BY <2>1, <2>3, <1>4 DEF Joins
  <2>7. x \in 1..Len(s5) BY <2>5, <1>20
  <2>8. s5[x] = s4[x] BY <2>1, <2>5, <1>5 DEF Joins
  <2>9. x \in 1..Len(s) BY <2>7, <1>20
  <2>10. s[x] = s5[x] BY <2>1, <2>7, <1>6 DEF Joins
  <2> QED BY <2>2, <2>4, <2>6, <2>8, <2>10 DEF x
<1>16. ASSUME NEW i \in 1..Len(c) PROVE s[Len(a) + Len(b) + i] = c[i]
  <2> DEFINE x == Len(a) + Len(b) + i
  <2>1. x \in 1..Len(s3) /\ x = Len(s2) + i BY <1>12, <1>13
  <2> HIDE DEF x
  <2>2. s3[x] = c[i] BY <2>1, <1>3 DEF Joins
  <2>3. x \in 1..Len(s4) BY <2>1, <1>20
  <2>4. s4[x] = s3[x] BY <2>1, <1>4 DEF Joins
  <2>5. x \in 1..Len(s5) BY <2>3, <1>20
  <2>6. s5[x] = s4[x] BY <2>1, <2>3, <1>5 DEF Joins
  <2>7. x \in 1..Len(s) BY <2>5, <1>20
  <2>8. s[x] = s5[x] BY <2>1, <2>5, <1>6 DEF Joins
  <2> QED BY <2>2, <2>4, <2>6, <2>8 DEF x
<1>17. ASSUME NEW i \in 1..Len(d) PROVE s[Len(a) + Len(b) + Len(c) + i] = d[i]
  <2> DEFINE x == Len(a) + Len(b) + Len(c) + i
  <2>1. x \in 1..Len(s4) /\ x = Len(s3) + i BY <1>12, <1>13
  <2> HIDE DEF x
  <2>2. s4[x] = d[i] BY <2>1, <1>4 DEF Joins
  <2>3. x \in 1..Len(s5) BY <2>1, <1>20
  <2>4. s5[x] = s4[x] BY <2>1, <1>5 DEF Joins
  <2>5. x \in 1..Len(s) BY <2>3, <1>20
  <2>6. s[x] = s5[x] BY <2>1, <2>3, <1>6 DEF Joins
  <2> QED BY <2>2, <2>4, <2>6 DEF x
<1>18. \A i \in 1..Len(e) : s[Len(a) + Len(b) + Len(c) + Len(d) + i] = e[i] BY <1>5, <1>6, <1>12, <1>13 DEF Joins
<1>19. \A i \in 1..Len(f) : s[Len(a) + Len(b) + Len(c) + Len(d) + Len(e) + i] = f[i] BY <1>6, <1>12, <1>13 DEF Joins
<1> QED BY <1>6, <1>13, <1>14, <1>15, <1>16, <1>17, <1>18, <1>19 DEF SixJoined, s, s5, s4, s3, s2

(* The six blocks: their bands and bits, and where they begin. *)
Lows == <<0, 1, LowEnd + 1, 1, 0, 1>>
Highs == <<0, LowEnd, LastCoef, LastCoef, 0, LastCoef>>
Before == <<0, 0, 0, 2, 1, 1>>
After == <<1, 2, 2, 1, 0, 0>>
IsDc(b) == b \in {1, 5}
Begin(n) == <<0, Width(n), Width(n) + n, Width(n) + 2 * n, Width(n) + 3 * n, 2 * Width(n) + 3 * n>>
Pos(n, b, c) == Begin(n)[b] + (IF IsDc(b) /\ n <= MAX_COMPS_IN_SCAN THEN 1 ELSE c)

\* Every place in the script is that of a block and a component, in this order.
PlacedInOrder(n) ==
  /\ \A b \in 1..6, c \in 1..n : Pos(n, b, c) \in 1..2 * Width(n) + 4 * n
  /\ \A b \in 1..6, c \in 1..n, d \in 1..n :
       Pos(n, b, c) = Pos(n, b, d) <=> c = d \/ (IsDc(b) /\ n <= MAX_COMPS_IN_SCAN)
  /\ \A a, b \in 1..6, c, d \in 1..n : a < b => Pos(n, a, c) < Pos(n, b, d)
  /\ \A i \in 1..2 * Width(n) + 4 * n : \E b \in 1..6, c \in 1..n : i = Pos(n, b, c)

LEMMA Positions ==
  ASSUME NEW n \in Nat \ {0}
  PROVE  PlacedInOrder(n)
<1> DEFINE m == Width(n)
           dc(c) == IF n <= MAX_COMPS_IN_SCAN THEN 1 ELSE c
<1>1. /\ m \in Nat \ {0} /\ m <= n
      /\ \A c \in 1..n : dc(c) \in 1..m
      /\ \A i \in 1..m : dc(i) = i /\ i \in 1..n
      /\ \A c, d \in 1..n : dc(c) = dc(d) <=> c = d \/ n <= MAX_COMPS_IN_SCAN
  BY DEF Width, MAX_COMPS_IN_SCAN
<1>2. \A c \in 1..n : /\ Pos(n, 1, c) = dc(c) /\ Pos(n, 2, c) = m + c /\ Pos(n, 3, c) = m + n + c
             /\ Pos(n, 4, c) = m + 2 * n + c /\ Pos(n, 5, c) = m + 3 * n + dc(c)
             /\ Pos(n, 6, c) = 2 * m + 3 * n + c
  <2>1. /\ Begin(n)[1] = 0 /\ Begin(n)[2] = m /\ Begin(n)[3] = m + n /\ Begin(n)[4] = m + 2 * n
        /\ Begin(n)[5] = m + 3 * n /\ Begin(n)[6] = 2 * m + 3 * n
    BY DEF Begin
  <2>2. /\ IsDc(1) /\ ~IsDc(2) /\ ~IsDc(3) /\ ~IsDc(4) /\ IsDc(5) /\ ~IsDc(6) BY DEF IsDc
  <2> HIDE DEF m
  <2>3. \A c : /\ Pos(n, 2, c) = m + c /\ Pos(n, 3, c) = m + n + c
               /\ Pos(n, 4, c) = m + 2 * n + c /\ Pos(n, 6, c) = 2 * m + 3 * n + c
    BY <2>1, <2>2 DEF Pos
  <2>4. \A c : Pos(n, 5, c) = m + 3 * n + dc(c) BY <2>1, <2>2 DEF Pos
  <2>5. \A c : Pos(n, 1, c) = 0 + dc(c) BY <2>1, <2>2 DEF Pos
  <2>6. \A c \in 1..n : Pos(n, 1, c) = dc(c) BY <2>5, <1>1
  <2> QED BY <2>3, <2>4, <2>6
<1>3. 1..6 = {1, 2, 3, 4, 5, 6} /\ ~IsDc(2) /\ ~IsDc(3) /\ ~IsDc(4) /\ ~IsDc(6) /\ IsDc(1) /\ IsDc(5) BY DEF IsDc
<1> HIDE DEF dc, m
<1>4. ASSUME NEW i \in 1..2 * m + 4 * n PROVE \E b \in 1..6, c \in 1..n : i = Pos(n, b, c)
  <2>1. CASE i <= m
    <3>1. i = dc(i) /\ i \in 1..n BY <1>1, <2>1
    <3>2. i = Pos(n, 1, i) /\ 1 \in 1..6 BY <1>2, <3>1
    <3> QED BY <3>1, <3>2
  <2>2. ASSUME NEW b \in {2, 3, 4, 6}, NEW o \in Nat, \A c \in 1..n : Pos(n, b, c) = o + c, o < i, i <= o + n
        PROVE  \E c \in 1..n : i = Pos(n, b, c)
    <3>1. i - o \in 1..n /\ i = o + (i - o) BY <2>2, <1>1
    <3> QED BY <3>1, <2>2
  <2>3. CASE m + 3 * n < i /\ i <= 2 * m + 3 * n
    <3> DEFINE c == i - (m + 3 * n)
    <3>1. c \in 1..m /\ i = m + 3 * n + c BY <2>3, <1>1
    <3> HIDE DEF c
    <3>2. c \in 1..n /\ dc(c) = c BY <3>1, <1>1
    <3>3. i = Pos(n, 5, c) /\ 5 \in 1..6 BY <3>1, <3>2, <1>2
    <3> QED BY <3>2, <3>3
  <2>4. CASE m < i /\ i <= m + n
    <3>1. m \in Nat /\ \A c \in 1..n : Pos(n, 2, c) = m + c BY <1>1, <1>2
    <3>2. \E c \in 1..n : i = Pos(n, 2, c) BY <3>1, <2>4, <2>2
    <3> QED BY <3>2
  <2>5. CASE m + n < i /\ i <= m + 2 * n
    <3>1. m + n \in Nat /\ i <= (m + n) + n /\ \A c \in 1..n : Pos(n, 3, c) = (m + n) + c BY <1>1, <1>2, <2>5
    <3>2. \E c \in 1..n : i = Pos(n, 3, c) BY <3>1, <2>5, <2>2
    <3> QED BY <3>2
  <2>6. CASE m + 2 * n < i /\ i <= m + 3 * n
    <3>1. m + 2 * n \in Nat /\ i <= (m + 2 * n) + n /\ \A c \in 1..n : Pos(n, 4, c) = (m + 2 * n) + c BY <1>1, <1>2, <2>6
    <3>2. \E c \in 1..n : i = Pos(n, 4, c) BY <3>1, <2>6, <2>2
    <3> QED BY <3>2
  <2>7. CASE 2 * m + 3 * n < i
    <3>1. 2 * m + 3 * n \in Nat /\ i <= (2 * m + 3 * n) + n /\ \A c \in 1..n : Pos(n, 6, c) = (2 * m + 3 * n) + c
      BY <1>1, <1>2
    <3>2. \E c \in 1..n : i = Pos(n, 6, c) BY <3>1, <2>7, <2>2
    <3> QED BY <3>2
  <2>8. \/ i <= m
        \/ m < i /\ i <= m + n
        \/ m + n < i /\ i <= m + 2 * n
        \/ m + 2 * n < i /\ i <= m + 3 * n
        \/ m + 3 * n < i /\ i <= 2 * m + 3 * n
        \/ 2 * m + 3 * n < i
    BY <1>1
  <2> QED BY <2>1, <2>3, <2>4, <2>5, <2>6, <2>7, <2>8
<1>5. ASSUME NEW a \in 1..6, NEW b \in 1..6, NEW c \in 1..n, NEW d \in 1..n, a < b
      PROVE  Pos(n, a, c) < Pos(n, b, d)
  <2>1. dc(c) \in 1..m /\ dc(d) \in 1..m BY <1>1
  <2> QED BY <2>1, <1>1, <1>2, <1>3, <1>5
<1>6. ASSUME NEW b \in 1..6, NEW c \in 1..n, NEW d \in 1..n
      PROVE  Pos(n, b, c) = Pos(n, b, d) <=> c = d \/ (IsDc(b) /\ n <= MAX_COMPS_IN_SCAN)
  <2>1. dc(c) \in 1..m /\ dc(d) \in 1..m /\ (dc(c) = dc(d) <=> c = d \/ n <= MAX_COMPS_IN_SCAN) BY <1>1
  <2>2. CASE b \in {1, 5} BY <2>1, <2>2, <1>1, <1>2, <1>3
  <2>3. CASE b \in {2, 3, 4, 6} BY <2>3, <1>1, <1>2, <1>3
  <2> QED BY <2>2, <2>3, <1>3
<1>7. ASSUME NEW b \in 1..6, NEW c \in 1..n PROVE Pos(n, b, c) \in 1..2 * m + 4 * n
  <2>1. dc(c) \in 1..m BY <1>1
  <2> QED BY <2>1, <1>1, <1>2, <1>3
<1> QED BY <1>4, <1>5, <1>6, <1>7 DEF m, PlacedInOrder

\* The six blocks of a script, as jpeg_simple_progression puts them together.
SixBlocks(n, s) ==
  /\ s \in Seq(ScanType) /\ Len(s) = 2 * Width(n) + 4 * n
  /\ \A b \in 1..6, c \in 1..n :
       s[Pos(n, b, c)] = Scan(CompsOf(n, IsDc(b), c), Lows[b], Highs[b], Before[b], After[b])

LEMMA MadeOfBlocks ==
  ASSUME NEW n \in Nat \ {0}, NEW ycc \in BOOLEAN, ~(n = 3 /\ ycc)
  PROVE  SixBlocks(n, jpeg_simple_progression(n, ycc))
<1> DEFINE a == fill_dc_scans(n, 0, 1)
           b == fill_scans(n, 1, LowEnd, 0, 2)
           c == fill_scans(n, LowEnd + 1, LastCoef, 0, 2)
           d == fill_scans(n, 1, LastCoef, 2, 1)
           e == fill_dc_scans(n, 1, 0)
           f == fill_scans(n, 1, LastCoef, 1, 0)
           s == jpeg_simple_progression(n, ycc)
           m == Width(n)
           dc(x) == IF n <= MAX_COMPS_IN_SCAN THEN 1 ELSE x
<1>1. 0 \in Int /\ 1 \in Int /\ 2 \in Int /\ LowEnd \in Int /\ LowEnd + 1 \in Int /\ LastCoef \in Int BY CoefsAssumption DEF LastCoef
<1>2. s = a \o b \o c \o d \o e \o f BY DEF jpeg_simple_progression
<1>3. DcScans(a, n, 0, 1) BY <1>1, FilledDcScans, Zenon
<1>4. EachScan(b, n, 1, LowEnd, 0, 2) BY <1>1, FilledScans, Zenon
<1>5. EachScan(c, n, LowEnd + 1, LastCoef, 0, 2) BY <1>1, FilledScans, Zenon
<1>6. EachScan(d, n, 1, LastCoef, 2, 1) BY <1>1, FilledScans, Zenon
<1>7. DcScans(e, n, 1, 0) BY <1>1, FilledDcScans, Zenon
<1>8. EachScan(f, n, 1, LastCoef, 1, 0) BY <1>1, FilledScans, Zenon
<1> HIDE DEF a, b, c, d, e, f, s
<1>9. SixJoined(ScanType, s, a, b, c, d, e, f)
  <2>1. /\ a \in Seq(ScanType) /\ b \in Seq(ScanType) /\ c \in Seq(ScanType) /\ d \in Seq(ScanType)
        /\ e \in Seq(ScanType) /\ f \in Seq(ScanType)
    BY <1>3, <1>4, <1>5, <1>6, <1>7, <1>8 DEF DcScans, EachScan
  <2> QED BY <1>2, <2>1, SixParts, Zenon
<1>10. m \in Nat \ {0} /\ m <= n BY DEF Width, MAX_COMPS_IN_SCAN
<1>11. \A x \in 1..n : dc(x) \in 1..m /\ CompsOf(n, TRUE, dc(x)) = CompsOf(n, TRUE, x)
                       /\ CompsOf(n, FALSE, x) = <<x>>
  BY DEF Width, CompsOf, MAX_COMPS_IN_SCAN
<1> HIDE DEF m, dc
<1>0. Len(a) = m /\ Len(b) = n /\ Len(c) = n /\ Len(d) = n /\ Len(e) = m /\ Len(f) = n
  BY <1>3, <1>4, <1>5, <1>6, <1>7, <1>8 DEF DcScans, EachScan, m
<1>12. Len(s) = 2 * m + 4 * n BY <1>0, <1>9, <1>10 DEF SixJoined
<1>13. \A x \in 1..n :
         /\ s[dc(x)] = Scan(CompsOf(n, TRUE, x), 0, 0, 0, 1)
         /\ s[m + x] = Scan(CompsOf(n, FALSE, x), 1, LowEnd, 0, 2)
         /\ s[m + n + x] = Scan(CompsOf(n, FALSE, x), LowEnd + 1, LastCoef, 0, 2)
         /\ s[m + 2 * n + x] = Scan(CompsOf(n, FALSE, x), 1, LastCoef, 2, 1)
         /\ s[m + 3 * n + dc(x)] = Scan(CompsOf(n, TRUE, x), 0, 0, 1, 0)
         /\ s[2 * m + 3 * n + x] = Scan(CompsOf(n, FALSE, x), 1, LastCoef, 1, 0)
  <2> SUFFICES ASSUME NEW x \in 1..n
               PROVE /\ s[dc(x)] = Scan(CompsOf(n, TRUE, x), 0, 0, 0, 1)
                     /\ s[m + x] = Scan(CompsOf(n, FALSE, x), 1, LowEnd, 0, 2)
                     /\ s[m + n + x] = Scan(CompsOf(n, FALSE, x), LowEnd + 1, LastCoef, 0, 2)
                     /\ s[m + 2 * n + x] = Scan(CompsOf(n, FALSE, x), 1, LastCoef, 2, 1)
                     /\ s[m + 3 * n + dc(x)] = Scan(CompsOf(n, TRUE, x), 0, 0, 1, 0)
                     /\ s[2 * m + 3 * n + x] = Scan(CompsOf(n, FALSE, x), 1, LastCoef, 1, 0)
    OBVIOUS
  <2>1. dc(x) \in 1..m /\ CompsOf(n, TRUE, dc(x)) = CompsOf(n, TRUE, x) /\ CompsOf(n, FALSE, x) = <<x>>
    BY <1>11
  <2>2. /\ s[dc(x)] = a[dc(x)] /\ s[m + x] = b[x] /\ s[m + n + x] = c[x] /\ s[m + n + n + x] = d[x]
        /\ s[m + n + n + n + dc(x)] = e[dc(x)] /\ s[m + n + n + n + m + x] = f[x]
    BY <2>1, <1>0, <1>9 DEF SixJoined
  <2>3. a[dc(x)] = Scan(CompsOf(n, TRUE, x), 0, 0, 0, 1) BY <2>1, <1>3 DEF DcScans, m
  <2>4. b[x] = Scan(<<x>>, 1, LowEnd, 0, 2) /\ c[x] = Scan(<<x>>, LowEnd + 1, LastCoef, 0, 2)
    BY <1>4, <1>5 DEF EachScan
  <2>5. d[x] = Scan(<<x>>, 1, LastCoef, 2, 1) /\ f[x] = Scan(<<x>>, 1, LastCoef, 1, 0)
    BY <1>6, <1>8 DEF EachScan
  <2>6. e[dc(x)] = Scan(CompsOf(n, TRUE, x), 0, 0, 1, 0) BY <2>1, <1>7 DEF DcScans, m
  <2>8. /\ m + n + n + x = m + 2 * n + x /\ m + n + n + n + dc(x) = m + 3 * n + dc(x)
        /\ m + n + n + n + m + x = 2 * m + 3 * n + x
    BY <1>10, <2>1
  <2> QED BY <2>1, <2>2, <2>3, <2>4, <2>5, <2>6, <2>8
<1>14. ASSUME NEW x \in 1..n
       PROVE  /\ Pos(n, 1, x) = dc(x) /\ Pos(n, 2, x) = m + x /\ Pos(n, 3, x) = m + n + x
              /\ Pos(n, 4, x) = m + 2 * n + x /\ Pos(n, 5, x) = m + 3 * n + dc(x)
              /\ Pos(n, 6, x) = 2 * m + 3 * n + x
  <2>1. dc(x) \in Int /\ dc(x) = (IF n <= MAX_COMPS_IN_SCAN THEN 1 ELSE x) BY <1>11 DEF dc
  <2> QED BY <2>1, <1>10 DEF Pos, Begin, IsDc, m
<1>15. 1..6 = {1, 2, 3, 4, 5, 6} /\ ~IsDc(2) /\ ~IsDc(3) /\ ~IsDc(4) /\ ~IsDc(6) /\ IsDc(1) /\ IsDc(5) BY DEF IsDc
<1>16. ASSUME NEW k \in 1..6, NEW x \in 1..n
       PROVE  s[Pos(n, k, x)] = Scan(CompsOf(n, IsDc(k), x), Lows[k], Highs[k], Before[k], After[k])
  <2>0. /\ Lows = <<0, 1, LowEnd + 1, 1, 0, 1>> /\ Highs = <<0, LowEnd, LastCoef, LastCoef, 0, LastCoef>>
        /\ Before = <<0, 0, 0, 2, 1, 1>> /\ After = <<1, 2, 2, 1, 0, 0>>
    BY DEF Lows, Highs, Before, After
  <2>9. \A y : ~IsDc(y) => CompsOf(n, IsDc(y), x) = CompsOf(n, FALSE, x) BY DEF CompsOf
  <2>1. CASE k = 1 BY <2>1, <2>0, <1>13, <1>14, <1>15
  <2>2. CASE k = 2
    <3>1. CompsOf(n, IsDc(2), x) = CompsOf(n, FALSE, x) BY <2>9, <1>15
    <3> QED BY <2>2, <3>1, <2>0, <1>13, <1>14
  <2>3. CASE k = 3
    <3>1. CompsOf(n, IsDc(3), x) = CompsOf(n, FALSE, x) BY <2>9, <1>15
    <3> QED BY <2>3, <3>1, <2>0, <1>13, <1>14
  <2>4. CASE k = 4
    <3>1. CompsOf(n, IsDc(4), x) = CompsOf(n, FALSE, x) BY <2>9, <1>15
    <3> QED BY <2>4, <3>1, <2>0, <1>13, <1>14
  <2>5. CASE k = 5 BY <2>5, <2>0, <1>13, <1>14, <1>15
  <2>6. CASE k = 6
    <3>1. CompsOf(n, IsDc(6), x) = CompsOf(n, FALSE, x) BY <2>9, <1>15
    <3> QED BY <2>6, <3>1, <2>0, <1>13, <1>14
  <2> QED BY <2>1, <2>2, <2>3, <2>4, <2>5, <2>6, <1>15
<1> QED BY <1>9, <1>12, <1>16 DEF SixBlocks, SixJoined, s, m

InBand(b, k) == k \in Lows[b]..Highs[b]

(* Which scans of the six blocks send a coefficient. *)
LEMMA BlocksSend ==
  ASSUME NEW n \in Nat \ {0}, NEW s, SixBlocks(n, s), NEW b \in 1..6, NEW c \in 1..n
  PROVE  /\ Band(s[Pos(n, b, c)]) = Lows[b]..Highs[b]
         /\ InScan(s[Pos(n, b, c)]) \subseteq 1..n
         /\ \A d \in 1..n : d \in InScan(s[Pos(n, b, c)]) <=> Pos(n, b, d) = Pos(n, b, c)
<1>0. PlacedInOrder(n) BY Positions
<1> DEFINE t == s[Pos(n, b, c)]
<1>1. t = Scan(CompsOf(n, IsDc(b), c), Lows[b], Highs[b], Before[b], After[b]) BY DEF SixBlocks
<1>2. t.comps = CompsOf(n, IsDc(b), c) /\ t.Ss = Lows[b] /\ t.Se = Highs[b] BY <1>1 DEF Scan
<1> HIDE DEF t
<1>3. \A d \in 1..n : Pos(n, b, d) = Pos(n, b, c) <=> d = c \/ (IsDc(b) /\ n <= MAX_COMPS_IN_SCAN) BY <1>0 DEF PlacedInOrder
<1>4. InScan(t) = IF IsDc(b) /\ n <= MAX_COMPS_IN_SCAN THEN 1..n ELSE {c}
  <2>1. CASE IsDc(b) /\ n <= MAX_COMPS_IN_SCAN
    <3>1. t.comps = [d \in 1..n |-> d] BY <2>1, <1>2 DEF CompsOf, All
    <3> QED BY <3>1, <2>1 DEF InScan
  <2>2. CASE ~(IsDc(b) /\ n <= MAX_COMPS_IN_SCAN)
    <3>1. t.comps = <<c>> BY <2>2, <1>2 DEF CompsOf
    <3>2. DOMAIN t.comps = {1} /\ t.comps[1] = c BY <3>1
    <3> QED BY <3>2, <2>2 DEF InScan
  <2> QED BY <2>1, <2>2
<1>5. InScan(t) \subseteq 1..n /\ \A d \in 1..n : d \in InScan(t) <=> Pos(n, b, d) = Pos(n, b, c)
  BY <1>3, <1>4
<1>6. Band(t) = Lows[b]..Highs[b] BY <1>2 DEF Band
<1> QED BY <1>5, <1>6 DEF t

LEMMA WhoSends ==
  ASSUME NEW n \in Nat \ {0}, NEW s, SixBlocks(n, s), NEW j \in 1..Len(s), NEW c \in 1..n, NEW k,
         Sends(s[j], c, k)
  PROVE  \E b \in 1..6 : j = Pos(n, b, c) /\ InBand(b, k)
<1>0. PlacedInOrder(n) BY Positions
<1>1. Len(s) = 2 * Width(n) + 4 * n BY DEF SixBlocks
<1>2. PICK b \in 1..6, d \in 1..n : j = Pos(n, b, d) BY <1>1, <1>0 DEF PlacedInOrder
<1>3. Pos(n, b, c) = j BY <1>2, BlocksSend DEF Sends
<1>4. Band(s[Pos(n, b, d)]) = Lows[b]..Highs[b] BY BlocksSend
<1>5. InBand(b, k) BY <1>2, <1>4 DEF InBand, Sends
<1> QED BY <1>3, <1>5

(* The last bit sent is that of the last block whose band has it and whose *)
(* scan of the component is among the scans.                               *)
LEMMA SentByBlock ==
  ASSUME NEW n \in Nat \ {0}, NEW s, SixBlocks(n, s), NEW i \in 0..Len(s), NEW c \in 1..n, NEW k \in Coefs,
         NEW b \in 1..6, Pos(n, b, c) <= i, InBand(b, k),
         \A a \in 1..6 : a > b /\ InBand(a, k) => ~(Pos(n, a, c) <= i)
  PROVE  last_bitpos(n, s, i)[c][k] = After[b]
<1>0. PlacedInOrder(n) BY Positions
<1> DEFINE q == Pos(n, b, c)
<1>1. Len(s) \in Nat BY DEF SixBlocks
<1>2. i \in Nat /\ q \in 1..i
  <2>1. q \in 1..2 * Width(n) + 4 * n BY <1>0 DEF PlacedInOrder
  <2> QED BY <2>1, <1>1
<1>3. Sends(s[q], c, k)
  <2>1. Band(s[q]) = Lows[b]..Highs[b] BY BlocksSend
  <2>2. \A d \in 1..n : d \in InScan(s[q]) <=> Pos(n, b, d) = q BY BlocksSend
  <2> QED BY <2>1, <2>2 DEF Sends, InBand
<1>4. ASSUME NEW j \in 1..i, j > q, Sends(s[j], c, k) PROVE FALSE
  <2>1. j \in 1..Len(s) BY <1>1
  <2>2. PICK a \in 1..6 : j = Pos(n, a, c) /\ InBand(a, k) BY <2>1, <1>4, WhoSends
  <2>3. ~(a > b) BY <2>2
  <2>4. a < b \/ a = b BY <2>3
  <2>5. CASE a = b BY <2>5, <2>2, <1>4, <1>2
  <2>6. CASE a < b
    <3>1. j < q BY <2>6, <2>2, <1>0 DEF PlacedInOrder
    <3> QED BY <3>1, <1>4, <1>2
  <2> QED BY <2>4, <2>5, <2>6
<1> HIDE DEF q
<1>5. last_bitpos(n, s, i)[c][k] = s[q].Al BY <1>2, <1>3, <1>4, LastIs
<1>6. s[q] = Scan(CompsOf(n, IsDc(b), c), Lows[b], Highs[b], Before[b], After[b]) BY DEF SixBlocks, q
<1> QED BY <1>5, <1>6 DEF Scan

LEMMA SentByNone ==
  ASSUME NEW n \in Nat \ {0}, NEW s, SixBlocks(n, s), NEW i \in 0..Len(s), NEW c \in 1..n, NEW k \in Coefs,
         \A a \in 1..6 : InBand(a, k) => ~(Pos(n, a, c) <= i)
  PROVE  last_bitpos(n, s, i)[c][k] = -1
<1>1. Len(s) \in Nat BY DEF SixBlocks
<1>2. ASSUME NEW j \in 1..i, Sends(s[j], c, k) PROVE FALSE
  <2>1. j \in 1..Len(s) BY <1>1
  <2>2. PICK a \in 1..6 : j = Pos(n, a, c) /\ InBand(a, k) BY <2>1, <1>2, WhoSends
  <2> QED BY <2>2
<1> QED BY <1>2, LastNone

(* What was sent before a scan of each block, and in the end. *)
LEMMA Bands ==
  ASSUME NEW k \in Coefs
  PROVE  /\ InBand(1, k) <=> k = 0
         /\ InBand(2, k) <=> k \in 1..LowEnd
         /\ InBand(3, k) <=> k > LowEnd
         /\ InBand(4, k) <=> k # 0
         /\ InBand(5, k) <=> k = 0
         /\ InBand(6, k) <=> k # 0
BY CoefsAssumption DEF InBand, Lows, Highs, Coefs, LastCoef

LEMMA Order ==
  ASSUME NEW n \in Nat \ {0}, NEW c \in 1..n
  PROVE  \A a, b \in 1..6 : /\ Pos(n, a, c) \in Int
                            /\ a < b => Pos(n, a, c) <= Pos(n, b, c) - 1
                            /\ a >= b => ~(Pos(n, a, c) <= Pos(n, b, c) - 1)
<1>0. PlacedInOrder(n) BY Positions
<1>1. \A b \in 1..6 : Pos(n, b, c) \in Int BY <1>0 DEF PlacedInOrder
<1>2. \A a, b \in 1..6 : a < b => Pos(n, a, c) < Pos(n, b, c) BY <1>0 DEF PlacedInOrder
<1> SUFFICES ASSUME NEW a \in 1..6, NEW b \in 1..6
             PROVE  /\ a < b => Pos(n, a, c) <= Pos(n, b, c) - 1
                    /\ a >= b => ~(Pos(n, a, c) <= Pos(n, b, c) - 1)
  BY <1>1
<1> DEFINE x == Pos(n, a, c)
           y == Pos(n, b, c)
<1>3. x \in Int /\ y \in Int /\ (a < b => x < y) /\ (b < a => y < x) /\ (a = b => x = y) BY <1>1, <1>2
<1> HIDE DEF x, y
<1>4. (a < b => x <= y - 1) /\ (a >= b => ~(x <= y - 1)) BY <1>3
<1> QED BY <1>4 DEF x, y

LEMMA BeforeBlock ==
  ASSUME NEW n \in Nat \ {0}, NEW s, SixBlocks(n, s), NEW b \in 1..6, NEW c \in 1..n, NEW k \in Coefs
  PROVE  LET last == last_bitpos(n, s, Pos(n, b, c) - 1)[c]
         IN /\ b > 1 /\ b <= 5 => last[0] = 1
            /\ b = 6 => last[0] = 0
            /\ InBand(b, k) /\ b <= 3 => last[k] = -1
            /\ InBand(b, k) /\ b = 4 => last[k] = 2
            /\ InBand(b, k) /\ b > 4 => last[k] = 1
<1>0. PlacedInOrder(n) BY Positions
<1> DEFINE i == Pos(n, b, c) - 1
           last == last_bitpos(n, s, i)[c]
<1>1. i \in 0..Len(s)
  <2> DEFINE q == Pos(n, b, c)
  <2>1. q \in 1..2 * Width(n) + 4 * n BY <1>0 DEF PlacedInOrder
  <2>2. Len(s) = 2 * Width(n) + 4 * n /\ Len(s) \in Nat BY DEF SixBlocks
  <2> HIDE DEF q
  <2>3. q - 1 \in 0..Len(s) BY <2>1, <2>2
  <2> QED BY <2>3 DEF q
<1>2. \A a \in 1..6 : (a < b => Pos(n, a, c) <= i) /\ (a >= b => ~(Pos(n, a, c) <= i)) BY Order
<1> HIDE DEF i
<1>3. ASSUME NEW j \in Coefs, NEW a \in 1..6, a < b, InBand(a, j),
             \A d \in 1..6 : d > a /\ d < b => ~InBand(d, j)
      PROVE  last[j] = After[a]
  <2>1. Pos(n, a, c) <= i BY <1>2, <1>3
  <2>2. \A d \in 1..6 : d > a /\ InBand(d, j) => ~(Pos(n, d, c) <= i)
    <3> SUFFICES ASSUME NEW d \in 1..6, d > a, InBand(d, j) PROVE ~(Pos(n, d, c) <= i) OBVIOUS
    <3>1. d >= b BY <1>3
    <3> QED BY <3>1, <1>2
  <2> QED BY <1>1, <1>3, <2>1, <2>2, SentByBlock
<1>4. ASSUME NEW j \in Coefs, \A d \in 1..6 : d < b => ~InBand(d, j)
      PROVE  last[j] = -1
  <2>1. \A d \in 1..6 : InBand(d, j) => ~(Pos(n, d, c) <= i)
    <3> SUFFICES ASSUME NEW d \in 1..6, InBand(d, j) PROVE ~(Pos(n, d, c) <= i) OBVIOUS
    <3>1. d >= b BY <1>4
    <3> QED BY <3>1, <1>2
  <2> QED BY <1>1, <2>1, SentByNone
<1> HIDE DEF last
<1>5. 1..6 = {1, 2, 3, 4, 5, 6} /\ 0 \in Coefs BY CoefsAssumption DEF Coefs
<1>6. After[1] = 1 /\ After[2] = 2 /\ After[3] = 2 /\ After[4] = 1 /\ After[5] = 0 /\ After[6] = 0 BY DEF After
<1>7. InBand(1, 0) /\ ~InBand(2, 0) /\ ~InBand(3, 0) /\ ~InBand(4, 0) /\ InBand(5, 0) /\ ~InBand(6, 0)
  <2>1. LowEnd \in Nat \ {0} BY CoefsAssumption
  <2> QED BY <2>1, <1>5, Bands
<1>8. b > 1 /\ b <= 5 => last[0] = 1
  <2> SUFFICES ASSUME b > 1, b <= 5 PROVE last[0] = 1 OBVIOUS
  <2>1. \A d \in 1..6 : d > 1 /\ d < b => ~InBand(d, 0) BY <1>5, <1>7
  <2> QED BY <2>1, <1>3, <1>5, <1>6, <1>7
<1>9. b = 6 => last[0] = 0
  <2> SUFFICES ASSUME b = 6 PROVE last[0] = 0 OBVIOUS
  <2>1. \A d \in 1..6 : d > 5 /\ d < b => ~InBand(d, 0) BY <1>5
  <2> QED BY <2>1, <1>3, <1>5, <1>6, <1>7
<1>10. InBand(b, k) /\ b <= 3 => last[k] = -1
  <2> SUFFICES ASSUME InBand(b, k), b <= 3 PROVE last[k] = -1 OBVIOUS
  <2>1. \A d \in 1..6 : d < b => ~InBand(d, k) BY <1>5, Bands, CoefsAssumption DEF Coefs
  <2> QED BY <2>1, <1>4
<1>11. InBand(b, k) /\ b = 4 => last[k] = 2
  <2> SUFFICES ASSUME InBand(b, k), b = 4 PROVE last[k] = 2 OBVIOUS
  <2>1. k # 0 BY Bands
  <2>2. CASE k <= LowEnd
    <3>1. InBand(2, k) /\ ~InBand(3, k) BY <2>1, <2>2, Bands, CoefsAssumption DEF Coefs
    <3>2. \A d \in 1..6 : d > 2 /\ d < b => ~InBand(d, k) BY <3>1, <1>5
    <3> QED BY <3>1, <3>2, <1>3, <1>5, <1>6
  <2>3. CASE ~(k <= LowEnd)
    <3>1. InBand(3, k) BY <2>1, <2>3, Bands, CoefsAssumption DEF Coefs
    <3>2. \A d \in 1..6 : d > 3 /\ d < b => ~InBand(d, k) BY <1>5
    <3> QED BY <3>1, <3>2, <1>3, <1>5, <1>6
  <2> QED BY <2>2, <2>3
<1>12. InBand(b, k) /\ b > 4 => last[k] = 1
  <2> SUFFICES ASSUME InBand(b, k), b > 4 PROVE last[k] = 1 OBVIOUS
  <2>1. b = 5 \/ b = 6 BY <1>5
  <2>2. CASE b = 5
    <3>1. k = 0 BY <2>2, Bands
    <3> QED BY <3>1, <2>2, <1>8
  <2>3. CASE b = 6
    <3>1. k # 0 BY <2>3, Bands
    <3>2. InBand(4, k) /\ ~InBand(5, k) BY <3>1, Bands
    <3>3. \A d \in 1..6 : d > 4 /\ d < b => ~InBand(d, k) BY <3>2, <2>3, <1>5
    <3> QED BY <3>2, <3>3, <2>3, <1>3, <1>5, <1>6
  <2> QED BY <2>1, <2>2, <2>3
<1> QED BY <1>8, <1>9, <1>10, <1>11, <1>12 DEF last, i

LEMMA BlocksProgress ==
  ASSUME NEW n \in Nat \ {0}, NEW s, SixBlocks(n, s)
  PROVE  Progressive(s)
<1>1. Pos(n, 1, 1) = 1 BY DEF Pos, Begin, IsDc
<1>2. s[1] = Scan(CompsOf(n, IsDc(1), 1), Lows[1], Highs[1], Before[1], After[1]) BY <1>1 DEF SixBlocks
<1>3. s[1].Se = 0 BY <1>2 DEF Scan, Highs
<1> QED BY <1>3, CoefsAssumption DEF Progressive

(* Every scan of the six blocks may follow on those before it. *)
LEMMA BlockScanFits ==
  ASSUME NEW n \in Nat \ {0}, NEW s, SixBlocks(n, s), NEW b \in 1..6, NEW c \in 1..n
  PROVE  ScanFits(n, s, Pos(n, b, c))
<1> DEFINE i == Pos(n, b, c)
           t == s[i]
           last == last_bitpos(n, s, i - 1)
<1>1. t = Scan(CompsOf(n, IsDc(b), c), Lows[b], Highs[b], Before[b], After[b]) BY DEF SixBlocks
<1>2. /\ t.comps = CompsOf(n, IsDc(b), c) /\ t.Ss = Lows[b] /\ t.Se = Highs[b] /\ t.Ah = Before[b]
      /\ t.Al = After[b]
  BY <1>1 DEF Scan
<1>3. /\ Band(t) = Lows[b]..Highs[b] /\ InScan(t) \subseteq 1..n
      /\ \A d \in 1..n : d \in InScan(t) <=> Pos(n, b, d) = i
  BY BlocksSend
<1>4. ASSUME NEW d \in InScan(t), NEW k \in Coefs
      PROVE  /\ b > 1 /\ b <= 5 => last[d][0] = 1
             /\ b = 6 => last[d][0] = 0
             /\ InBand(b, k) /\ b <= 3 => last[d][k] = -1
             /\ InBand(b, k) /\ b = 4 => last[d][k] = 2
             /\ InBand(b, k) /\ b > 4 => last[d][k] = 1
  <2>1. d \in 1..n /\ Pos(n, b, d) = i BY <1>3
  <2> QED BY <2>1, BeforeBlock
<1> HIDE DEF t, last, i
<1>5. 1..6 = {1, 2, 3, 4, 5, 6} /\ 0 \in Coefs BY CoefsAssumption DEF Coefs
<1>6. /\ Lows = <<0, 1, LowEnd + 1, 1, 0, 1>> /\ Highs = <<0, LowEnd, LastCoef, LastCoef, 0, LastCoef>>
      /\ Before = <<0, 0, 0, 2, 1, 1>> /\ After = <<1, 2, 2, 1, 0, 0>>
  BY DEF Lows, Highs, Before, After
<1>7. ComponentsFit(t, n)
  <2>1. CASE IsDc(b) /\ n <= MAX_COMPS_IN_SCAN
    <3>1. t.comps = [d \in 1..n |-> d] BY <2>1, <1>2 DEF CompsOf, All
    <3>2. Len(t.comps) = n /\ DOMAIN t.comps = 1..n BY <3>1
    <3>3. \A d \in 1..n : t.comps[d] = d /\ (d > 1 => t.comps[d - 1] = d - 1) BY <3>1
    <3> QED BY <3>2, <3>3, <2>1 DEF ComponentsFit, MAX_COMPS_IN_SCAN
  <2>2. CASE ~(IsDc(b) /\ n <= MAX_COMPS_IN_SCAN)
    <3>1. t.comps = <<c>> BY <2>2, <1>2 DEF CompsOf
    <3>2. Len(t.comps) = 1 /\ DOMAIN t.comps = 1..1 /\ t.comps[1] = c BY <3>1
    <3> QED BY <3>2 DEF ComponentsFit, MAX_COMPS_IN_SCAN
  <2> QED BY <2>1, <2>2
<1>8. /\ t.Ss \in Coefs /\ t.Se \in t.Ss..LastCoef /\ t.Ah \in 0..MAX_AH_AL /\ t.Al \in 0..MAX_AH_AL
      /\ t.Ss = 0 => t.Se = 0
  <2>1. LowEnd \in 1..LastCoef - 1 /\ Coefs = 0..LastCoef /\ LastCoef \in Nat
    BY CoefsAssumption DEF Coefs, LastCoef
  <2>2. CASE b \in {1, 5} BY <2>1, <2>2, <1>2, <1>6 DEF MAX_AH_AL
  <2>3. CASE b \in {2, 3}
    <3>1. t.Ss \in {1, LowEnd + 1} /\ t.Se = (IF b = 2 THEN LowEnd ELSE LastCoef) /\ t.Ah = 0 /\ t.Al = 2
      BY <2>3, <1>2, <1>6
    <3>2. b = 2 => t.Ss = 1 BY <1>2, <1>6
    <3> QED BY <3>1, <3>2, <2>1 DEF MAX_AH_AL
  <2>4. CASE b \in {4, 6} BY <2>1, <2>4, <1>2, <1>6 DEF MAX_AH_AL
  <2> QED BY <2>2, <2>3, <2>4, <1>5
<1>9. t.Ss # 0 => Len(t.comps) = 1 /\ b > 1 /\ b # 5
  <2> SUFFICES ASSUME t.Ss # 0 PROVE Len(t.comps) = 1 /\ b > 1 /\ b # 5 OBVIOUS
  <2>1. b # 1 /\ b # 5 BY <1>2, <1>6
  <2>2. ~IsDc(b) BY <2>1 DEF IsDc
  <2>3. t.comps = <<c>> BY <2>2, <1>2 DEF CompsOf
  <2> QED BY <2>1, <2>3
<1>10. ASSUME NEW d \in InScan(t)
       PROVE  /\ t.Ss # 0 => last[d][0] >= 0
              /\ \A k \in Band(t) : Continues(t, last[d][k])
  <2>1. t.Ss # 0 => last[d][0] >= 0 BY <1>4, <1>5, <1>9
  <2>2. ASSUME NEW k \in Band(t) PROVE Continues(t, last[d][k])
    <3>1. k \in Coefs /\ InBand(b, k)
      <4>1. InBand(b, k) BY <1>3 DEF InBand
      <4>2. t.Ss \in Int /\ t.Se \in Int BY <1>8, CoefsAssumption DEF Coefs
      <4>3. k \in t.Ss..t.Se BY DEF Band
      <4> QED BY <4>1, <4>2, <4>3, <1>8, CoefsAssumption DEF Coefs, LastCoef
    <3>2. /\ b <= 3 => last[d][k] = -1
          /\ b = 4 => last[d][k] = 2
          /\ b > 4 => last[d][k] = 1
      BY <1>4, <3>1
    <3>3. CASE b <= 3
      <4>1. t.Ah = 0 BY <3>3, <1>2, <1>5, <1>6
      <4> QED BY <4>1, <3>2, <3>3 DEF Continues
    <3>4. CASE b = 4
      <4>1. t.Ah = 2 /\ t.Al = 1 BY <3>4, <1>2, <1>6
      <4> QED BY <4>1, <3>2, <3>4 DEF Continues
    <3>5. CASE b > 4
      <4>1. t.Ah = 1 /\ t.Al = 0 BY <3>5, <1>2, <1>5, <1>6
      <4> QED BY <4>1, <3>2, <3>5 DEF Continues
    <3> QED BY <3>3, <3>4, <3>5
  <2> QED BY <2>1, <2>2
<1>11. ProgressionFits(t, last) BY <1>8, <1>9, <1>10 DEF ProgressionFits, LastCoef
<1> QED BY <1>7, <1>11, BlocksProgress DEF ScanFits, t, last, i

(* What a script of the library's own is to be. *)
Complete(n, s) ==
  /\ validate_script(n, s) /\ Progressive(s)
  /\ last_bitpos(n, s, Len(s)) = [c \in 1..n |-> [k \in Coefs |-> 0]]

LEMMA AllSent ==
  ASSUME NEW n, NEW s, \A c \in 1..n, k \in Coefs : last_bitpos(n, s, Len(s))[c][k] = 0
  PROVE  last_bitpos(n, s, Len(s)) = [c \in 1..n |-> [k \in Coefs |-> 0]]
<1> DEFINE f(c, k) == IF Senders(s, Len(s), c, k) = {} THEN -1 ELSE s[LastOf(Senders(s, Len(s), c, k))].Al
<1>1. last_bitpos(n, s, Len(s)) = [c \in 1..n |-> [k \in Coefs |-> f(c, k)]] BY DEF last_bitpos
<1> HIDE DEF f
<1>2. \A c \in 1..n, k \in Coefs : f(c, k) = 0 BY <1>1
<1> QED BY <1>1, <1>2

LEMMA CompleteIf ==
  ASSUME NEW n \in Nat \ {0}, NEW s \in Seq(ScanType), s # <<>>, Progressive(s),
         \A i \in 1..Len(s) : ScanFits(n, s, i),
         \A c \in 1..n, k \in Coefs : last_bitpos(n, s, Len(s))[c][k] = 0
  PROVE  Complete(n, s)
<1>1. last_bitpos(n, s, Len(s)) = [c \in 1..n |-> [k \in Coefs |-> 0]] BY AllSent
<1>2. 0 \in Coefs BY CoefsAssumption DEF Coefs
<1>3. \A c \in 1..n : last_bitpos(n, s, Len(s))[c][0] >= 0 BY <1>2
<1>4. DOMAIN s = 1..Len(s) OBVIOUS
<1>5. validate_script(n, s) BY <1>3, <1>4 DEF validate_script
<1> QED BY <1>1, <1>5 DEF Complete

LEMMA BlocksComplete ==
  ASSUME NEW n \in Nat \ {0}, NEW s, SixBlocks(n, s)
  PROVE  Complete(n, s)
<1>1. PlacedInOrder(n) BY Positions
<1>2. s \in Seq(ScanType) /\ Len(s) = 2 * Width(n) + 4 * n /\ Len(s) \in Nat BY DEF SixBlocks
<1>3. Width(n) \in Nat BY DEF Width, MAX_COMPS_IN_SCAN
<1>4. s # <<>> BY <1>2, <1>3
<1>5. ASSUME NEW i \in 1..Len(s) PROVE ScanFits(n, s, i)
  <2>1. PICK b \in 1..6, c \in 1..n : i = Pos(n, b, c) BY <1>1, <1>2 DEF PlacedInOrder
  <2> QED BY <2>1, BlockScanFits
<1>6. ASSUME NEW c \in 1..n, NEW k \in Coefs PROVE last_bitpos(n, s, Len(s))[c][k] = 0
  <2>1. ASSUME NEW b \in 1..6 PROVE Pos(n, b, c) <= Len(s)
    <3>1. Pos(n, b, c) \in 1..2 * Width(n) + 4 * n BY <1>1 DEF PlacedInOrder
    <3> QED BY <3>1, <1>2
  <2>2. After[5] = 0 /\ After[6] = 0 /\ 5 \in 1..6 /\ 6 \in 1..6 BY DEF After
  <2>3. Len(s) \in 0..Len(s) BY <1>2
  <2>4. CASE k = 0
    <3>1. InBand(5, k) /\ ~InBand(6, k) BY <2>4, Bands
    <3>2. \A a \in 1..6 : a > 5 /\ InBand(a, k) => ~(Pos(n, a, c) <= Len(s))
      <4>1. \A a \in 1..6 : a > 5 => a = 6 OBVIOUS
      <4> QED BY <4>1, <3>1
    <3>3. last_bitpos(n, s, Len(s))[c][k] = After[5] BY <2>1, <2>2, <2>3, <3>1, <3>2, SentByBlock
    <3> QED BY <3>3, <2>2
  <2>5. CASE k # 0
    <3>1. InBand(6, k) BY <2>5, Bands
    <3>2. \A a \in 1..6 : a > 6 /\ InBand(a, k) => ~(Pos(n, a, c) <= Len(s)) OBVIOUS
    <3>3. last_bitpos(n, s, Len(s))[c][k] = After[6] BY <2>1, <2>2, <2>3, <3>1, <3>2, SentByBlock
    <3> QED BY <3>3, <2>2
  <2> QED BY <2>4, <2>5
<1> QED BY <1>2, <1>4, <1>5, <1>6, BlocksProgress, CompleteIf

(***************************************************************************)
(* The script for YCbCr pictures: ten scans, the luminance ones last.      *)
(***************************************************************************)
YccComps == <<All(3), <<1>>, <<3>>, <<2>>, <<1>>, <<1>>, All(3), <<3>>, <<2>>, <<1>> >>
YccLow == <<0, 1, 1, 1, LowEnd + 1, 1, 0, 1, 1, 1>>
YccHigh == <<0, LowEnd, LastCoef, LastCoef, LastCoef, LastCoef, 0, LastCoef, LastCoef, LastCoef>>
YccBefore == <<0, 0, 0, 0, 0, 2, 1, 1, 1, 1>>
YccAfter == <<1, 2, 1, 1, 2, 1, 0, 0, 0, 0>>
IsYcc(s) ==
  /\ s \in Seq(ScanType) /\ Len(s) = 10
  /\ \A i \in 1..10 : s[i] = Scan(YccComps[i], YccLow[i], YccHigh[i], YccBefore[i], YccAfter[i])

Ten(s, t) == Len(s) = 10 /\ \A i \in 1..10 : s[i] = t[i]

LEMMA ExplicitScans ==
  ASSUME NEW S, NEW t \in [1..10 -> S]
  PROVE  LET s == <<t[1]>> \o <<t[2], t[3], t[4], t[5], t[6]>> \o <<t[7]>> \o <<t[8], t[9], t[10]>>
         IN s \in Seq(S) /\ Ten(s, t)
<1> DEFINE a == <<t[1]>>
           b == <<t[2], t[3], t[4], t[5], t[6]>>
           c == <<t[7]>>
           d == <<t[8], t[9], t[10]>>
           s2 == a \o b
           s3 == s2 \o c
           s == s3 \o d
<1>1. a \in Seq(S) /\ b \in Seq(S) /\ c \in Seq(S) /\ d \in Seq(S) OBVIOUS
<1>2. /\ Len(a) = 1 /\ Len(b) = 5 /\ Len(c) = 1 /\ Len(d) = 3
      /\ a[1] = t[1]
      /\ b[1] = t[2] /\ b[2] = t[3] /\ b[3] = t[4] /\ b[4] = t[5] /\ b[5] = t[6]
      /\ c[1] = t[7]
      /\ d[1] = t[8] /\ d[2] = t[9] /\ d[3] = t[10]
  OBVIOUS
<1> HIDE DEF a, b, c, d
<1>3. s2 \in Seq(S) /\ Joins(S, s2, a, b) BY <1>1, TwoParts, Zenon
<1> HIDE DEF s2
<1>4. s3 \in Seq(S) /\ Joins(S, s3, s2, c) BY <1>1, <1>3, TwoParts, Zenon
<1> HIDE DEF s3
<1>5. s \in Seq(S) /\ Joins(S, s, s3, d) BY <1>1, <1>4, TwoParts, Zenon
<1> HIDE DEF s
<1>6. Len(s2) = 6 /\ Len(s3) = 7 /\ Len(s) = 10 BY <1>2, <1>3, <1>4, <1>5 DEF Joins
<1>7. \A i \in 1..10 : s[i] = IF i <= 7 THEN s3[i] ELSE d[i - 7]
  <2> SUFFICES ASSUME NEW i \in 1..10 PROVE s[i] = IF i <= 7 THEN s3[i] ELSE d[i - 7] OBVIOUS
  <2>1. CASE i <= 7 BY <2>1, <1>5, <1>6 DEF Joins
  <2>2. CASE ~(i <= 7)
    <3>1. i - 7 \in 1..3 /\ i = 7 + (i - 7) BY <2>2
    <3> QED BY <3>1, <2>2, <1>2, <1>5, <1>6 DEF Joins
  <2> QED BY <2>1, <2>2
<1>8. s3[7] = c[1] /\ \A i \in 1..6 : s3[i] = s2[i]
  <2>1. 1 \in 1..Len(c) /\ Len(s2) + 1 = 7 BY <1>2, <1>6
  <2> QED BY <2>1, <1>4, <1>6 DEF Joins
<1>9. s2[1] = a[1] /\ \A i \in 1..5 : s2[1 + i] = b[i]
  <2>1. 1 \in 1..Len(a) BY <1>2
  <2> QED BY <2>1, <1>2, <1>3 DEF Joins
<1>10. /\ s2[2] = b[1] /\ s2[3] = b[2] /\ s2[4] = b[3] /\ s2[5] = b[4] /\ s2[6] = b[5]
  <2>1. 1 + 1 = 2 /\ 1 + 2 = 3 /\ 1 + 3 = 4 /\ 1 + 4 = 5 /\ 1 + 5 = 6
        /\ 1 \in 1..5 /\ 2 \in 1..5 /\ 3 \in 1..5 /\ 4 \in 1..5 /\ 5 \in 1..5
    OBVIOUS
  <2> QED BY <2>1, <1>9
<1>11. /\ s[1] = t[1] /\ s[2] = t[2] /\ s[3] = t[3] /\ s[4] = t[4] /\ s[5] = t[5] /\ s[6] = t[6]
       /\ s[7] = t[7] /\ s[8] = t[8] /\ s[9] = t[9] /\ s[10] = t[10]
  BY <1>2, <1>7, <1>8, <1>9, <1>10
<1>12. 1..10 = {1, 2, 3, 4, 5, 6, 7, 8, 9, 10} OBVIOUS
<1>13. Ten(s, t) BY <1>6, <1>11, <1>12 DEF Ten
<1> QED BY <1>5, <1>13 DEF s, s3, s2, a, b, c, d

LEMMA MadeOfTen ==
  IsYcc(jpeg_simple_progression(3, TRUE))
<1> DEFINE T == [i \in 1..10 |-> Scan(YccComps[i], YccLow[i], YccHigh[i], YccBefore[i], YccAfter[i])]
           s == jpeg_simple_progression(3, TRUE)
<1>1. /\ T[1] = Scan(All(3), 0, 0, 0, 1)
      /\ T[2] = Scan(<<1>>, 1, LowEnd, 0, 2)
      /\ T[3] = Scan(<<3>>, 1, LastCoef, 0, 1)
      /\ T[4] = Scan(<<2>>, 1, LastCoef, 0, 1)
      /\ T[5] = Scan(<<1>>, LowEnd + 1, LastCoef, 0, 2)
      /\ T[6] = Scan(<<1>>, 1, LastCoef, 2, 1)
      /\ T[7] = Scan(All(3), 0, 0, 1, 0)
      /\ T[8] = Scan(<<3>>, 1, LastCoef, 1, 0)
      /\ T[9] = Scan(<<2>>, 1, LastCoef, 1, 0)
      /\ T[10] = Scan(<<1>>, 1, LastCoef, 1, 0)
  BY DEF YccComps, YccLow, YccHigh, YccBefore, YccAfter
<1>2. fill_dc_scans(3, 0, 1) = <<Scan(All(3), 0, 0, 0, 1)>> /\ fill_dc_scans(3, 1, 0) = <<Scan(All(3), 0, 0, 1, 0)>>
  BY DEF fill_dc_scans, All, MAX_COMPS_IN_SCAN
<1>3. T \in [1..10 -> ScanType]
  <2>1. All(3) \in Seq(Int) /\ <<1>> \in Seq(Int) /\ <<2>> \in Seq(Int) /\ <<3>> \in Seq(Int) BY DEF All
  <2>2. LowEnd \in Int /\ LastCoef \in Int BY CoefsAssumption DEF LastCoef
  <2>3. \A x \in Seq(Int), a, b, c, d \in Int : Scan(x, a, b, c, d) \in ScanType BY DEF Scan, ScanType
  <2> SUFFICES ASSUME NEW i \in 1..10
               PROVE  Scan(YccComps[i], YccLow[i], YccHigh[i], YccBefore[i], YccAfter[i]) \in ScanType
    OBVIOUS
  <2>4. YccComps[i] \in Seq(Int)
    <3>1. YccComps[i] \in {All(3), <<1>>, <<2>>, <<3>>} BY DEF YccComps
    <3> QED BY <3>1, <2>1
  <2>5. YccLow[i] \in Int /\ YccHigh[i] \in Int /\ YccBefore[i] \in Int /\ YccAfter[i] \in Int
    BY <2>2 DEF YccLow, YccHigh, YccBefore, YccAfter
  <2> QED BY <2>3, <2>4, <2>5
<1> HIDE DEF T
<1>4. s = <<T[1]>> \o <<T[2], T[3], T[4], T[5], T[6]>> \o <<T[7]>> \o <<T[8], T[9], T[10]>>
  BY <1>1, <1>2, Zenon DEF jpeg_simple_progression
<1> HIDE DEF s
<1>5. s \in Seq(ScanType) /\ Ten(s, T) BY <1>3, <1>4, ExplicitScans, Zenon
<1> QED BY <1>5 DEF IsYcc, Ten, T, s

LEMMA YccSends ==
  ASSUME NEW s, IsYcc(s), NEW j \in 1..10, NEW c \in 1..3, NEW k \in Coefs
  PROVE  Sends(s[j], c, k) <=>
           \/ k = 0 /\ j \in {1, 7}
           \/ k # 0 /\ c = 1 /\ (j \in {6, 10} \/ (j = 2 /\ k <= LowEnd) \/ (j = 5 /\ k > LowEnd))
           \/ k # 0 /\ c = 2 /\ j \in {4, 9}
           \/ k # 0 /\ c = 3 /\ j \in {3, 8}
<1> DEFINE t == s[j]
<1>1. t.comps = YccComps[j] /\ t.Ss = YccLow[j] /\ t.Se = YccHigh[j] BY DEF IsYcc, Scan
<1> HIDE DEF t
<1>2. \A d : (\A x : t.comps = <<x>> => InScan(t) = {x}) /\ (t.comps = All(3) => InScan(t) = 1..3)
  BY DEF InScan, All
<1>3. LowEnd \in 1..LastCoef - 1 /\ Coefs = 0..LastCoef /\ LastCoef \in Nat /\ k \in Int
  BY CoefsAssumption DEF Coefs, LastCoef
<1>4. Band(t) = YccLow[j]..YccHigh[j] BY <1>1 DEF Band
<1>5. CASE j \in {1, 7}
  <2>1. t.comps = All(3) /\ Band(t) = 0..0 BY <1>1, <1>4, <1>5 DEF YccComps, YccLow, YccHigh
  <2>2. InScan(t) = 1..3 BY <2>1, <1>2
  <2> QED BY <2>1, <2>2, <1>3, <1>5 DEF Sends, t
<1>6. CASE j \in {2, 5, 6, 10}
  <2>1. t.comps = <<1>> BY <1>1, <1>6 DEF YccComps
  <2>2. InScan(t) = {1} BY <2>1, <1>2
  <2>3. Band(t) = IF j = 2 THEN 1..LowEnd ELSE IF j = 5 THEN LowEnd + 1..LastCoef ELSE 1..LastCoef
    BY <1>4, <1>6 DEF YccLow, YccHigh
  <2> QED BY <2>2, <2>3, <1>3, <1>6 DEF Sends, t
<1>7. CASE j \in {4, 9}
  <2>1. t.comps = <<2>> /\ Band(t) = 1..LastCoef BY <1>1, <1>4, <1>7 DEF YccComps, YccLow, YccHigh
  <2>2. InScan(t) = {2} BY <2>1, <1>2
  <2> QED BY <2>1, <2>2, <1>3, <1>7 DEF Sends, t
<1>8. CASE j \in {3, 8}
  <2>1. t.comps = <<3>> /\ Band(t) = 1..LastCoef BY <1>1, <1>4, <1>8 DEF YccComps, YccLow, YccHigh
  <2>2. InScan(t) = {3} BY <2>1, <1>2
  <2> QED BY <2>1, <2>2, <1>3, <1>8 DEF Sends, t
<1> QED BY <1>5, <1>6, <1>7, <1>8

(* The last bit sent of a coefficient, after so many of the ten scans. *)
YccLast(i, c, k) ==
  IF k = 0 THEN (IF i < 1 THEN -1 ELSE IF i < 7 THEN 1 ELSE 0)
  ELSE IF c = 3 THEN (IF i < 3 THEN -1 ELSE IF i < 8 THEN 1 ELSE 0)
  ELSE IF c = 2 THEN (IF i < 4 THEN -1 ELSE IF i < 9 THEN 1 ELSE 0)
  ELSE IF i < (IF k <= LowEnd THEN 2 ELSE 5) THEN -1 ELSE IF i < 6 THEN 2 ELSE IF i < 10 THEN 1 ELSE 0

LEMMA YccLastIs ==
  ASSUME NEW s, IsYcc(s), NEW i \in 0..10, NEW c \in 1..3, NEW k \in Coefs
  PROVE  last_bitpos(3, s, i)[c][k] = YccLast(i, c, k)
<1> DEFINE by(j) == \/ k = 0 /\ j \in {1, 7}
                    \/ k # 0 /\ c = 1 /\ (j \in {6, 10} \/ (j = 2 /\ k <= LowEnd) \/ (j = 5 /\ k > LowEnd))
                    \/ k # 0 /\ c = 2 /\ j \in {4, 9}
                    \/ k # 0 /\ c = 3 /\ j \in {3, 8}
           bit == last_bitpos(3, s, i)[c][k]
<1>1. \A j \in 1..10 : Sends(s[j], c, k) <=> by(j) BY YccSends
<1>2. i \in Nat /\ k \in Int /\ LowEnd \in Int BY CoefsAssumption DEF Coefs
<1>3. \A j \in 1..10 : s[j].Al = YccAfter[j] BY DEF IsYcc, Scan
<1> HIDE DEF by
<1>4. ASSUME NEW q \in 1..10, q <= i, by(q), \A j \in 1..10 : j > q /\ j <= i => ~by(j)
      PROVE  bit = YccAfter[q]
  <2>1. q \in 1..i BY <1>2, <1>4
  <2>2. \A j \in 1..i : j > q => ~Sends(s[j], c, k) BY <1>1, <1>2, <1>4
  <2>3. Sends(s[q], c, k) BY <1>1, <1>4
  <2>4. bit = s[q].Al BY <1>2, <2>1, <2>2, <2>3, LastIs
  <2> QED BY <2>4, <1>3
<1>5. ASSUME \A j \in 1..10 : j <= i => ~by(j) PROVE bit = -1
  <2>1. \A j \in 1..i : ~Sends(s[j], c, k) BY <1>1, <1>2, <1>5
  <2> QED BY <2>1, LastNone
<1> HIDE DEF bit
<1>6. /\ YccAfter[1] = 1 /\ YccAfter[2] = 2 /\ YccAfter[3] = 1 /\ YccAfter[4] = 1 /\ YccAfter[5] = 2
      /\ YccAfter[6] = 1 /\ YccAfter[7] = 0 /\ YccAfter[8] = 0 /\ YccAfter[9] = 0 /\ YccAfter[10] = 0
  BY DEF YccAfter
<1>7. ASSUME NEW x \in 1..10, NEW y \in 1..10, x < y, \A j \in 1..10 : by(j) <=> j = x \/ j = y
      PROVE  bit = IF i < x THEN -1 ELSE IF i < y THEN YccAfter[x] ELSE YccAfter[y]
  <2>1. CASE i < x BY <2>1, <1>2, <1>5, <1>7
  <2>2. CASE x <= i /\ i < y
    <3>1. \A j \in 1..10 : j > x /\ j <= i => ~by(j) BY <2>2, <1>2, <1>7
    <3>2. bit = YccAfter[x] BY <3>1, <2>2, <1>4, <1>7
    <3> QED BY <3>2, <2>2, <1>2
  <2>3. CASE y <= i
    <3>1. \A j \in 1..10 : j > y /\ j <= i => ~by(j) BY <2>3, <1>2, <1>7
    <3>2. bit = YccAfter[y] BY <3>1, <2>3, <1>4, <1>7
    <3> QED BY <3>2, <2>3, <1>2, <1>7
  <2> QED BY <2>1, <2>2, <2>3, <1>2
<1>8. CASE k = 0
  <2>1. \A j \in 1..10 : by(j) <=> j = 1 \/ j = 7 BY <1>8 DEF by
  <2>2. bit = IF i < 1 THEN -1 ELSE IF i < 7 THEN YccAfter[1] ELSE YccAfter[7] BY <2>1, <1>7
  <2> QED BY <2>2, <1>6, <1>8 DEF YccLast, bit
<1>9. CASE k # 0 /\ c = 3
  <2>1. \A j \in 1..10 : by(j) <=> j = 3 \/ j = 8 BY <1>9 DEF by
  <2>2. bit = IF i < 3 THEN -1 ELSE IF i < 8 THEN YccAfter[3] ELSE YccAfter[8] BY <2>1, <1>7
  <2> QED BY <2>2, <1>6, <1>9 DEF YccLast, bit
<1>10. CASE k # 0 /\ c = 2
  <2>1. \A j \in 1..10 : by(j) <=> j = 4 \/ j = 9 BY <1>10 DEF by
  <2>2. bit = IF i < 4 THEN -1 ELSE IF i < 9 THEN YccAfter[4] ELSE YccAfter[9] BY <2>1, <1>7
  <2> QED BY <2>2, <1>6, <1>10 DEF YccLast, bit
<1>11. CASE k # 0 /\ c = 1
  <2> DEFINE x == IF k <= LowEnd THEN 2 ELSE 5
  <2>1. x \in 1..10 /\ x < 6 /\ YccAfter[x] = 2 BY <1>6
  <2>2. \A j \in 1..10 : by(j) <=> j = x \/ j = 6 \/ j = 10 BY <1>2, <1>11 DEF by
  <2> HIDE DEF x
  <2>3. CASE i < x
    <3>1. bit = -1
      <4>1. \A j \in 1..10 : j <= i => ~by(j) BY <2>1, <2>2, <2>3, <1>2
      <4> QED BY <4>1, <1>5
    <3> QED BY <3>1, <2>3, <1>11 DEF YccLast, bit, x
  <2>4. CASE x <= i /\ i < 6
    <3>1. \A j \in 1..10 : j > x /\ j <= i => ~by(j) BY <2>1, <2>2, <2>4, <1>2
    <3>2. bit = 2 BY <3>1, <2>1, <2>2, <2>4, <1>4
    <3>3. ~(i < x) BY <2>1, <2>4, <1>2
    <3> QED BY <3>2, <3>3, <2>4, <1>11 DEF YccLast, bit, x
  <2>5. CASE 6 <= i /\ i < 10
    <3>1. \A j \in 1..10 : j > 6 /\ j <= i => ~by(j) BY <2>1, <2>2, <2>5, <1>2
    <3>2. bit = 1 BY <3>1, <2>2, <2>5, <1>4, <1>6
    <3>3. ~(i < x) /\ ~(i < 6) BY <2>1, <2>5, <1>2
    <3> QED BY <3>2, <3>3, <2>5, <1>11 DEF YccLast, bit, x
  <2>6. CASE 10 <= i
    <3>1. \A j \in 1..10 : j > 10 /\ j <= i => ~by(j) OBVIOUS
    <3>2. bit = 0 BY <3>1, <2>2, <2>6, <1>4, <1>6
    <3>3. ~(i < x) /\ ~(i < 6) /\ ~(i < 10) BY <2>1, <2>6, <1>2
    <3> QED BY <3>2, <3>3, <1>11 DEF YccLast, bit, x
  <2> QED BY <2>1, <2>3, <2>4, <2>5, <2>6, <1>2
<1> QED BY <1>8, <1>9, <1>10, <1>11

LEMMA YccScanFits ==
  ASSUME NEW s, IsYcc(s), NEW i \in 1..10
  PROVE  ScanFits(3, s, i) /\ Progressive(s)
<1> DEFINE t == s[i]
           last == last_bitpos(3, s, i - 1)
<1>1. /\ t.comps = YccComps[i] /\ t.Ss = YccLow[i] /\ t.Se = YccHigh[i] /\ t.Ah = YccBefore[i]
      /\ t.Al = YccAfter[i]
  BY DEF IsYcc, Scan
<1>2. s[1].Se = 0 BY DEF IsYcc, Scan, YccHigh
<1>3. Progressive(s) BY <1>2, CoefsAssumption DEF Progressive
<1>4. \A c \in 1..3, k \in Coefs : last[c][k] = YccLast(i - 1, c, k)
  <2>1. i - 1 \in 0..10 OBVIOUS
  <2> QED BY <2>1, YccLastIs
<1>5. \A c \in 1..3, k \in Coefs : c \in InScan(t) /\ k \in Band(t) <=>
           \/ k = 0 /\ i \in {1, 7}
           \/ k # 0 /\ c = 1 /\ (i \in {6, 10} \/ (i = 2 /\ k <= LowEnd) \/ (i = 5 /\ k > LowEnd))
           \/ k # 0 /\ c = 2 /\ i \in {4, 9}
           \/ k # 0 /\ c = 3 /\ i \in {3, 8}
  BY YccSends DEF Sends
<1> HIDE DEF t, last
<1>6. LowEnd \in 1..LastCoef - 1 /\ Coefs = 0..LastCoef /\ LastCoef \in Nat /\ 0 \in Coefs
      /\ LastCoef = PhuffSize2 - 1
  BY CoefsAssumption DEF Coefs, LastCoef
<1>7. \/ t.comps = All(3) /\ i \in {1, 7}
      \/ \E x \in 1..3 : t.comps = <<x>> /\ i \notin {1, 7}
  BY <1>1 DEF YccComps
<1>8. ComponentsFit(t, 3) /\ InScan(t) \subseteq 1..3 /\ (i \notin {1, 7} => Len(t.comps) = 1)
  <2>1. CASE t.comps = All(3) /\ i \in {1, 7}
    BY <2>1 DEF ComponentsFit, InScan, All, MAX_COMPS_IN_SCAN
  <2>2. CASE \E x \in 1..3 : t.comps = <<x>> /\ i \notin {1, 7}
    BY <2>2 DEF ComponentsFit, InScan, MAX_COMPS_IN_SCAN
  <2> QED BY <2>1, <2>2, <1>7
<1>9. /\ t.Ss \in Coefs /\ t.Se \in t.Ss..LastCoef /\ t.Ah \in 0..MAX_AH_AL /\ t.Al \in 0..MAX_AH_AL
      /\ t.Ss = 0 => t.Se = 0
      /\ t.Ss # 0 => i \notin {1, 7}
  <2>1. t.Ah \in 0..2 /\ t.Al \in 0..2 BY <1>1 DEF YccBefore, YccAfter
  <2>2. CASE i \in {1, 7}
    <3>1. t.Ss = 0 /\ t.Se = 0 BY <2>2, <1>1 DEF YccLow, YccHigh
    <3> QED BY <3>1, <2>1, <1>6 DEF MAX_AH_AL
  <2>3. CASE i \in {2, 3, 4, 6, 8, 9, 10}
    <3>1. t.Ss = 1 /\ t.Se \in {LowEnd, LastCoef} BY <2>3, <1>1 DEF YccLow, YccHigh
    <3> QED BY <3>1, <2>1, <2>3, <1>6 DEF MAX_AH_AL
  <2>4. CASE i = 5
    <3>1. t.Ss = LowEnd + 1 /\ t.Se = LastCoef BY <2>4, <1>1 DEF YccLow, YccHigh
    <3> QED BY <3>1, <2>1, <2>4, <1>6 DEF MAX_AH_AL
  <2> QED BY <2>2, <2>3, <2>4
<1>10. /\ i \in {1, 2, 3, 4, 5} => t.Ah = 0
       /\ i = 6 => t.Ah = 2 /\ t.Al = 1
       /\ i \in {7, 8, 9, 10} => t.Ah = 1 /\ t.Al = 0
  BY <1>1 DEF YccBefore, YccAfter
<1>11. ASSUME NEW c \in InScan(t)
       PROVE  /\ t.Ss # 0 => last[c][0] >= 0
              /\ \A k \in Band(t) : Continues(t, last[c][k])
  <2>1. c \in 1..3 BY <1>8
  <2>2. t.Ss # 0 => last[c][0] >= 0
    <3>1. last[c][0] = YccLast(i - 1, c, 0) BY <2>1, <1>4, <1>6
    <3>2. i \notin {1, 7} => YccLast(i - 1, c, 0) >= 0 BY DEF YccLast
    <3> QED BY <3>1, <3>2, <1>9
  <2>3. ASSUME NEW k \in Band(t) PROVE Continues(t, last[c][k])
    <3>1. k \in Coefs
      <4>1. k \in t.Ss..t.Se BY DEF Band
      <4> QED BY <4>1, <1>6, <1>9
    <3>2. last[c][k] = YccLast(i - 1, c, k) BY <3>1, <2>1, <1>4
    <3>3. \/ k = 0 /\ i \in {1, 7}
          \/ k # 0 /\ c = 1 /\ (i \in {6, 10} \/ (i = 2 /\ k <= LowEnd) \/ (i = 5 /\ k > LowEnd))
          \/ k # 0 /\ c = 2 /\ i \in {4, 9}
          \/ k # 0 /\ c = 3 /\ i \in {3, 8}
      BY <3>1, <2>1, <1>5
    <3>4. /\ i \in {1, 2, 3, 4, 5} => YccLast(i - 1, c, k) = -1
          /\ i = 6 => YccLast(i - 1, c, k) = 2
          /\ i \in {7, 8, 9, 10} => YccLast(i - 1, c, k) = 1
      <4>1. k \in Int /\ LowEnd \in Int BY <3>1, <1>6
      <4> QED BY <3>3, <4>1 DEF YccLast
    <3>5. CASE i \in {1, 2, 3, 4, 5} BY <3>2, <3>4, <3>5, <1>10 DEF Continues
    <3>6. CASE i = 6 BY <3>2, <3>4, <3>6, <1>10 DEF Continues
    <3>7. CASE i \in {7, 8, 9, 10} BY <3>2, <3>4, <3>7, <1>10 DEF Continues
    <3> QED BY <3>5, <3>6, <3>7
  <2> QED BY <2>2, <2>3
<1>12. ProgressionFits(t, last) BY <1>6, <1>8, <1>9, <1>11 DEF ProgressionFits
<1> QED BY <1>3, <1>8, <1>12 DEF ScanFits, t, last

LEMMA YccComplete ==
  ASSUME NEW s, IsYcc(s)
  PROVE  Complete(3, s)
<1>1. s \in Seq(ScanType) /\ Len(s) = 10 BY DEF IsYcc
<1>2. s # <<>>
  <2> SUFFICES ASSUME s = <<>> PROVE FALSE OBVIOUS
  <2>1. Len(s) = 0 OBVIOUS
  <2> QED BY <2>1, <1>1
<1>3. \A i \in 1..Len(s) : ScanFits(3, s, i) BY <1>1, YccScanFits
<1>4. Progressive(s) BY YccScanFits
<1>5. ASSUME NEW c \in 1..3, NEW k \in Coefs PROVE last_bitpos(3, s, Len(s))[c][k] = 0
  <2>1. last_bitpos(3, s, 10)[c][k] = YccLast(10, c, k) BY YccLastIs
  <2>2. YccLast(10, c, k) = 0 BY DEF YccLast
  <2> QED BY <2>1, <2>2, <1>1
<1>6. 3 \in Nat \ {0} OBVIOUS
<1>7. Complete(3, s) BY <1>1, <1>2, <1>3, <1>4, <1>5, <1>6, CompleteIf
<1> QED BY <1>7

(***************************************************************************)
(* The scripts that may come up.                                           *)
(***************************************************************************)
LEMMA SimpleIs ==
  ASSUME NEW n \in Nat \ {0}, NEW ycc \in BOOLEAN
  PROVE  LET s == jpeg_simple_progression(n, ycc)
         IN s \in Seq(ScanType) /\ Complete(n, s) /\ Len(s) = script_space_size(n, ycc)
<1> DEFINE s == jpeg_simple_progression(n, ycc)
<1>1. CASE n = 3 /\ ycc
  <2>1. s = jpeg_simple_progression(3, TRUE) BY <1>1
  <2>2. IsYcc(s) BY <2>1, MadeOfTen
  <2>3. Complete(n, s) BY <2>2, <1>1, YccComplete
  <2> QED BY <2>2, <2>3, <1>1 DEF IsYcc, script_space_size
<1>2. CASE ~(n = 3 /\ ycc)
  <2>1. SixBlocks(n, s) BY <1>2, MadeOfBlocks
  <2>2. Complete(n, s) BY <2>1, BlocksComplete
  <2>3. s \in Seq(ScanType) /\ Len(s) = 2 * Width(n) + 4 * n BY <2>1 DEF SixBlocks
  <2>4. script_space_size(n, ycc) = 2 * Width(n) + 4 * n
    BY <1>2 DEF script_space_size, Width, MAX_COMPS_IN_SCAN
  <2> QED BY <2>2, <2>3, <2>4
<1> QED BY <1>1, <1>2

(* What was asked for is a script of scans, for some components. *)
ScriptTypeOK == num_components \in DOMAIN ScanChoices /\ scan_info \in Seq(ScanType)

LEMMA ComponentCount ==
  ASSUME ScriptTypeOK
  PROVE  num_components \in Nat \ {0}
BY ChoicesAssumption DEF ScriptTypeOK

LEMMA ScriptTypeStep ==
  ASSUME ScriptTypeOK, [ScriptNext]_scriptVars
  PROVE  ScriptTypeOK'
<1>1. CASE AddScan
  <2>1. PICK t \in ScanChoices[num_components] : scan_info' = Append(scan_info, t) BY <1>1 DEF AddScan
  <2>2. t \in ScanType BY <2>1, ChoicesAssumption DEF ScriptTypeOK, ScanType
  <2> QED BY <1>1, <2>1, <2>2 DEF AddScan, ScriptTypeOK
<1>2. CASE SimpleProgression
  <2>1. PICK ycc \in BOOLEAN : scan_info' = jpeg_simple_progression(num_components, ycc)
    BY <1>2 DEF SimpleProgression
  <2>2. scan_info' \in Seq(ScanType) BY <2>1, ComponentCount, SimpleIs
  <2> QED BY <1>2, <2>2 DEF SimpleProgression, ScriptTypeOK
<1>3. CASE UNCHANGED scriptVars BY <1>3 DEF scriptVars, ScriptTypeOK
<1> QED BY <1>1, <1>2, <1>3 DEF ScriptNext

LEMMA ScriptTypeGives ==
  ASSUME ScriptTypeOK
  PROVE  ScriptsAgree
<1>1. AcceptedIsClean
  <2> SUFFICES ASSUME validate_script(num_components, scan_info), Progressive(scan_info),
                      NEW i \in DOMAIN scan_info
               PROVE  /\ ~BadScan(scan_info[i])
                      /\ ~BogusScan(last_bitpos(num_components, scan_info, i - 1), scan_info[i])
    BY DEF AcceptedIsClean
  <2>1. ScanFits(num_components, scan_info, i) BY DEF validate_script
  <2>2. num_components \in Nat \ {0} /\ scan_info \in Seq(ScanType) BY ComponentCount DEF ScriptTypeOK
  <2> QED BY <2>1, <2>2, AcceptedScanClean
<1>2. SimpleIsComplete
  <2> SUFFICES ASSUME NEW ycc \in BOOLEAN, scan_info = jpeg_simple_progression(num_components, ycc)
               PROVE  /\ Complete(num_components, scan_info)
                      /\ Len(scan_info) = script_space_size(num_components, ycc)
    BY DEF SimpleIsComplete, Complete
  <2> QED BY ComponentCount, SimpleIs
<1> QED BY <1>1, <1>2 DEF ScriptsAgree

(* However a script is put together: if the compressor accepts it, the     *)
(* decoder does not mind any of its scans; and the library's own scripts   *)
(* are accepted, as long as allocated, and complete (jcmaster.c:164-296,   *)
(* jcparam.c:571-648, jdphuff.c:90-146).                                   *)
THEOREM ScriptsAgreeHolds == ScriptSpec => []ScriptsAgree
<1>1. ScriptInit => ScriptTypeOK BY DEF ScriptInit, ScriptTypeOK
<1>2. ScriptTypeOK /\ [ScriptNext]_scriptVars => ScriptTypeOK' BY ScriptTypeStep
<1>3. ScriptTypeOK => ScriptsAgree BY ScriptTypeGives
<1> QED BY <1>1, <1>2, <1>3, PTL DEF ScriptSpec
=============================================================================

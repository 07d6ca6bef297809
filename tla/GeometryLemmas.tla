--------------------------- MODULE GeometryLemmas ---------------------------
(***************************************************************************)
(* What the operators of Geometry return, for arguments of every size.     *)
(***************************************************************************)
EXTENDS Geometry, TLAPS

(* How far checkBounds moves the start of a copy, to make both offsets     *)
(* non-negative.                                                           *)
Shift(t, s) == IF t < 0 /\ t <= s THEN -t ELSE IF s < 0 THEN -s ELSE 0

(* The two corrections of negative offsets shift both offsets and the      *)
(* length together.                                                        *)
LEMMA ClampFields ==
  ASSUME NEW len \in Int, NEW t \in Int, NEW s \in Int,
         NEW k, k = Shift(t, s)
  PROVE  ClampSource(ClampTarget(Clipped(len, t, s))) = Clipped(len - k, t + k, s + k)
<1> USE DEF Shift
<1>1. CASE t < 0
  <2>1. ClampTarget(Clipped(len, t, s)) = Clipped(len + t, 0, s - t)
    BY <1>1 DEF ClampTarget, Clipped
  <2>2. CASE s - t < 0
    <3>1. ClampSource(Clipped(len + t, 0, s - t))
            = Clipped((len + t) + (s - t), 0 - (s - t), 0)
      BY <2>2 DEF ClampSource, Clipped
    <3>2. (len + t) + (s - t) = len - k /\ 0 - (s - t) = t + k /\ 0 = s + k
      BY <1>1, <2>2
    <3> QED BY <2>1, <3>1, <3>2
  <2>3. CASE ~(s - t < 0)
    <3>1. ClampSource(Clipped(len + t, 0, s - t)) = Clipped(len + t, 0, s - t)
      BY <2>3 DEF ClampSource, Clipped
    <3>2. len + t = len - k /\ 0 = t + k /\ s - t = s + k
      BY <1>1, <2>3
    <3> QED BY <2>1, <3>1, <3>2
  <2> QED BY <2>2, <2>3
<1>2. CASE ~(t < 0)
  <2>1. ClampTarget(Clipped(len, t, s)) = Clipped(len, t, s)
    BY <1>2 DEF ClampTarget, Clipped
  <2>2. CASE s < 0
    <3>1. ClampSource(Clipped(len, t, s)) = Clipped(len + s, t - s, 0)
      BY <2>2 DEF ClampSource, Clipped
    <3>2. len + s = len - k /\ t - s = t + k /\ 0 = s + k
      BY <1>2, <2>2
    <3> QED BY <2>1, <3>1, <3>2
  <2>3. CASE ~(s < 0)
    <3>1. ClampSource(Clipped(len, t, s)) = Clipped(len, t, s)
      BY <2>3 DEF ClampSource, Clipped
    <3>2. len = len - k /\ t = t + k /\ s = s + k
      BY <1>2, <2>3
    <3> QED BY <2>1, <3>1, <3>2
  <2> QED BY <2>2, <2>3
<1> QED BY <1>1, <1>2

(* checkBounds, field by field, in terms of the common shift k.            *)
LEMMA CheckBoundsFields ==
  ASSUME NEW len \in Int, NEW t \in Int, NEW s \in Int,
         NEW T \in Int, NEW S \in Int,
         NEW r, r = CheckBounds(len, t, s, T, S),
         NEW k, k = Shift(t, s)
  PROVE  \/ /\ t + k >= T \/ s + k >= S
            /\ r.len = 0 /\ r.target = 0 /\ r.source = 0
         \/ /\ t + k < T /\ s + k < S
            /\ r.target = t + k /\ r.source = s + k
            /\ r.len = Lesser(len - k, Lesser(T - (t + k), S - (s + k)))
<1> DEFINE c == Clipped(len - k, t + k, s + k)
<1>0. k \in Nat
  BY DEF Shift
<1>1. ClampSource(ClampTarget(Clipped(len, t, s))) = c
  BY ClampFields
<1>2. c.len = len - k /\ c.target = t + k /\ c.source = s + k
  BY DEF Clipped
<1>3. r = IF T - c.target <= 0 \/ S - c.source <= 0 THEN Clipped(0, 0, 0)
          ELSE IF c.len <= T - c.target /\ c.len <= S - c.source THEN c
          ELSE IF T - c.target < c.len /\ T - c.target < S - c.source
               THEN [c EXCEPT !.len = T - c.target]
          ELSE [c EXCEPT !.len = S - c.source]
  BY <1>1 DEF CheckBounds
<1>4. \A n : [c EXCEPT !.len = n] = Clipped(n, t + k, s + k)
  BY DEF Clipped
<1>5. CASE T - (t + k) <= 0 \/ S - (s + k) <= 0
  <2>1. r = Clipped(0, 0, 0)
    BY <1>2, <1>3, <1>5
  <2>2. r.len = 0 /\ r.target = 0 /\ r.source = 0
    BY <2>1 DEF Clipped
  <2> QED BY <1>0, <1>5, <2>2
<1>6. CASE ~(T - (t + k) <= 0 \/ S - (s + k) <= 0)
  <2> DEFINE n == Lesser(len - k, Lesser(T - (t + k), S - (s + k)))
  <2>1. r = Clipped(n, t + k, s + k)
    <3>1. r = IF len - k <= T - (t + k) /\ len - k <= S - (s + k)
              THEN Clipped(len - k, t + k, s + k)
              ELSE IF T - (t + k) < len - k /\ T - (t + k) < S - (s + k)
              THEN Clipped(T - (t + k), t + k, s + k)
              ELSE Clipped(S - (s + k), t + k, s + k)
      BY <1>2, <1>3, <1>4, <1>6
    <3> HIDE DEF c
    <3> QED BY <1>0, <3>1 DEF Lesser
  <2>2. r.len = n /\ r.target = t + k /\ r.source = s + k
    BY <2>1 DEF Clipped
  <2>3. t + k < T /\ s + k < S
    BY <1>0, <1>6
  <2> QED BY <2>2, <2>3
<1> QED BY <1>5, <1>6

(* checkBounds, relationally: cell a of the target receives cell b of the  *)
(* source after clipping exactly if the unclipped copy pairs them and both *)
(* exist (blitbuffer.lua:671-699).                                         *)
Copies(r, a, b) ==
  0 <= a - r.target /\ a - r.target < r.len /\ b - r.source = a - r.target

Wanted(len, t, s, T, S, a, b) ==
  /\ 0 <= a - t /\ a - t < len /\ b - s = a - t
  /\ 0 <= a /\ a < T /\ 0 <= b /\ b < S

LEMMA CheckBoundsPairs ==
  ASSUME NEW len \in Int, NEW t \in Int, NEW s \in Int,
         NEW T \in Int, NEW S \in Int, NEW a \in Int, NEW b \in Int
  PROVE  Copies(CheckBounds(len, t, s, T, S), a, b) <=> Wanted(len, t, s, T, S, a, b)
<1> DEFINE r == CheckBounds(len, t, s, T, S)
           k == Shift(t, s)
<1> HIDE DEF r
<1> SUFFICES Copies(r, a, b) <=> Wanted(len, t, s, T, S, a, b)
  BY DEF r
<1>1. k \in Nat /\ t + k >= 0 /\ s + k >= 0 /\ (k = 0 \/ t + k = 0 \/ s + k = 0)
  BY DEF Shift
<1>2. \/ /\ t + k >= T \/ s + k >= S
         /\ r.len = 0 /\ r.target = 0 /\ r.source = 0
      \/ /\ t + k < T /\ s + k < S
         /\ r.target = t + k /\ r.source = s + k
         /\ r.len = Lesser(len - k, Lesser(T - (t + k), S - (s + k)))
  BY CheckBoundsFields DEF r
<1> HIDE DEF k
<1> QED BY <1>1, <1>2 DEF Lesser, Copies, Wanted

(* The three results of checkBounds are integers.                          *)
LEMMA CheckBoundsTypes ==
  ASSUME NEW len \in Int, NEW t \in Int, NEW s \in Int,
         NEW T \in Int, NEW S \in Int
  PROVE  CheckBounds(len, t, s, T, S) \in [len : Int, target : Int, source : Int]
<1> DEFINE r == CheckBounds(len, t, s, T, S)
           k == Shift(t, s)
           c == Clipped(len - k, t + k, s + k)
<1>1. k \in Int
  BY DEF Shift
<1>2. c \in [len : Int, target : Int, source : Int]
  BY <1>1 DEF Clipped
<1>3. ClampSource(ClampTarget(Clipped(len, t, s))) = c
  BY ClampFields
<1>4. Clipped(0, 0, 0) \in [len : Int, target : Int, source : Int]
  BY DEF Clipped
<1> HIDE DEF c
<1>5. r \in {Clipped(0, 0, 0), c, [c EXCEPT !.len = T - c.target], [c EXCEPT !.len = S - c.source]}
  BY <1>3 DEF CheckBounds
<1>6. T - c.target \in Int /\ S - c.source \in Int
  BY <1>2
<1> QED BY <1>2, <1>4, <1>5, <1>6

(* Its offsets lie in their buffers if these are not empty                 *)
(* (blitbuffer.lua:668-669).                                               *)
LEMMA CheckBoundsOffsets ==
  ASSUME NEW len \in Int, NEW t \in Int, NEW s \in Int,
         NEW T \in Int, NEW S \in Int, T > 0, S > 0
  PROVE  /\ CheckBounds(len, t, s, T, S).target \in 0..(T - 1)
         /\ CheckBounds(len, t, s, T, S).source \in 0..(S - 1)
<1> DEFINE r == CheckBounds(len, t, s, T, S)
           k == Shift(t, s)
<1> HIDE DEF r
<1> SUFFICES r.target \in 0..(T - 1) /\ r.source \in 0..(S - 1)
  BY DEF r
<1>1. k \in Nat /\ t + k >= 0 /\ s + k >= 0
  BY DEF Shift
<1>2. \/ /\ t + k >= T \/ s + k >= S
         /\ r.len = 0 /\ r.target = 0 /\ r.source = 0
      \/ /\ t + k < T /\ s + k < S
         /\ r.target = t + k /\ r.source = s + k
         /\ r.len = Lesser(len - k, Lesser(T - (t + k), S - (s + k)))
  BY CheckBoundsFields DEF r
<1> HIDE DEF k
<1> QED BY <1>1, <1>2

(* A copy between equal offsets stays one.                                 *)
Unshifted(r) == r.target = r.source

LEMMA EqualOffsets ==
  ASSUME NEW len \in Int, NEW t \in Int, NEW T \in Int, NEW S \in Int
  PROVE  Unshifted(CheckBounds(len, t, t, T, S))
<1> DEFINE r == CheckBounds(len, t, t, T, S)
           k == Shift(t, t)
<1>1. k \in Int
  BY DEF Shift
<1>2. ClampSource(ClampTarget(Clipped(len, t, t))) = Clipped(len - k, t + k, t + k)
  BY ClampFields
<1> DEFINE c == Clipped(len - k, t + k, t + k)
<1>3. r \in {Clipped(0, 0, 0), c, [c EXCEPT !.len = T - c.target], [c EXCEPT !.len = S - c.source]}
  BY <1>2 DEF CheckBounds
<1> QED BY <1>3 DEF Clipped, Unshifted

-----------------------------------------------------------------------------
(* Rectangles. *)

LEMMA PixelOf ==
  ASSUME NEW x \in Int, NEW y \in Int, NEW w \in Int, NEW h \in Int,
         NEW i \in Int, NEW j \in Int
  PROVE  <<i, j>> \in Pixels(Rect(x, y, w, h))
           <=> x <= i /\ i < x + w /\ y <= j /\ j < y + h
BY DEF Pixels, Rect

(* getPhysicalRect of any rectangle of integers is a rectangle of integers *)
(* and contains the physical place of each of its pixels                   *)
(* (blitbuffer.lua:552-569).                                               *)
LEMMA PhysicalRectContains ==
  ASSUME NEW bb \in BufferOf(Int, Int),
         NEW x \in Int, NEW y \in Int, NEW w \in Int, NEW h \in Int,
         NEW i \in Int, NEW j \in Int,
         x <= i, i < x + w, y <= j, j < y + h
  PROVE  PhysicalCoordinates(bb, i, j) \in Pixels(PhysicalRect(bb, Rect(x, y, w, h)))
<1>1. bb.w \in Int /\ bb.h \in Int /\ bb.rot \in {0, 1, 2, 3}
  BY DEF BufferOf, Rotation
<1> DEFINE p == PhysicalRect(bb, Rect(x, y, w, h))
<1>2. CASE bb.rot = 0
  <2>1. PhysicalCoordinates(bb, i, j) = <<i, j>>
    BY <1>2 DEF PhysicalCoordinates
  <2>2. p = Rect(x, y, w, h)
    BY <1>2 DEF PhysicalRect, PhysicalCoordinates, Rect, Turned, Lesser
  <2>3. <<i, j>> \in Pixels(Rect(x, y, w, h))
    BY PixelOf
  <2> QED BY <2>1, <2>2, <2>3
<1>3. CASE bb.rot = 1
  <2>1. PhysicalCoordinates(bb, i, j) = <<bb.w - j - 1, i>>
    BY <1>3 DEF PhysicalCoordinates
  <2>2. p = Rect(bb.w - (y + h - 1) - 1, x, h, w)
    BY <1>1, <1>3 DEF PhysicalRect, PhysicalCoordinates, Rect, Turned, Lesser
  <2>3. <<bb.w - j - 1, i>> \in Pixels(Rect(bb.w - (y + h - 1) - 1, x, h, w))
    BY <1>1, PixelOf
  <2> QED BY <2>1, <2>2, <2>3
<1>4. CASE bb.rot = 2
  <2>1. PhysicalCoordinates(bb, i, j) = <<bb.w - i - 1, bb.h - j - 1>>
    BY <1>4 DEF PhysicalCoordinates
  <2>2. p = Rect(bb.w - (x + w - 1) - 1, bb.h - (y + h - 1) - 1, w, h)
    BY <1>1, <1>4 DEF PhysicalRect, PhysicalCoordinates, Rect, Turned, Lesser
  <2>3. <<bb.w - i - 1, bb.h - j - 1>> \in Pixels(Rect(bb.w - (x + w - 1) - 1, bb.h - (y + h - 1) - 1, w, h))
    BY <1>1, PixelOf
  <2> QED BY <2>1, <2>2, <2>3
<1>5. CASE bb.rot = 3
  <2>1. PhysicalCoordinates(bb, i, j) = <<j, bb.h - i - 1>>
    BY <1>5 DEF PhysicalCoordinates
  <2>2. p = Rect(y, bb.h - (x + w - 1) - 1, h, w)
    BY <1>1, <1>5 DEF PhysicalRect, PhysicalCoordinates, Rect, Turned, Lesser
  <2>3. <<j, bb.h - i - 1>> \in Pixels(Rect(y, bb.h - (x + w - 1) - 1, h, w))
    BY <1>1, PixelOf
  <2> QED BY <2>1, <2>2, <2>3
<1> QED BY <1>1, <1>2, <1>3, <1>4, <1>5

-----------------------------------------------------------------------------
(* Blit and refresh. *)

LEMMA SideInt == NoLimit \in Int /\ \A n \in Side : n \in Int /\ 0 < n /\ n <= NoLimit
BY DEF Side, NoLimit

DamageRect == [x : Nat, y : Nat, w : Nat, h : Nat]

LEMMA SizeTypes ==
  ASSUME NEW bb \in BufferOf(Side, Side)
  PROVE  Width(bb) \in Side /\ Height(bb) \in Side
BY DEF BufferOf, Width, Height

(* A cell that checkBounds(len, t, t, T, S) lets a blit copy is a cell     *)
(* that checkBounds(len, t, 0, T, 0xFFFF) lets the refresh include.        *)
LEMMA BlitWithinRefresh ==
  ASSUME NEW len \in Int, NEW t \in Int, NEW T \in Int, NEW S \in Int,
         T <= NoLimit, NEW i \in Int,
         CheckBounds(len, t, t, T, S).target <= i,
         i < CheckBounds(len, t, t, T, S).target + CheckBounds(len, t, t, T, S).len,
         0 <= t
  PROVE  /\ CheckBounds(len, t, 0, T, NoLimit).target \in Int
         /\ CheckBounds(len, t, 0, T, NoLimit).len \in Int
         /\ CheckBounds(len, t, 0, T, NoLimit).target <= i
         /\ i < CheckBounds(len, t, 0, T, NoLimit).target
                  + CheckBounds(len, t, 0, T, NoLimit).len
<1> DEFINE b == CheckBounds(len, t, t, T, S)
           r == CheckBounds(len, t, 0, T, NoLimit)
<1>1. 0 \in Int /\ NoLimit \in Int
  BY SideInt
<1>2. b \in [len : Int, target : Int, source : Int]
  BY CheckBoundsTypes, Zenon
<1>3. Unshifted(b)
  BY EqualOffsets, Zenon
<1>4. r \in [len : Int, target : Int, source : Int]
  BY <1>1, CheckBoundsTypes, Zenon
<1>5. Copies(b, i, i) <=> Wanted(len, t, t, T, S, i, i)
  BY CheckBoundsPairs, Zenon
<1>6. i - t \in Int
  OBVIOUS
<1>7. Copies(r, i, i - t) <=> Wanted(len, t, 0, T, NoLimit, i, i - t)
  BY <1>1, <1>6, CheckBoundsPairs, Zenon
<1>8. b.target <= i /\ i < b.target + b.len
  OBVIOUS
<1>9. Copies(b, i, i)
  <2> HIDE DEF b
  <2> QED BY <1>2, <1>3, <1>8 DEF Copies, Unshifted
<1>10. Wanted(len, t, 0, T, NoLimit, i, i - t)
  BY <1>1, <1>5, <1>9 DEF Wanted
<1>11. r.target \in Int /\ r.len \in Int /\ r.target <= i /\ i < r.target + r.len
  <2> HIDE DEF r
  <2> QED BY <1>4, <1>7, <1>10 DEF Copies
<1> QED BY <1>11

(* Every pixel blitFrom writes lies in the region framebuffer:refresh      *)
(* sends to the driver (blitbuffer.lua:722-730, framebuffer_linux.lua:     *)
(* 262-265).                                                               *)
LEMMA RefreshCovers ==
  ASSUME NEW bb \in BufferOf(Side, Side), NEW src \in BufferOf(Side, Side),
         NEW r \in DamageRect,
         NEW i \in Int, NEW j \in Int, <<i, j>> \in Pixels(BlitRect(bb, src, r))
  PROVE  PhysicalCoordinates(bb, i, j) \in Pixels(RefreshRect(bb, r))
<1> DEFINE W == Width(bb)     H == Height(bb)
           SW == Width(src)   SH == Height(src)
           x == r.x  y == r.y  w == r.w  h == r.h
           ba == CheckBounds(w, x, x, W, SW)
           bd == CheckBounds(h, y, y, H, SH)
           ra == CheckBounds(w, x, 0, W, NoLimit)
           rd == CheckBounds(h, y, 0, H, NoLimit)
<1>1. NoLimit \in Int /\ 0 \in Int
  BY SideInt
<1>2. W \in Int /\ W <= NoLimit /\ H \in Int /\ H <= NoLimit /\ SW \in Int /\ SH \in Int
  BY SideInt, SizeTypes, Zenon
<1>3. x \in Int /\ 0 <= x /\ y \in Int /\ 0 <= y /\ w \in Int /\ h \in Int
  BY DEF DamageRect
<1>4. bb \in BufferOf(Int, Int)
  BY SideInt DEF BufferOf
<1>5. <<i, j>> \in Pixels(Rect(ba.target, bd.target, ba.len, bd.len))
  BY DEF BlitRect
<1>6. RefreshRect(bb, r) = PhysicalRect(bb, Rect(ra.target, rd.target, ra.len, rd.len))
  BY DEF RefreshRect
<1> HIDE DEF W, H, SW, SH, x, y, w, h
<1>7. /\ ba \in [len : Int, target : Int, source : Int]
      /\ bd \in [len : Int, target : Int, source : Int]
  BY <1>2, <1>3, CheckBoundsTypes, Zenon
<1>8. /\ ba.target <= i /\ i < ba.target + ba.len
      /\ bd.target <= j /\ j < bd.target + bd.len
  <2> HIDE DEF ba, bd
  <2> QED BY <1>5, <1>7, PixelOf
<1>9. ra.target \in Int /\ ra.len \in Int /\ ra.target <= i /\ i < ra.target + ra.len
  BY <1>2, <1>3, <1>8, BlitWithinRefresh, Zenon
<1>10. rd.target \in Int /\ rd.len \in Int /\ rd.target <= j /\ j < rd.target + rd.len
  BY <1>2, <1>3, <1>8, BlitWithinRefresh, Zenon
<1> HIDE DEF ra, rd
<1> QED BY <1>4, <1>6, <1>9, <1>10, PhysicalRectContains

-----------------------------------------------------------------------------
(* What blitFrom copies: the visible part of the damage, and no more.      *)

Reaches(c, i) == c.target <= i /\ i < c.target + c.len

LEMMA BlitReaches ==
  ASSUME NEW len \in Int, NEW t \in Int, NEW T \in Int, NEW S \in Int, NEW i \in Int
  PROVE  Reaches(CheckBounds(len, t, t, T, S), i) <=> Wanted(len, t, t, T, S, i, i)
<1> DEFINE b == CheckBounds(len, t, t, T, S)
<1>1. b \in [len : Int, target : Int, source : Int]
  BY CheckBoundsTypes, Zenon
<1>2. Unshifted(b)
  BY EqualOffsets, Zenon
<1>3. Copies(b, i, i) <=> Wanted(len, t, t, T, S, i, i)
  BY CheckBoundsPairs, Zenon
<1>4. Reaches(b, i) <=> Copies(b, i, i)
  <2> HIDE DEF b
  <2> QED BY <1>1, <1>2 DEF Copies, Unshifted, Reaches
<1> QED BY <1>3, <1>4

(* A pixel is copied exactly if it is in the rectangle and in both buffers *)
(* (blitbuffer.lua:722-730).                                               *)
InBoth(bb, src, r, i, j) ==
  /\ r.x <= i /\ i < r.x + r.w /\ r.y <= j /\ j < r.y + r.h
  /\ 0 <= i /\ i < Width(bb) /\ i < Width(src)
  /\ 0 <= j /\ j < Height(bb) /\ j < Height(src)

LEMMA BlitPixels ==
  ASSUME NEW bb \in BufferOf(Side, Side), NEW src \in BufferOf(Side, Side),
         NEW r \in DamageRect, NEW i \in Int, NEW j \in Int
  PROVE  <<i, j>> \in Pixels(BlitRect(bb, src, r)) <=> InBoth(bb, src, r, i, j)
<1> DEFINE W == Width(bb)     H == Height(bb)
           SW == Width(src)   SH == Height(src)
           x == r.x  y == r.y  w == r.w  h == r.h
           ba == CheckBounds(w, x, x, W, SW)
           bd == CheckBounds(h, y, y, H, SH)
<1>1. W \in Int /\ H \in Int /\ SW \in Int /\ SH \in Int
  BY SideInt, SizeTypes, Zenon
<1>2. x \in Int /\ y \in Int /\ w \in Int /\ h \in Int
  BY DEF DamageRect
<1>3. BlitRect(bb, src, r) = Rect(ba.target, bd.target, ba.len, bd.len)
  BY DEF BlitRect
<1>4. InBoth(bb, src, r, i, j) <=> Wanted(w, x, x, W, SW, i, i) /\ Wanted(h, y, y, H, SH, j, j)
  <2>1. InBoth(bb, src, r, i, j)
          <=> /\ x <= i /\ i < x + w /\ y <= j /\ j < y + h
              /\ 0 <= i /\ i < W /\ i < SW /\ 0 <= j /\ j < H /\ j < SH
    BY DEF InBoth
  <2> HIDE DEF W, H, SW, SH, x, y, w, h
  <2> QED BY <1>1, <1>2, <2>1 DEF Wanted
<1> HIDE DEF W, H, SW, SH, x, y, w, h
<1>5. /\ ba \in [len : Int, target : Int, source : Int]
      /\ bd \in [len : Int, target : Int, source : Int]
  BY <1>1, <1>2, CheckBoundsTypes, Zenon
<1>6. Reaches(ba, i) <=> Wanted(w, x, x, W, SW, i, i)
  BY <1>1, <1>2, BlitReaches, Zenon
<1>7. Reaches(bd, j) <=> Wanted(h, y, y, H, SH, j, j)
  BY <1>1, <1>2, BlitReaches, Zenon
<1> HIDE DEF ba, bd
<1>8. <<i, j>> \in Pixels(Rect(ba.target, bd.target, ba.len, bd.len))
        <=> Reaches(ba, i) /\ Reaches(bd, j)
  BY <1>5, PixelOf DEF Reaches
<1> QED BY <1>3, <1>4, <1>6, <1>7, <1>8

-----------------------------------------------------------------------------
(* The region framebuffer:refresh sends to the driver lies on the panel.   *)

OnPanel(bb, p) == p.x >= 0 /\ p.x + p.w <= bb.w /\ p.y >= 0 /\ p.y + p.h <= bb.h

LEMMA PhysicalRectOnPanel ==
  ASSUME NEW bb \in BufferOf(Int, Int),
         NEW x \in Int, NEW y \in Int, NEW w \in Int, NEW h \in Int,
         0 <= x, 0 < w, x + w <= Width(bb), 0 <= y, 0 < h, y + h <= Height(bb)
  PROVE  OnPanel(bb, PhysicalRect(bb, Rect(x, y, w, h)))
<1>1. bb.w \in Int /\ bb.h \in Int /\ bb.rot \in {0, 1, 2, 3}
  BY DEF BufferOf, Rotation
<1> DEFINE p == PhysicalRect(bb, Rect(x, y, w, h))
<1>2. CASE bb.rot = 0
  <2>1. p = Rect(x, y, w, h)
    BY <1>1, <1>2 DEF PhysicalRect, PhysicalCoordinates, Rect, Turned, Lesser
  <2>2. Width(bb) = bb.w /\ Height(bb) = bb.h
    BY <1>2 DEF Width, Height, Turned
  <2> QED BY <1>1, <2>1, <2>2 DEF OnPanel, Rect
<1>3. CASE bb.rot = 1
  <2>1. p = Rect(bb.w - (y + h - 1) - 1, x, h, w)
    BY <1>1, <1>3 DEF PhysicalRect, PhysicalCoordinates, Rect, Turned, Lesser
  <2>2. Width(bb) = bb.h /\ Height(bb) = bb.w
    BY <1>3 DEF Width, Height, Turned
  <2> QED BY <1>1, <2>1, <2>2 DEF OnPanel, Rect
<1>4. CASE bb.rot = 2
  <2>1. p = Rect(bb.w - (x + w - 1) - 1, bb.h - (y + h - 1) - 1, w, h)
    BY <1>1, <1>4 DEF PhysicalRect, PhysicalCoordinates, Rect, Turned, Lesser
  <2>2. Width(bb) = bb.w /\ Height(bb) = bb.h
    BY <1>4 DEF Width, Height, Turned
  <2> QED BY <1>1, <2>1, <2>2 DEF OnPanel, Rect
<1>5. CASE bb.rot = 3
  <2>1. p = Rect(y, bb.h - (x + w - 1) - 1, h, w)
    BY <1>1, <1>5 DEF PhysicalRect, PhysicalCoordinates, Rect, Turned, Lesser
  <2>2. Width(bb) = bb.h /\ Height(bb) = bb.w
    BY <1>5 DEF Width, Height, Turned
  <2> QED BY <1>1, <2>1, <2>2 DEF OnPanel, Rect
<1> QED BY <1>1, <1>2, <1>3, <1>4, <1>5

(* checkBounds(len, t, 0, T, 0xFFFF) of a start inside the screen.         *)
Fits(c, T) == c.target >= 0 /\ c.len > 0 /\ c.target + c.len <= T

LEMMA RefreshFits ==
  ASSUME NEW len \in Int, NEW t \in Int, NEW T \in Int,
         T <= NoLimit, 0 <= t, t < T, 0 < len
  PROVE  Fits(CheckBounds(len, t, 0, T, NoLimit), T)
<1>1. NoLimit \in Int /\ 0 \in Int
  BY SideInt
<1> DEFINE r == CheckBounds(len, t, 0, T, NoLimit)
           k == Shift(t, 0)
<1>2. k = 0
  BY DEF Shift
<1> HIDE DEF r
<1>3. \/ /\ t + k >= T \/ 0 + k >= NoLimit
         /\ r.len = 0 /\ r.target = 0 /\ r.source = 0
      \/ /\ t + k < T /\ 0 + k < NoLimit
         /\ r.target = t + k /\ r.source = 0 + k
         /\ r.len = Lesser(len - k, Lesser(T - (t + k), NoLimit - (0 + k)))
  BY <1>1, CheckBoundsFields DEF r
<1> HIDE DEF k
<1>4. Fits(r, T)
  BY <1>1, <1>2, <1>3 DEF Fits, Lesser
<1> QED BY <1>4 DEF r

LEMMA RefreshOnPanel ==
  ASSUME NEW bb \in BufferOf(Side, Side), NEW r \in DamageRect,
         0 < r.w, 0 < r.h, r.x < Width(bb), r.y < Height(bb)
  PROVE  OnPanel(bb, RefreshRect(bb, r))
<1> DEFINE W == Width(bb)  H == Height(bb)
           x == r.x  y == r.y  w == r.w  h == r.h
           ra == CheckBounds(w, x, 0, W, NoLimit)
           rd == CheckBounds(h, y, 0, H, NoLimit)
<1>1. NoLimit \in Int /\ 0 \in Int
  BY SideInt
<1>2. W \in Int /\ W <= NoLimit /\ H \in Int /\ H <= NoLimit
  BY SideInt, SizeTypes, Zenon
<1>3. x \in Int /\ 0 <= x /\ y \in Int /\ 0 <= y /\ w \in Int /\ h \in Int
  BY DEF DamageRect
<1>4. bb \in BufferOf(Int, Int)
  BY SideInt DEF BufferOf
<1>5. RefreshRect(bb, r) = PhysicalRect(bb, Rect(ra.target, rd.target, ra.len, rd.len))
  BY DEF RefreshRect
<1>6. x < W /\ y < H /\ 0 < w /\ 0 < h
  OBVIOUS
<1>7. W = Width(bb) /\ H = Height(bb)
  OBVIOUS
<1> HIDE DEF W, H, x, y, w, h
<1>8. Fits(ra, W) /\ Fits(rd, H)
  BY <1>2, <1>3, <1>6, RefreshFits, Zenon
<1>9. /\ ra \in [len : Int, target : Int, source : Int]
      /\ rd \in [len : Int, target : Int, source : Int]
  BY <1>1, <1>2, <1>3, CheckBoundsTypes, Zenon
<1> HIDE DEF ra, rd
<1>10. /\ ra.target \in Int /\ 0 <= ra.target /\ ra.len \in Int /\ 0 < ra.len
       /\ ra.target + ra.len <= W
       /\ rd.target \in Int /\ 0 <= rd.target /\ rd.len \in Int /\ 0 < rd.len
       /\ rd.target + rd.len <= H
  BY <1>8, <1>9 DEF Fits
<1> QED BY <1>4, <1>5, <1>7, <1>10, PhysicalRectOnPanel

-----------------------------------------------------------------------------
(* Every pixel of the physical rectangle is the place of a logical one.    *)
Places(bb, r) == {PhysicalCoordinates(bb, p[1], p[2]) : p \in Pixels(r)}

LEMMA PhysicalRectOnto ==
  ASSUME NEW bb \in BufferOf(Int, Int),
         NEW x \in Int, NEW y \in Int, NEW w \in Int, NEW h \in Int,
         NEW a \in Int, NEW b \in Int,
         <<a, b>> \in Pixels(PhysicalRect(bb, Rect(x, y, w, h))), 0 < w, 0 < h
  PROVE  <<a, b>> \in Places(bb, Rect(x, y, w, h))
<1> SUFFICES \E i, j \in Int : /\ <<i, j>> \in Pixels(Rect(x, y, w, h))
                              /\ <<a, b>> = PhysicalCoordinates(bb, i, j)
  BY DEF Places
<1>1. bb.w \in Int /\ bb.h \in Int /\ bb.rot \in {0, 1, 2, 3}
  BY DEF BufferOf, Rotation
<1> DEFINE p == PhysicalRect(bb, Rect(x, y, w, h))
<1>2. CASE bb.rot = 0
  <2>1. p = Rect(x, y, w, h)
    BY <1>1, <1>2 DEF PhysicalRect, PhysicalCoordinates, Rect, Turned, Lesser
  <2>2. <<a, b>> = PhysicalCoordinates(bb, a, b)
    BY <1>2 DEF PhysicalCoordinates
  <2> QED BY <2>1, <2>2
<1>3. CASE bb.rot = 1
  <2>1. p = Rect(bb.w - (y + h - 1) - 1, x, h, w)
    BY <1>1, <1>3 DEF PhysicalRect, PhysicalCoordinates, Rect, Turned, Lesser
  <2>2. <<b, bb.w - a - 1>> \in Pixels(Rect(x, y, w, h))
    <3>1. bb.w - a - 1 \in Int /\ bb.w - (y + h - 1) - 1 \in Int
      BY <1>1
    <3>2. /\ bb.w - (y + h - 1) - 1 <= a /\ a < (bb.w - (y + h - 1) - 1) + h
          /\ x <= b /\ b < x + w
      BY <2>1, <3>1, PixelOf
    <3>3. y <= bb.w - a - 1 /\ bb.w - a - 1 < y + h
      BY <1>1, <3>2
    <3> QED BY <3>1, <3>2, <3>3, PixelOf
  <2>3. <<a, b>> = PhysicalCoordinates(bb, b, bb.w - a - 1)
    BY <1>1, <1>3 DEF PhysicalCoordinates
  <2>4. b \in Int
    BY <1>1
  <2>5. bb.w - a - 1 \in Int
    BY <1>1
  <2> WITNESS b \in Int, bb.w - a - 1 \in Int
  <2> QED BY <2>2, <2>3
<1>4. CASE bb.rot = 2
  <2>1. p = Rect(bb.w - (x + w - 1) - 1, bb.h - (y + h - 1) - 1, w, h)
    BY <1>1, <1>4 DEF PhysicalRect, PhysicalCoordinates, Rect, Turned, Lesser
  <2>2. <<bb.w - a - 1, bb.h - b - 1>> \in Pixels(Rect(x, y, w, h))
    <3>1. /\ bb.w - a - 1 \in Int /\ bb.w - (x + w - 1) - 1 \in Int
          /\ bb.h - b - 1 \in Int /\ bb.h - (y + h - 1) - 1 \in Int
      BY <1>1
    <3>2. /\ bb.w - (x + w - 1) - 1 <= a /\ a < (bb.w - (x + w - 1) - 1) + w
          /\ bb.h - (y + h - 1) - 1 <= b /\ b < (bb.h - (y + h - 1) - 1) + h
      BY <2>1, <3>1, PixelOf
    <3>3. /\ x <= bb.w - a - 1 /\ bb.w - a - 1 < x + w
          /\ y <= bb.h - b - 1 /\ bb.h - b - 1 < y + h
      BY <1>1, <3>2
    <3> QED BY <3>1, <3>3, PixelOf
  <2>3. <<a, b>> = PhysicalCoordinates(bb, bb.w - a - 1, bb.h - b - 1)
    BY <1>1, <1>4 DEF PhysicalCoordinates
  <2>4. bb.w - a - 1 \in Int
    BY <1>1
  <2>5. bb.h - b - 1 \in Int
    BY <1>1
  <2> WITNESS bb.w - a - 1 \in Int, bb.h - b - 1 \in Int
  <2> QED BY <2>2, <2>3
<1>5. CASE bb.rot = 3
  <2>1. p = Rect(y, bb.h - (x + w - 1) - 1, h, w)
    BY <1>1, <1>5 DEF PhysicalRect, PhysicalCoordinates, Rect, Turned, Lesser
  <2>2. <<bb.h - b - 1, a>> \in Pixels(Rect(x, y, w, h))
    <3>1. bb.h - b - 1 \in Int /\ bb.h - (x + w - 1) - 1 \in Int
      BY <1>1
    <3>2. /\ bb.h - (x + w - 1) - 1 <= b /\ b < (bb.h - (x + w - 1) - 1) + w
          /\ y <= a /\ a < y + h
      BY <2>1, <3>1, PixelOf
    <3>3. x <= bb.h - b - 1 /\ bb.h - b - 1 < x + w
      BY <1>1, <3>2
    <3> QED BY <3>1, <3>2, <3>3, PixelOf
  <2>3. <<a, b>> = PhysicalCoordinates(bb, bb.h - b - 1, a)
    BY <1>1, <1>5 DEF PhysicalCoordinates
  <2>4. bb.h - b - 1 \in Int
    BY <1>1
  <2>5. a \in Int
    BY <1>1
  <2> WITNESS bb.h - b - 1 \in Int, a \in Int
  <2> QED BY <2>2, <2>3
<1> QED BY <1>1, <1>2, <1>3, <1>4, <1>5

(* The region handed to the driver has integer coordinates.                *)
LEMMA RefreshRectType ==
  ASSUME NEW bb \in BufferOf(Side, Side), NEW r \in DamageRect
  PROVE  RefreshRect(bb, r) \in [x : Int, y : Int, w : Int, h : Int]
<1> DEFINE W == Width(bb)  H == Height(bb)
           x == r.x  y == r.y  w == r.w  h == r.h
           ra == CheckBounds(w, x, 0, W, NoLimit)
           rd == CheckBounds(h, y, 0, H, NoLimit)
<1>0. NoLimit \in Int /\ 0 \in Int
  BY SideInt
<1>1. W \in Int /\ H \in Int
  BY SideInt, SizeTypes, Zenon
<1>2. x \in Int /\ y \in Int /\ w \in Int /\ h \in Int
  BY DEF DamageRect
<1>3. bb \in BufferOf(Int, Int)
  BY SideInt DEF BufferOf
<1>4. RefreshRect(bb, r) = PhysicalRect(bb, Rect(ra.target, rd.target, ra.len, rd.len))
  BY DEF RefreshRect
<1> HIDE DEF W, H, x, y, w, h
<1>5. /\ ra \in [len : Int, target : Int, source : Int]
      /\ rd \in [len : Int, target : Int, source : Int]
  BY <1>0, <1>1, <1>2, CheckBoundsTypes, Zenon
<1> HIDE DEF ra, rd
<1>6. bb.w \in Int /\ bb.h \in Int /\ bb.rot \in {0, 1, 2, 3}
  BY <1>3 DEF BufferOf, Rotation
<1> QED BY <1>4, <1>5, <1>6 DEF PhysicalRect, PhysicalCoordinates, Rect, Turned, Lesser

=============================================================================

------------------------------ MODULE Geometry ------------------------------
(***************************************************************************)
(* The coordinate arithmetic of ffi/blitbuffer.lua: the clipping of a copy *)
(* to the buffers it runs between (BB.checkBounds), the mapping of logical *)
(* to physical coordinates under the four rotations, and the rectangles    *)
(* that blitFrom and framebuffer:refresh derive from them.                 *)
(*                                                                         *)
(* A buffer is a record [w, h, rot]: its physical size and the rotation    *)
(* mode kept in its configuration byte.  A rectangle is a record           *)
(* [x, y, w, h].  All values are integers: every caller in the program     *)
(* passes integers, so the floor() in checkBounds is left out.             *)
(***************************************************************************)
EXTENDS Integers

Rotation == 0..3
BufferOf(W, H) == [w : W, h : H, rot : Rotation]
Rect(x, y, w, h) == [x |-> x, y |-> y, w |-> w, h |-> h]

(* The pixels of a rectangle; none if a side is zero or negative. *)
Pixels(r) == (r.x .. (r.x + r.w - 1)) \X (r.y .. (r.y + r.h - 1))

-----------------------------------------------------------------------------
(* BB.checkBounds: clip a copy of `length` cells from source_offset to     *)
(* target_offset to the cells both sides have.                             *)

Clipped(len, target, source) ==
  [len |-> len, target |-> target, source |-> source]

(* The two corrections of negative offsets, in the order of the code. *)
ClampTarget(c) ==
  IF c.target < 0 THEN Clipped(c.len + c.target, 0, c.source - c.target) ELSE c

ClampSourceUnmoved(c) ==  \* mutant: forgets to move the target offset
  IF c.source < 0 THEN Clipped(c.len + c.source, c.target, 0) ELSE c

ClampSource(c) ==
  IF c.source < 0 THEN Clipped(c.len + c.source, c.target - c.source, 0) ELSE c

CheckBounds(length, target_offset, source_offset, target_size, source_size) ==
  LET c == ClampSource(ClampTarget(Clipped(length, target_offset, source_offset)))
      target_left == target_size - c.target
      source_left == source_size - c.source
  IN  IF target_left <= 0 \/ source_left <= 0 THEN Clipped(0, 0, 0)
      ELSE IF c.len <= target_left /\ c.len <= source_left THEN c
      ELSE IF target_left < c.len /\ target_left < source_left
           THEN [c EXCEPT !.len = target_left]
      ELSE [c EXCEPT !.len = source_left]

-----------------------------------------------------------------------------
(* Rotation of a buffer. *)

Turned(bb) == bb.rot % 2 = 1
Width(bb)  == IF Turned(bb) THEN bb.h ELSE bb.w
Height(bb) == IF Turned(bb) THEN bb.w ELSE bb.h

PhysicalCoordinates(bb, x, y) ==
  CASE bb.rot = 0 -> <<x, y>>
    [] bb.rot = 1 -> <<bb.w - y - 1, x>>
    [] bb.rot = 2 -> <<bb.w - x - 1, bb.h - y - 1>>
    [] bb.rot = 3 -> <<y, bb.h - x - 1>>

Lesser(a, b) == IF a <= b THEN a ELSE b

PhysicalRect(bb, r) ==
  LET p1 == PhysicalCoordinates(bb, r.x, r.y)
      p2 == PhysicalCoordinates(bb, r.x + r.w - 1, r.y + r.h - 1)
  IN  Rect(Lesser(p1[1], p2[1]), Lesser(p1[2], p2[2]),
           IF Turned(bb) THEN r.h ELSE r.w,
           IF Turned(bb) THEN r.w ELSE r.h)

-----------------------------------------------------------------------------
(* blitFrom(source, r.x, r.y, r.x, r.y, r.w, r.h) as the refresh timer     *)
(* calls it: the same offsets on both sides.  The result is the rectangle  *)
(* of logical pixels that are copied, pixel by pixel, to the same place.   *)
BlitRect(bb, src, r) ==
  LET across == CheckBounds(r.w, r.x, r.x, Width(bb),  Width(src))
      down   == CheckBounds(r.h, r.y, r.y, Height(bb), Height(src))
  IN  Rect(across.target, down.target, across.len, down.len)

(* The rectangle framebuffer:refresh hands to the driver.  0xFFFF stands   *)
(* for "no limit on the source side".                                      *)
NoLimit == 65535

(* Buffers are not empty, and a side of a panel fits the 16 bits.          *)
Side == 1..NoLimit

RefreshRectLogical(bb, r) ==  \* mutant: no translation to physical coordinates
  Rect(r.x, r.y, CheckBounds(r.w, r.x, 0, Width(bb), NoLimit).len,
                 CheckBounds(r.h, r.y, 0, Height(bb), NoLimit).len)

RefreshRect(bb, r) ==
  LET across == CheckBounds(r.w, r.x, 0, Width(bb),  NoLimit)
      down   == CheckBounds(r.h, r.y, 0, Height(bb), NoLimit)
  IN  PhysicalRect(bb, Rect(across.target, down.target, across.len, down.len))
=============================================================================

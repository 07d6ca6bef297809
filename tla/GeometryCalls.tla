---------------------------- MODULE GeometryCalls ----------------------------
(***************************************************************************)
(* Calls of the coordinate arithmetic, one after the other: a caller picks *)
(* arguments, the function returns.  The properties compare what comes     *)
(* back with reference definitions that know nothing of how the code       *)
(* computes it.                                                            *)
(***************************************************************************)
EXTENDS Geometry, TLC

CONSTANTS Lengths, Offsets, Sizes,  \* arguments of checkBounds
          Buffers,                  \* target buffers [w, h, rot]
          Sources,                  \* source buffers [w, h, rot]
          Rects                     \* damage rectangles, in source coordinates

(* Damage never starts at a negative coordinate: libvncclient reads the    *)
(* coordinates from 16-bit unsigned fields.                                *)
ASSUME CopyAssumption ==
  Lengths \subseteq Int /\ Offsets \subseteq Int /\ Sizes \subseteq Nat \ {0}

ASSUME BufferAssumption ==
  /\ Buffers \subseteq BufferOf(Side, Side)
  /\ Sources \subseteq BufferOf(Side, Side)
  /\ Rects \subseteq [x : Nat, y : Nat, w : Nat, h : Nat]

VARIABLE call  \* the last call and its result
geometryVars == <<call>>

Idle == [fn |-> "none"]

CheckBoundsCall ==
  /\ call = Idle
  /\ \E len \in Lengths, t \in Offsets, s \in Offsets, T \in Sizes, S \in Sizes :
       call' = [fn |-> "checkBounds", len |-> len, t |-> t, s |-> s, T |-> T, S |-> S,
                ret |-> CheckBounds(len, t, s, T, S)]

PhysicalRectCall ==
  /\ call = Idle
  /\ \E bb \in Buffers, r \in Rects :
       /\ r.x + r.w <= Width(bb) /\ r.y + r.h <= Height(bb)
       /\ call' = [fn |-> "getPhysicalRect", bb |-> bb, r |-> r, ret |-> PhysicalRect(bb, r)]

DamageCall ==
  /\ call = Idle
  /\ \E bb \in Buffers, src \in Sources, r \in Rects :
       /\ r.x + r.w <= Width(src) /\ r.y + r.h <= Height(src)
       /\ call' = [fn |-> "refresh", bb |-> bb, src |-> src, r |-> r,
                   blit |-> BlitRect(bb, src, r), region |-> RefreshRect(bb, r)]

Return == call # Idle /\ call' = Idle

GeometryInit == call = Idle
GeometryNext == CheckBoundsCall \/ PhysicalRectCall \/ DamageCall \/ Return
GeometrySpec == GeometryInit /\ [][GeometryNext]_geometryVars

-----------------------------------------------------------------------------
(* Reference definitions. *)

(* The steps k of a copy for which both ends are inside their buffers. *)
ValidSteps(c) ==
  {k \in 0..(c.len - 1) : c.t + k \in 0..(c.T - 1) /\ c.s + k \in 0..(c.S - 1)}

(* The physical places of a set of logical pixels. *)
Image(bb, pixels) == {PhysicalCoordinates(bb, p[1], p[2]) : p \in pixels}

Panel(bb) == Pixels(Rect(0, 0, bb.w, bb.h))

-----------------------------------------------------------------------------
(* checkBounds copies exactly the cells of the requested copy that exist   *)
(* on both sides, each to the place it was meant for: nothing in range is  *)
(* dropped and nothing out of range is touched.                            *)
ClipExact ==
  call.fn = "checkBounds" =>
    {<<call.ret.target + k, call.ret.source + k>> : k \in 0..(call.ret.len - 1)}
      = {<<call.t + k, call.s + k>> : k \in ValidSteps(call)}

(* The comment at blitbuffer.lua:668-669: the offsets checkBounds returns  *)
(* are within their buffers, even when nothing is left to copy.            *)
OffsetsInRange ==
  call.fn = "checkBounds" =>
    call.ret.target \in 0..(call.T - 1) /\ call.ret.source \in 0..(call.S - 1)

(* getPhysicalRect returns the rectangle of exactly the physical pixels    *)
(* that setPixel would touch for the logical rectangle.                    *)
PhysicalRectIsImage ==
  call.fn = "getPhysicalRect" /\ call.r.w > 0 /\ call.r.h > 0 =>
    Pixels(call.ret) = Image(call.bb, Pixels(call.r))

(* For one and the same damage rectangle, blitFrom and framebuffer:refresh *)
(* clip differently (against the source, against 0xFFFF), but the region   *)
(* sent to the driver covers every pixel that was written.                 *)
RefreshCoversBlit ==
  call.fn = "refresh" =>
    Image(call.bb, Pixels(call.blit)) \subseteq Pixels(call.region)

(* The region sent to the driver lies on the panel whenever some part of   *)
(* the damage is visible, whatever the sizes and the rotation.             *)
RegionOnPanel ==
  call.fn = "refresh" /\ Pixels(call.blit) # {} =>
    Pixels(call.region) # {} /\ Pixels(call.region) \subseteq Panel(call.bb)

(* A copy takes what was asked for and exists on both sides, no more and no*)
(* less, and touches nothing outside (blitbuffer.lua:658-699).             *)
ClipSound ==
  /\ ClipExact
  /\ OffsetsInRange

(* What is refreshed lies on the panel and covers what was written, under  *)
(* every rotation (framebuffer_linux.lua:262-264).                         *)
RefreshSound ==
  /\ PhysicalRectIsImage
  /\ RefreshCoversBlit
  /\ RegionOnPanel
=============================================================================

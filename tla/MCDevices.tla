------------------------------ MODULE MCDevices ------------------------------
(* The parts of the program that work alone: the key bindings, the driver  *)
(* of the display, the pixels of a buffer, the arithmetic of rectangles,   *)
(* the timers, and the input devices of the desktop variant.  A behaviour  *)
(* is one of a single part; the others rest as they began.                 *)
EXTENDS MCKeys, Framebuffer, Blitbuffer, GeometryCalls, Timers, InputSDL

(* Markers wrap after three instead of sixteen.                            *)
AllKinds == {"carta", "pearl", "kobo", "eink"}

(* A buffer of odd width, so that the rows of 4-bit pixels are padded.     *)
Used(type, source, sourceInverse, inverse, inversions) ==
  [type |-> type, source |-> source, sourceInverse |-> sourceInverse,
   inverse |-> inverse, inversions |-> inversions]

(* The program on a Kindle or Kobo with the mxc driver: the pixels of the  *)
(* server are inverted when read and inverted again when set.              *)
MxcUses == {Used(t, "BGR32", TRUE, 1, 0) : t \in {"8", "RGB16"}}

(* Other sources, with inversions on either side and at any time. *)
OtherUses ==
  {Used(t, s, FALSE, 0, 1) : t \in {"4", "8", "RGB16", "RGB32"}, s \in {"4L", "4U", "8A", "RGB24"}}
  \cup {Used(t, "8A", TRUE, 0, 1) : t \in {"4", "8", "RGB16", "RGB32"}}
  \cup {Used(t, "RGB16", TRUE, 0, 1) : t \in {"RGB16", "RGB24"}}

MCUses == MxcUses \cup OtherUses

(* Small buffers: every size, offset and rotation that makes a different   *)
(* branch of the arithmetic run.                                           *)
MCLengths == 0..4
MCOffsets == -3..4
MCSizes   == 1..3
MCBuffers == [w : {2}, h : {3}, rot : 0..3]
MCSources == [w : {2, 4}, h : {1, 4}, rot : {0}]
MCRects   == [x : 0..3, y : 0..3, w : 0..3, h : 0..3]

VARIABLE part
Rests(p, rests) == part # p => rests
DevicesInit ==
  /\ part \in {"keys", "framebuffer", "blitbuffer", "geometry", "timers", "sdl"}
  /\ KeysInit /\ GeometryInit /\ TimersInit /\ InputSDLInit
  /\ FramebufferInit /\ Rests("framebuffer", kind = "eink")
  /\ BlitbufferInit /\ Rests("blitbuffer", use = Used("8", "BGR32", TRUE, 1, 0))

DevicesNext ==
  /\ UNCHANGED part
  /\ \/ part = "keys" /\ KeysNext
     \/ part = "framebuffer" /\ FramebufferNext
     \/ part = "blitbuffer" /\ BlitbufferNext
     \/ part = "geometry" /\ GeometryNext
     \/ part = "timers" /\ TimersNext
     \/ part = "sdl" /\ InputSDLNext
  /\ Rests("keys", UNCHANGED keysVars)
  /\ Rests("framebuffer", UNCHANGED framebufferVars)
  /\ Rests("blitbuffer", UNCHANGED blitbufferVars)
  /\ Rests("geometry", UNCHANGED geometryVars)
  /\ Rests("timers", UNCHANGED timersVars)
  /\ Rests("sdl", UNCHANGED inputSDLVars)
DevicesSpec ==
  /\ DevicesInit
  /\ [][DevicesNext]_<<part, keysVars, framebufferVars, blitbufferVars, geometryVars,
                      timersVars, inputSDLVars>>
  /\ FramebufferFairness
=============================================================================

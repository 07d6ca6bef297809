----------------------------- MODULE Blitbuffer -----------------------------
(***************************************************************************)
(* A blit buffer of ffi/blitbuffer.lua in use: pixels of a source are set, *)
(* while the buffer is rotated and inverted.  It shows whether a pixel     *)
(* survives the way through the conversion of its colour, the inversions   *)
(* on both sides, the rotation, and the packing of two pixels in a byte.   *)
(*                                                                         *)
(* Left out: copies to other buffers, painting, addition and dimming of    *)
(* colours, none of which the program uses.                                *)
(***************************************************************************)
EXTENDS Geometry, Colors, FiniteSets

CONSTANTS W, H,       \* physical size
          Uses,       \* types and inversions on both sides
          Channel,    \* the bytes of the pixels of the source
          Writes      \* bound: pixels set

BufferType == {"4", "8", "8A", "RGB16", "RGB24", "RGB32", "BGR32"}
Use == [type : BufferType, source : ColorType, sourceInverse : BOOLEAN,
        inverse : 0..1, inversions : Nat]

(* Color4L of an RGB16 colour can exceed 15 (see Weighted16), and a bit-wise *)
(* or with it is no sum.                                                   *)
ASSUME UsesAssumption ==
  /\ Uses \subseteq Use
  /\ \A u \in Uses : ~(u.type = "4" /\ u.source = "RGB16")
ASSUME SizeAssumption == {W, H} \subseteq Side /\ Channel \subseteq Byte /\ Writes \in Nat

VARIABLES use,      \* what the buffer is and is fed with
          config,   \* the configuration byte
          data,     \* memory: what is stored at each address
          turns,    \* history: quarter turns so far, modulo 4
          flips,    \* history: inversions so far
          meant     \* history: the luminance each physical pixel was given, as seen now

blitbufferVars == <<use, config, data, turns, flips, meant>>

-----------------------------------------------------------------------------
(* The configuration byte: allocated, inverse, rotation, type. *)
Field(shift, width) == Bits(config, shift, width)
SetField(shift, width, v) == config' = config + (v - Field(shift, width)) * 2^shift

getInverse == Field(1, 1)
getRotation == Field(2, 2)
getType == Field(4, 4)

TypeCode == [t \in BufferType |->
  CASE t = "4" -> 0 [] t = "8" -> 1 [] t = "8A" -> 2 [] t = "RGB16" -> 3
    [] t = "RGB24" -> 4 [] t = "RGB32" -> 5 [] t = "BGR32" -> 6]

bb == [w |-> W, h |-> H, rot |-> getRotation]

(* Memory.  The size of a pixel in bytes, the bytes of a row, and where a  *)
(* physical pixel is.                                                      *)
Size == CASE use.type = "8" -> 1 [] use.type \in {"8A", "RGB16"} -> 2
          [] use.type = "RGB24" -> 3 [] use.type \in {"RGB32", "BGR32"} -> 4
Pitch == IF use.type = "4" THEN (W % 2) + (W \div 2) ELSE Size * W
Address(x, y) == Pitch * y + (IF use.type = "4" THEN x \div 2 ELSE Size * x)

Zero == IF use.type \in RGB THEN <<0, 0, 0>> ELSE 0
Stored(x, y) == IF Address(x, y) \in DOMAIN data THEN data[Address(x, y)] ELSE Zero

(* getPixelP: which colour type the memory of a physical pixel has.  *)
PixelType(x) == IF use.type # "4" THEN use.type ELSE IF x % 2 = 0 THEN "4U" ELSE "4L"

(* color:set at a physical pixel.  A nibble keeps its neighbour. *)
SetValueWhole(x, y, c) == Convert(c, PixelType(x)).v  \* mutant: the neighbour is cleared
SetValue(x, y, c) ==
  LET new == Convert(c, PixelType(x)).v
  IN  CASE PixelType(x) = "4U" -> (Stored(x, y) % 16) + new
        [] PixelType(x) = "4L" -> Top(Stored(x, y), 4) + new
        [] OTHER -> new

-----------------------------------------------------------------------------
(* The physical pixel a logical one is, by turning the buffer quarter by   *)
(* quarter, and luminance as the comment at blitbuffer.lua:241 has it, in  *)
(* thousandths: what the code is compared with.                            *)
Quarter(w, p) == <<w - p[2] - 1, p[1]>>
Place(p) ==
  CASE turns = 0 -> p
    [] turns = 1 -> Quarter(W, p)
    [] turns = 2 -> Quarter(W, Quarter(H, p))
    [] turns = 3 -> Quarter(W, Quarter(H, Quarter(W, p)))

Luminance(c) ==
  LET rgb == ChannelsOf(c) IN 299 * rgb[1] + 587 * rgb[2] + 114 * rgb[3]

Black == 0
White == 255000
Mirrored(l) == White - l

(* The pixels of the source, as they are in its memory. *)
Raw ==
  LET colors == {Color("RGB24", rgb) : rgb \in Channel \X Channel \X Channel}
  IN  CASE use.source \in RGB -> {Color(use.source, c.v) : c \in colors}
        [] use.source = "RGB16" -> {Convert(c, "RGB16") : c \in colors}
        [] use.source \in Grey -> {Color(use.source, v) : v \in Channel}

-----------------------------------------------------------------------------
(* BB.new, with memory of its own, and invert() if the use asks for it.    *)
BlitbufferInit ==
  /\ use \in Uses
  /\ config = 1 + 2 * use.inverse + 16 * TypeCode[use.type]
  /\ data = <<>>
  /\ turns = 0
  /\ flips = 0
  /\ meant = <<>>

(* setPixel(x, y, color), with a colour that getPixel of the source gave.  *)
setPixel(x, y) ==
  /\ Cardinality(DOMAIN meant) < Writes
  /\ \E raw \in Raw :
       LET got == IF use.sourceInverse THEN Invert(raw) ELSE raw
           c == IF getInverse = 1 THEN Invert(got) ELSE got
           p == PhysicalCoordinates(bb, x, y)
           address == Address(p[1], p[2])
           value == SetValue(p[1], p[2], c)
           level == IF use.sourceInverse THEN Mirrored(Luminance(raw)) ELSE Luminance(raw)
       IN  /\ data' = [a \in DOMAIN data \cup {address} |-> IF a = address THEN value ELSE data[a]]
           /\ meant' = [q \in DOMAIN meant \cup {Place(<<x, y>>)} |->
                          IF q = Place(<<x, y>>) THEN level ELSE meant[q]]
  /\ UNCHANGED <<use, config, turns, flips>>

(* rotate(degree), by a multiple of 90.                                    *)
rotate(degree) ==
  /\ SetField(2, 2, ((degree + 90 * getRotation) % 360) \div 90)
  /\ turns' = (turns + (degree \div 90)) % 4
  /\ UNCHANGED <<use, data, flips, meant>>

(* invert(): everything in the buffer is seen inverted from now on.        *)
invert ==
  /\ flips < use.inversions
  /\ SetField(1, 1, (getInverse + 1) % 2)
  /\ flips' = flips + 1
  /\ meant' = [p \in DOMAIN meant |-> Mirrored(meant[p])]
  /\ UNCHANGED <<use, data, turns>>

BlitbufferNext ==
  \/ \E x \in 0..(Width(bb) - 1), y \in 0..(Height(bb) - 1) : setPixel(x, y)
  \/ \E degree \in {90, -90} : rotate(degree)
  \/ invert

BlitbufferSpec == BlitbufferInit /\ [][BlitbufferNext]_blitbufferVars

-----------------------------------------------------------------------------
Value == IF use.type \in RGB THEN Byte \X Byte \X Byte
         ELSE IF use.type = "RGB16" THEN Word16 ELSE Byte
(* Whatever is set in the byte, the rest of it stays, and memory holds     *)
(* what the type of the buffer can hold.                                   *)
BlitbufferTypeOK ==
  /\ getType = TypeCode[use.type] /\ Field(0, 1) = 1
  /\ getRotation = turns
  /\ getInverse = (use.inverse + flips) % 2
  /\ \A a \in DOMAIN data : a \in 0..(Pitch * H - 1) /\ data[a] \in Value

(* What getPixel returns for a physical pixel. *)
Displayed(p) ==
  LET c == Color(PixelType(p[1]), Stored(p[1], p[2]))
  IN  Luminance(IF getInverse = 1 THEN Invert(c) ELSE c)

(* How much of the 256 levels a type may lose. *)
Tolerance == CASE use.type = "4" -> 17 [] use.type \in {"8", "8A"} -> 2
               [] use.type = "RGB16" -> 8 [] use.type \in RGB -> 1

(* blitbuffer.lua:237-241: colours are converted by luminance,             *)
(* L = 0.299*Red + 0.587*Green + 0.114*Blue.  A pixel that was set is seen *)
(* at its place, in its luminance, whatever was done to the buffer and to  *)
(* its neighbours since.                                                   *)
Faithful ==
  \A p \in DOMAIN meant : Displayed(p) - meant[p] \in (-1000 * Tolerance)..(1000 * Tolerance)

(* A pixel keeps its place and its luminance, and the buffer its rotation, *)
(* inversion and type, whatever is set, turned and inverted.               *)
PixelsKept ==
  /\ BlitbufferTypeOK
  /\ Faithful
=============================================================================

-------------------------------- MODULE Colors --------------------------------
(***************************************************************************)
(* The colour values of ffi/blitbuffer.lua and their conversions.  A       *)
(* colour is a record [t, v]: its C type and its fields.  The greys hold a *)
(* byte (Color4U and Color4L each read one nibble of it), RGB16 a 16-bit   *)
(* word, the others the bytes <<r, g, b>> (alpha is never used).           *)
(*                                                                         *)
(* Shifts and masks are written as quotients and remainders: all values    *)
(* are non-negative.                                                       *)
(***************************************************************************)
EXTENDS Integers

Byte == 0..255
Word16 == 0..(2^16 - 1)
Grey == {"4L", "4U", "8", "8A"}
RGB == {"RGB24", "RGB32", "BGR32"}
ColorType == Grey \cup {"RGB16"} \cup RGB

Color(t, v) == [t |-> t, v |-> v]

Bits(v, shift, width) == (v \div 2^shift) % 2^width
Top(v, width) == v - (v % 2^(8 - width))  \* the upper bits of a byte, in their place

-----------------------------------------------------------------------------
(* Luminance, times 2^14. *)
Weighted(rgb) == 4897 * rgb[1] + 9617 * rgb[2] + 1868 * rgb[3]

(* Of an RGB16 word.  The mask of green is passed to rshift, which ignores *)
(* it, so that the bits of red stay in.                                    *)
Weighted16(v) == 39190 * Bits(v, 11, 5) + 38469 * (v \div 2^5) + 14942 * Bits(v, 0, 5)

(* getColor8 and getColor8A *)
Level8(c) ==
  CASE c.t = "4L"        -> 17 * Bits(c.v, 0, 4)
    [] c.t = "4U"        -> 17 * Bits(c.v, 4, 4)
    [] c.t \in {"8", "8A"} -> c.v
    [] c.t = "RGB16"     -> Bits(Weighted16(c.v), 14, 8)
    [] c.t \in RGB       -> Bits(Weighted(c.v), 14, 8)

Level4L(c) ==
  CASE c.t = "4L"              -> Bits(c.v, 0, 4)
    [] c.t \in Grey \ {"4L"}   -> Bits(c.v, 4, 4)
    [] c.t = "RGB16"           -> Bits(Weighted16(c.v), 18, 8)
    [] c.t \in RGB             -> Bits(Weighted(c.v), 18, 8)

Level4U(c) ==
  CASE c.t = "4L"              -> 16 * Bits(c.v, 0, 4)
    [] c.t \in Grey \ {"4L"}   -> Top(c.v, 4)
    [] c.t = "RGB16" \/ c.t \in RGB -> Top(Level8(c), 4)

-----------------------------------------------------------------------------
(* Five or six bits of an RGB16 word, made a byte by repeating their top.  *)
Expand(n, width) == n * 2^(8 - width) + (n \div 2^(2 * width - 8))

Channels16(v) == <<Expand(Bits(v, 11, 5), 5), Expand(Bits(v, 5, 6), 6), Expand(Bits(v, 0, 5), 5)>>

(* getColorRGB24 and getColorRGB32 *)
ChannelsOf(c) ==
  CASE c.t \in Grey  -> <<Level8(c), Level8(c), Level8(c)>>
    [] c.t = "RGB16" -> Channels16(c.v)
    [] c.t \in RGB   -> c.v

Swapped(rgb) == <<rgb[3], rgb[2], rgb[1]>>

Packed16(c) ==
  IF c.t = "RGB16" THEN c.v
  ELSE 2^8 * Top(ChannelsOf(c)[1], 5) + 2^3 * Top(ChannelsOf(c)[2], 6)
         + (ChannelsOf(c)[3] \div 2^3)

(* The colour as one of another type. *)
Convert(c, type) ==
  Color(type,
    CASE type = "4L"             -> Level4L(c)
      [] type = "4U"             -> Level4U(c)
      [] type \in {"8", "8A"}    -> Level8(c)
      [] type = "RGB16"          -> Packed16(c)
      [] type \in {"RGB24", "RGB32"} -> ChannelsOf(c)
      [] type = "BGR32"          ->
           IF c.t \in Grey \cup {"BGR32"} THEN ChannelsOf(c) ELSE Swapped(ChannelsOf(c)))

Complement(rgb) == [i \in 1..3 |-> 255 - rgb[i]]

Invert(c) ==
  Color(c.t,
    CASE c.t = "4L"    -> c.v + 15 - 2 * Bits(c.v, 0, 4)
      [] c.t = "4U"    -> c.v + 240 - 32 * Bits(c.v, 4, 4)
      [] c.t \in {"8", "8A"} -> 255 - c.v
      [] c.t = "RGB16" -> 65535 - c.v
      [] c.t \in {"RGB24", "RGB32"} -> Complement(c.v)
      [] c.t = "BGR32" -> Swapped(Complement(c.v)))
=============================================================================

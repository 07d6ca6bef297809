---------------------------- MODULE JpegTransform ----------------------------
(***************************************************************************)
(* Lossless transformation of a JPEG file, libjpeg-turbo-1.3.0/transupp.c: *)
(* flips, transpositions and rotations, with or without a crop, done on    *)
(* the blocks of coefficients.  A block is mirrored by the signs of its    *)
(* odd columns or rows and transposed by exchanging its coefficients, and  *)
(* is moved as a whole; what does not fill a whole interleaved unit at the *)
(* right or lower edge cannot be mirrored and stays where it is.           *)
(*                                                                         *)
(* Bound: BlockSide is 2 here and 8 there.  The loops of the code treat the  *)
(* coefficients two by two, so a block has one even and one odd row and    *)
(* column.  The library is built as version 6b: no scaled blocks.          *)
(***************************************************************************)
EXTENDS JpegBasics, Integers, Sequences, FiniteSets

CONSTANTS Frames,   \* pictures: [w, h, samp], samp the sampling factors <<h, v>>
          Sessions, \* sequences of requests [transform, edge, gray, spec, crop]
          Specs     \* crop specifications, sequences of tokens

BlockSide == 2

\* A sampling factor is at most 4 (jdinput.c, initial_setup); a picture that is
\* empty or has no component is refused (jdmarker.c, get_sof).
Factors == (1..4) \X (1..4)
Transforms == {"none", "flip_h", "flip_v", "transpose", "transverse", "rot_90", "rot_180", "rot_270"}
TransformRequests ==
  [transform : Transforms, edge : {"any", "trim", "perfect"}, gray : BOOLEAN,
   spec : Seq({"n", "f", "x", "+", "-", "?"}), crop : Nat \X Nat \X Nat \X Nat]

ASSUME FramesAssumption ==
  Frames \subseteq [w : Nat \ {0}, h : Nat \ {0}, samp : Seq(Factors) \ {<<>>}]
ASSUME SessionsAssumption == Sessions \subseteq Seq(TransformRequests) \ {<<>>}
\* "?" is any character that a specification has no use for.
ASSUME SpecsAssumption == Specs \subseteq Seq({"n", "f", "x", "+", "-", "?"})

VARIABLES stage,   \* what is done next, or how it ended
          source,  \* the picture: its frame and its coefficients, [w, h, samp, coefs]
          asked,   \* the requests of this session
          xinfo,   \* jpeg_transform_info of each
          outputs  \* the pictures written so far

transformVars == <<stage, source, asked, xinfo, outputs>>

MaxH(samp) == CHOOSE m \in {s[1] : s \in {samp[i] : i \in DOMAIN samp}} :
                 \A i \in DOMAIN samp : samp[i][1] <= m
MaxV(samp) == CHOOSE m \in {s[2] : s \in {samp[i] : i \in DOMAIN samp}} :
                 \A i \in DOMAIN samp : samp[i][2] <= m

(***************************************************************************)
(* Crop specifications: WxH+X+Y, where a number is the token "n", each     *)
(* size may be followed by "f" and each offset begins with "+" or "-".     *)
(* The numbers are the positions of their tokens in the specification.     *)
(***************************************************************************)
UnsetCrop == [crop |-> FALSE, width |-> "unset", height |-> "unset",
          xoffset |-> "unset", yoffset |-> "unset"]

At(spec, i) == IF i <= Len(spec) THEN spec[i] ELSE "end"

\* A size: its kind and where the text goes on.
Size(spec, i) == IF At(spec, i + 1) = "f" THEN <<"force", i + 2>> ELSE <<"pos", i + 1>>
Sign(token) == IF token = "-" THEN "neg" ELSE "pos"

jtransform_parse_crop_spec(spec) ==
  LET w == IF At(spec, 1) = "n" THEN Size(spec, 1) ELSE <<"unset", 1>>
      hasH == At(spec, w[2]) = "x"
      h == IF hasH THEN Size(spec, w[2] + 1) ELSE <<"unset", w[2]>>
      hasX == At(spec, h[2]) \in {"+", "-"}
      x == IF hasX THEN <<Sign(At(spec, h[2])), h[2] + 2>> ELSE <<"unset", h[2]>>
      hasY == At(spec, x[2]) \in {"+", "-"}
      y == IF hasY THEN <<Sign(At(spec, x[2])), x[2] + 2>> ELSE <<"unset", x[2]>>
  IN IF \/ hasH /\ At(spec, w[2] + 1) # "n"
        \/ hasX /\ At(spec, h[2] + 1) # "n"
        \/ hasY /\ At(spec, x[2] + 1) # "n"
        \/ At(spec, y[2]) # "end"
     THEN UnsetCrop
     ELSE [crop |-> TRUE, width |-> w[1], height |-> h[1], xoffset |-> x[1], yoffset |-> y[1]]

(***************************************************************************)
(* Which transformations are possible, and the workspace.                  *)
(***************************************************************************)
Transposing == {"transpose", "transverse", "rot_90", "rot_270"}

\* Which axis of the source a transformation mirrors.
jtransform_perfect_transform(w, h, mcuW, mcuH, t) ==
  /\ t \in {"flip_h", "rot_270", "transverse", "rot_180"} => w % mcuW = 0
  /\ t \in {"flip_v", "rot_90", "transverse", "rot_180"} => h % mcuH = 0

Components(frame, r) == IF r.gray /\ Len(frame.samp) = 3 THEN 1 ELSE Len(frame.samp)

\* The interleaved unit of the destination, in pixels of the transformed picture.
iMCU(frame, r) ==
  LET one == Components(frame, r) = 1
      w == (IF one THEN 1 ELSE MaxH(frame.samp)) * BlockSide
      h == (IF one THEN 1 ELSE MaxV(frame.samp)) * BlockSide
  IN IF r.transform \in Transposing THEN <<h, w>> ELSE <<w, h>>

Transformed(frame, r) ==
  IF r.transform \in Transposing THEN <<frame.h, frame.w>> ELSE <<frame.w, frame.h>>

\* The extent asked for along one axis: offset and size, and whether it is possible.
Extent(sizeSet, offsetSet, size, offset, full) ==
  LET o == IF offsetSet = "unset" THEN 0 ELSE offset
      s == IF sizeSet = "unset" THEN full - o ELSE size
  IN [ok |-> o < full /\ 0 < s /\ s <= full /\ o <= full - s,
      at |-> IF offsetSet = "neg" THEN full - s - o ELSE o, size |-> s]

\* Size and offset of the output along one axis, the offset in units.
Cropped(sizeSet, e, unit) ==
  <<IF sizeSet = "force" THEN e.size ELSE e.size + (e.at % unit), e.at \div unit>>

\* trim_right_edge and trim_bottom_edge, which differ in the axis.
trim_edge(size, offset, unit, full) ==
  IF size \div unit > 0 /\ offset + size \div unit = full \div unit
  THEN (size \div unit) * unit ELSE size

\* NONE and FLIP_H can do without a second array.
needs_workspace(t, x, y, slow) ==
  CASE t = "none" -> x # 0 \/ y # 0
    [] t = "flip_h" -> y # 0 \/ slow
    [] OTHER -> TRUE

TrimsRight == {"flip_h", "transverse", "rot_90", "rot_180"}
TrimsBottom == {"flip_v", "transverse", "rot_270", "rot_180"}

\* mutant: every flip may work in place.
slow_hflipNever(session, i) == FALSE
\* With several outputs, a flip must leave the source as it is.
slow_hflip(session, i) == Len(session) # 1 /\ session[i].transform = "flip_h"

\* Along both axes, c being the crop and unit and full as above.
CropFits(c, r, full) ==
  /\ Extent(c.width, c.xoffset, r.crop[1], r.crop[3], full[1]).ok
  /\ Extent(c.height, c.yoffset, r.crop[2], r.crop[4], full[2]).ok

CropX(c, r, unit, full) ==
  IF ~c.crop THEN <<full[1], 0>>
  ELSE Cropped(c.width, Extent(c.width, c.xoffset, r.crop[1], r.crop[3], full[1]), unit[1])

CropY(c, r, unit, full) ==
  IF ~c.crop THEN <<full[2], 0>>
  ELSE Cropped(c.height, Extent(c.height, c.yoffset, r.crop[2], r.crop[4], full[2]), unit[2])

Workspace(r, n, ox, oy, unit, full, slow) ==
  LET trims == r.edge = "trim"
  IN [ret |-> "requested", n |-> n, x |-> ox[2], y |-> oy[2], slow |-> slow,
      w |-> IF trims /\ r.transform \in TrimsRight
            THEN trim_edge(ox[1], ox[2], unit[1], full[1]) ELSE ox[1],
      h |-> IF trims /\ r.transform \in TrimsBottom
            THEN trim_edge(oy[1], oy[2], unit[2], full[2]) ELSE oy[1],
      workspace |-> needs_workspace(r.transform, ox[2], oy[2], slow)]

RequestCropped(frame, r, c, unit, full, slow) ==
  LET n == Components(frame, r)
      u == IF n = 1 THEN <<BlockSide, BlockSide>>
                    ELSE <<MaxH(frame.samp) * BlockSide, MaxV(frame.samp) * BlockSide>>
  IN IF r.edge = "perfect" /\ ~jtransform_perfect_transform(frame.w, frame.h, u[1], u[2], r.transform)
     THEN [ret |-> "imperfect"]
     ELSE IF c.crop /\ ~CropFits(c, r, full) THEN [ret |-> "JERR_BAD_CROP_SPEC"]
     ELSE Workspace(r, n, CropX(c, r, unit, full), CropY(c, r, unit, full), unit, full, slow)

jtransform_request_workspace(frame, r, slow) ==
  RequestCropped(frame, r, jtransform_parse_crop_spec(r.spec), iMCU(frame, r),
                 Transformed(frame, r), slow)

(***************************************************************************)
(* The frame of the destination.                                           *)
(***************************************************************************)
transpose_critical_parameters(samp) == [i \in DOMAIN samp |-> <<samp[i][2], samp[i][1]>>]

jtransform_adjust_parameters(frame, r, inf) ==
  LET one == [i \in {1} |-> <<1, 1>>]
      samp == IF inf.n = 1 THEN one ELSE frame.samp
  IN [w |-> inf.w, h |-> inf.h,
      samp |-> IF r.transform \in Transposing THEN transpose_critical_parameters(samp) ELSE samp]

\* Blocks of component c that the frame shows, as initial_setup of jcmaster.c counts them.
BlocksWide(f, c) == CeilDiv(f.w * f.samp[c][1], MaxH(f.samp) * BlockSide)
BlocksHigh(f, c) == CeilDiv(f.h * f.samp[c][2], MaxV(f.samp) * BlockSide)
Shown(f, c) == (0..BlocksWide(f, c) - 1) \X (0..BlocksHigh(f, c) - 1)

\* The decoder's arrays are whole units wide and high.
Padded(f, c) ==
  (0..CeilDiv(BlocksWide(f, c), f.samp[c][1]) * f.samp[c][1] - 1)
    \X (0..CeilDiv(BlocksHigh(f, c), f.samp[c][2]) * f.samp[c][2] - 1)

(***************************************************************************)
(* Moving the blocks.  d is the frame of the destination, s the picture,   *)
(* xo and yo the offsets of the crop in units.                             *)
(***************************************************************************)
\* Coefficients <<row 0 column 0, row 0 column 1, row 1 column 0, row 1 column 1>>.
OddColumns(b) == <<b[1], -b[2], b[3], -b[4]>>
OddRows(b) == <<b[1], b[2], -b[3], -b[4]>>
Transpose(b) == <<b[1], b[3], b[2], b[4]>>

\* A block of an array, "stray" when there is none.
Stray == <<0, 0, 0, 0>>
Block(a, x, y) == IF <<x, y>> \in DOMAIN a THEN a[<<x, y>>] ELSE Stray

\* The arrays of all components, filled block by block; x and y with the offset added.
Fill(d, xo, yo, F(_, _, _)) ==
  [c \in DOMAIN d.samp |->
     [p \in Shown(d, c) |-> F(c, p[1] + xo * d.samp[c][1], p[2] + yo * d.samp[c][2])]]

\* Blocks in the whole units of the transformed source, where mirroring is possible.
CompWidth(full, d, c) == (full \div (MaxH(d.samp) * BlockSide)) * d.samp[c][1]
CompHeight(full, d, c) == (full \div (MaxV(d.samp) * BlockSide)) * d.samp[c][2]

do_crop(s, d, xo, yo) ==
  LET F(c, x, y) == Block(s.coefs[c], x, y) IN Fill(d, xo, yo, F)

\* In place: exchange the blocks of a row, then move it to the left.
do_flip_h_no_crop(s, d, xo) ==
  [c \in DOMAIN d.samp |->
     LET cw == CompWidth(s.w, d, c)
         flipped == [p \in DOMAIN s.coefs[c] |->
                       IF p[2] < BlocksHigh(d, c) /\ p[1] < cw
                       THEN OddColumns(s.coefs[c][<<cw - p[1] - 1, p[2]>>])
                       ELSE s.coefs[c][p]]
     IN [p \in Shown(d, c) |-> Block(flipped, p[1] + xo * d.samp[c][1], p[2])]]

do_flip_h(s, d, xo, yo) ==
  LET F(c, x, y) ==
        LET cw == CompWidth(s.w, d, c)
        IN IF x < cw THEN OddColumns(Block(s.coefs[c], cw - x - 1, y))
                     ELSE Block(s.coefs[c], x, y)
  IN Fill(d, xo, yo, F)

do_flip_v(s, d, xo, yo) ==
  LET F(c, x, y) ==
        LET ch == CompHeight(s.h, d, c)
        IN IF y < ch THEN OddRows(Block(s.coefs[c], x, ch - y - 1))
                     ELSE Block(s.coefs[c], x, y)
  IN Fill(d, xo, yo, F)

do_transpose(s, d, xo, yo) ==
  LET F(c, x, y) == Transpose(Block(s.coefs[c], y, x)) IN Fill(d, xo, yo, F)

do_rot_90(s, d, xo, yo) ==
  LET F(c, x, y) ==
        LET cw == CompWidth(s.h, d, c)
        IN IF x < cw THEN Transpose(OddRows(Block(s.coefs[c], y, cw - x - 1)))
                     ELSE Transpose(Block(s.coefs[c], y, x))
  IN Fill(d, xo, yo, F)

do_rot_270(s, d, xo, yo) ==
  LET F(c, x, y) ==
        LET ch == CompHeight(s.w, d, c)
        IN IF y < ch THEN Transpose(OddColumns(Block(s.coefs[c], ch - y - 1, x)))
                     ELSE Transpose(Block(s.coefs[c], y, x))
  IN Fill(d, xo, yo, F)

do_rot_180(s, d, xo, yo) ==
  LET F(c, x, y) ==
        LET cw == CompWidth(s.w, d, c)
            ch == CompHeight(s.h, d, c)
        IN CASE x < cw /\ y < ch -> OddColumns(OddRows(Block(s.coefs[c], cw - x - 1, ch - y - 1)))
             [] x >= cw /\ y < ch -> OddRows(Block(s.coefs[c], x, ch - y - 1))
             [] x < cw /\ y >= ch -> OddColumns(Block(s.coefs[c], cw - x - 1, y))
             [] OTHER -> Block(s.coefs[c], x, y)
  IN Fill(d, xo, yo, F)

do_transverse(s, d, xo, yo) ==
  LET F(c, x, y) ==
        LET cw == CompWidth(s.h, d, c)
            ch == CompHeight(s.w, d, c)
        IN CASE x < cw /\ y < ch ->
                  Transpose(OddColumns(OddRows(Block(s.coefs[c], ch - y - 1, cw - x - 1))))
             [] x >= cw /\ y < ch -> Transpose(OddColumns(Block(s.coefs[c], ch - y - 1, x)))
             [] x < cw /\ y >= ch -> Transpose(OddRows(Block(s.coefs[c], y, cw - x - 1)))
             [] OTHER -> Transpose(Block(s.coefs[c], y, x))
  IN Fill(d, xo, yo, F)

\* The workspace after the transformation.
jtransform_execute_transform(s, d, t, xo, yo) ==
  CASE t = "none" -> do_crop(s, d, xo, yo)
    [] t = "flip_h" -> do_flip_h(s, d, xo, yo)
    [] t = "flip_v" -> do_flip_v(s, d, xo, yo)
    [] t = "transpose" -> do_transpose(s, d, xo, yo)
    [] t = "transverse" -> do_transverse(s, d, xo, yo)
    [] t = "rot_90" -> do_rot_90(s, d, xo, yo)
    [] t = "rot_180" -> do_rot_180(s, d, xo, yo)
    [] t = "rot_270" -> do_rot_270(s, d, xo, yo)

(***************************************************************************)
(* A session of jpegtran (one request) or tjTransform (several): all the   *)
(* workspaces are requested before the coefficients are read.              *)
(***************************************************************************)
Number(c, x, y) == 512 * c + 64 * y + 8 * x
Picture(f) ==
  [w |-> f.w, h |-> f.h, samp |-> f.samp,
   coefs |-> [c \in DOMAIN f.samp |->
                [p \in Padded(f, c) |-> <<Number(c, p[1], p[2]), 1, 2, 4>>]]]

TransformInit ==
  /\ source = [none |-> TRUE] /\ stage = "start" /\ asked = <<>> /\ xinfo = <<>> /\ outputs = <<>>

ParseSpec ==
  /\ stage = "start"
  /\ \E spec \in Specs :
       /\ asked' = spec
       /\ xinfo' = jtransform_parse_crop_spec(spec)
  /\ stage' = "parsed"
  /\ UNCHANGED <<source, outputs>>

Open ==
  /\ stage = "start"
  /\ \E f \in Frames : source' = Picture(f)
  /\ asked' \in Sessions
  /\ stage' = "request"
  /\ UNCHANGED <<xinfo, outputs>>

Requested(i, inf) ==
  /\ xinfo' = Append(xinfo, inf)
  /\ stage' = CASE inf.ret # "requested" -> inf.ret
                [] inf.ret = "requested" /\ i = Len(asked) -> "transform"
                [] OTHER -> "request"

Request ==
  /\ stage = "request"
  /\ LET i == Len(xinfo) + 1
     IN Requested(i, jtransform_request_workspace(source, asked[i], slow_hflip(asked, i)))
  /\ UNCHANGED <<source, asked, outputs>>

\* Adjust the frame, execute, write.  The gray picture needs full resolution.
Flips(r, inf) == r.transform = "flip_h" /\ ~inf.workspace

Coefficients(d, r, inf) ==
  CASE inf.workspace -> jtransform_execute_transform(source, d, r.transform, inf.x, inf.y)
    [] Flips(r, inf) -> do_flip_h_no_crop(source, d, inf.x)
    [] OTHER -> [c \in DOMAIN d.samp |-> source.coefs[c]]

Write(d, r, inf, coefs) ==
  /\ source' = IF ~Flips(r, inf) THEN source
               ELSE [source EXCEPT !.coefs = [c \in DOMAIN @ |->
                                                IF c \in DOMAIN coefs THEN coefs[c] ELSE @[c]]]
  /\ outputs' = Append(outputs, [w |-> d.w, h |-> d.h, samp |-> d.samp, coefs |-> coefs])
  /\ stage' = IF Len(outputs) + 1 = Len(asked) THEN "written" ELSE "transform"

Adjusted(d, r, inf) == Write(d, r, inf, Coefficients(d, r, inf))

Transform ==
  /\ stage = "transform"
  /\ LET i == Len(outputs) + 1
         r == asked[i]
     IN IF r.gray /\ source.samp[1] # <<MaxH(source.samp), MaxV(source.samp)>>
        THEN stage' = "JERR_CONVERSION_NOTIMPL" /\ UNCHANGED <<source, outputs>>
        ELSE Adjusted(jtransform_adjust_parameters(source, r, xinfo[i]), r, xinfo[i])
  /\ UNCHANGED <<asked, xinfo>>

TransformReturn ==
  /\ stage \notin {"start", "request", "transform"}
  /\ stage' = "start" /\ source' = [none |-> TRUE]
  /\ asked' = <<>> /\ xinfo' = <<>> /\ outputs' = <<>>

TransformNext == ParseSpec \/ Open \/ Request \/ Transform \/ TransformReturn

TransformSpec == TransformInit /\ [][TransformNext]_transformVars

------------------------------------------------------------------------------
\* A sample of a component: the inverse transform of its block (two by two).
Sample(coefs, c, x, y) ==
  LET b == Block(coefs[c], x \div BlockSide, y \div BlockSide)
      sx == IF x % 2 = 1 THEN -1 ELSE 1
      sy == IF y % 2 = 1 THEN -1 ELSE 1
  IN b[1] + sx * b[2] + sy * b[3] + sx * sy * b[4]

\* Samples of component c that belong to the picture, not to its padding.
WideOf(f, c) == CeilDiv(f.w * f.samp[c][1], MaxH(f.samp))
HighOf(f, c) == CeilDiv(f.h * f.samp[c][2], MaxV(f.samp))

MirrorsX == {"flip_h", "transverse", "rot_90", "rot_180"} \* in the coordinates of the output
MirrorsY == {"flip_v", "transverse", "rot_270", "rot_180"}

\* Where sample (x, y) of the whole transformed picture comes from, when the picture
\* it is transformed into is w samples wide and h high.
Origin(t, w, h, x, y) ==
  LET mx == IF t \in MirrorsX THEN w - 1 - x ELSE x
      my == IF t \in MirrorsY THEN h - 1 - y ELSE y
  IN IF t \in Transposing THEN <<my, mx>> ELSE <<mx, my>>

Original == [w |-> source.w, h |-> source.h, samp |-> source.samp]
Outputs == IF stage \in {"transform", "written"} THEN DOMAIN outputs ELSE {}

\* Length of a mirrored axis: whole units only, as far as they are mirrored at all.
WholeUnits(full, unit) == (full \div unit) * unit

(***************************************************************************)
(* What is written is the picture that was asked for, sample by sample:    *)
(* the mirror image about the edge of the picture, or of the part of it    *)
(* that is left after trimming, beginning at the crop.  This is so for     *)
(* every output of a session, and wherever the axis that is mirrored ends  *)
(* with a whole unit, or the rest was to be trimmed and the output keeps   *)
(* at least one unit.  (do_flip_h ... do_transverse, trim_right_edge,      *)
(* trim_bottom_edge, jtransform_perfect_transform; the work in place.)     *)
(***************************************************************************)
SamplesAreMoved ==
  \A i \in Outputs :
    LET r == asked[i]
        o == outputs[i]
        inf == xinfo[i]
        unit == iMCU(Original, r)
        full == Transformed(Original, r)
        exactX == \/ r.transform \notin MirrorsX \/ full[1] % unit[1] = 0
                  \/ r.edge = "perfect" \/ (r.edge = "trim" /\ o.w >= unit[1])
        exactY == \/ r.transform \notin MirrorsY \/ full[2] % unit[2] = 0
                  \/ r.edge = "perfect" \/ (r.edge = "trim" /\ o.h >= unit[2])
    IN exactX /\ exactY =>
         \A c \in DOMAIN o.samp :
           LET hs == o.samp[c][1]
               vs == o.samp[c][2]
               w == ((IF r.edge = "trim" THEN WholeUnits(full[1], unit[1]) ELSE full[1]) * hs) \div MaxH(o.samp)
               h == ((IF r.edge = "trim" THEN WholeUnits(full[2], unit[2]) ELSE full[2]) * vs) \div MaxV(o.samp)
           IN \A x \in 0..WideOf(o, c) - 1, y \in 0..HighOf(o, c) - 1 :
                LET from == Origin(r.transform, w, h, x + inf.x * hs * BlockSide, y + inf.y * vs * BlockSide)
                IN Sample(o.coefs, c, x, y) = Sample(Picture(Original).coefs, c, from[1], from[2])

(***************************************************************************)
(* Every block that is written exists in the picture that was read: no     *)
(* transformation, crop or trim, whatever the sampling factors, asks for a *)
(* row or column outside the arrays.                                       *)
(***************************************************************************)
NoStrayBlock ==
  \A i \in Outputs : \A c \in DOMAIN outputs[i].samp :
    \A p \in Shown(outputs[i], c) : p \in DOMAIN outputs[i].coefs[c] /\ outputs[i].coefs[c][p] # Stray

Shows(r, kind, offsetKind, size, offset, f, u, at, out) ==
  LET s == IF kind = "unset" THEN f - (IF offsetKind = "unset" THEN 0 ELSE offset) ELSE size
      o == CASE offsetKind = "unset" -> 0 [] offsetKind = "neg" -> f - s - offset
             [] OTHER -> offset
  IN /\ at * u <= o
     /\ kind # "force" /\ r.edge # "trim" => at * u + out = o + s
     /\ kind # "force" /\ out >= u => at * u + out > o + s - u

ShowsRegion(r, c, full, unit, inf) ==
  c.crop /\ inf.ret = "requested" =>
    /\ Shows(r, c.width, c.xoffset, r.crop[1], r.crop[3], full[1], unit[1], inf.x, inf.w)
    /\ Shows(r, c.height, c.yoffset, r.crop[2], r.crop[4], full[2], unit[2], inf.y, inf.h)

(***************************************************************************)
(* The region that was asked for is part of the output, except for what a  *)
(* trim takes away or the size "f" forces: the offset is rounded down to a *)
(* unit and the size grows by as much (lines 999 to 1020).                 *)
(***************************************************************************)
RegionIsShown ==
  \A i \in DOMAIN xinfo : stage \notin {"parsed", "start"} =>
    ShowsRegion(asked[i], jtransform_parse_crop_spec(asked[i].spec),
                Transformed(Original, asked[i]), iMCU(Original, asked[i]), xinfo[i])

Optional(S) == S \cup {<<>>}
Language ==
  {a \o b \o x \o y : a \in {<<>>, <<"n">>, <<"n", "f">>},
                      b \in {<<>>, <<"x", "n">>, <<"x", "n", "f">>},
                      x \in Optional({<<"+", "n">>, <<"-", "n">>}),
                      y \in Optional({<<"+", "n">>, <<"-", "n">>})}

(***************************************************************************)
(* A crop specification is accepted when it is one of the form that the    *)
(* comment at line 782 gives: a width, a height, an offset and a second    *)
(* offset, each optional, in this order and nothing else.                  *)
(***************************************************************************)
SpecsAreUnderstood == stage = "parsed" => (xinfo.crop <=> asked \in Language)

(* Whatever is asked for, the region that is written is not empty and      *)
(* begins inside the picture, or the request is refused.                   *)
TransformTypeOK ==
  /\ stage \in {"start", "parsed", "request", "transform", "written", "imperfect",
               "JERR_BAD_CROP_SPEC", "JERR_CONVERSION_NOTIMPL"}
  /\ stage \in {"transform", "written"} =>
       /\ Len(xinfo) = Len(asked) /\ Len(outputs) <= Len(asked)
       /\ \A i \in DOMAIN xinfo : xinfo[i].w > 0 /\ xinfo[i].h > 0 /\ xinfo[i].x >= 0 /\ xinfo[i].y >= 0

(* A lossless transformation moves the samples to where the request says,  *)
(* all of those it is to keep, and nothing else into the picture.          *)
TransformRight ==
  /\ TransformTypeOK
  /\ SamplesAreMoved
  /\ NoStrayBlock
  /\ RegionIsShown
  /\ SpecsAreUnderstood
=============================================================================

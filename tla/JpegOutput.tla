----------------------------- MODULE JpegOutput -----------------------------
(***************************************************************************)
(* The output side of the decoder of libjpeg-turbo-1.3.0: the rows that    *)
(* the coefficient controller delivers are gathered by the main buffer     *)
(* controller (jdmainct.c), put together from the components by the        *)
(* upsampler (jdsample.c, jdmerge.c) and passed through the postprocessing *)
(* controller (jdpostct.c) to the caller, who may ask for any number of    *)
(* rows at a time.  Upsampling with context needs the rows above and below *)
(* a row group; the main controller provides them by two lists of pointers *)
(* into one buffer.                                                        *)
(*                                                                         *)
(* A row is represented by its number in its component, an output row by   *)
(* the rows it is made of: <<near>> or <<near, far>> for every component.  *)
(* The horizontal direction is left out.                                   *)
(***************************************************************************)
EXTENDS JpegBasics, Integers, Sequences, FiniteSets

CONSTANTS Pictures,  \* [h, w, samp, num, denom, fancy, quantize], see Setup
          Requests   \* numbers of rows a caller asks for

\* Sampling factors are at most 4 (jdmaster.c, initial_setup of jdinput.c).
PictureType ==
  [h : Nat \ {0}, w : Nat \ {0}, samp : Seq((1..4) \X (1..4)) \ {<<>>}, num : Nat \ {0},
   denom : Nat \ {0}, fancy : BOOLEAN, quantize : {"none", "one", "two"}]

OutputAssumption ==
  /\ Requests \subseteq Nat \ {0}
  /\ Pictures \subseteq PictureType
ASSUME OutputAssumption

VARIABLES pic, \* what jpeg_calc_output_dimensions and the upsampler's set-up computed
          s,   \* the state of the three controllers
          done \* the output rows of this pass, for the properties

outputVars == <<pic, s, done>>

DCTSIZE == 8
MaxOf(samp, k) == CHOOSE m \in 1..4 : (\E i \in DOMAIN samp : samp[i][k] = m)
                                      /\ \A i \in DOMAIN samp : samp[i][k] <= m
Unset == -1 \* a pointer that was never set, a row that was never written

(***************************************************************************)
(* Dimensions and the choice of methods.                                   *)
(***************************************************************************)
\* The size of a block in the output: the smallest that is large enough.
min_DCT_scaled_size(num, denom) ==
  IF \E k \in 1..15 : num * DCTSIZE <= denom * k
  THEN CHOOSE k \in 1..15 : num * DCTSIZE <= denom * k /\ (k = 1 \/ num * DCTSIZE > denom * (k - 1))
  ELSE 16

\* A component that is subsampled is scaled up by the inverse transform if possible.
DCT_scaled_size(samp, c, m) ==
  LET fits(z) == /\ (MaxOf(samp, 1) * m) % (samp[c][1] * z * 2) = 0
                 /\ (MaxOf(samp, 2) * m) % (samp[c][2] * z * 2) = 0
      size[z \in {m, 2 * m, 4 * m, 8 * m, 16 * m}] ==
        IF z < DCTSIZE /\ fits(z) THEN size[2 * z] ELSE z
  IN size[m]

use_merged_upsample(p, m, dct) ==
  /\ ~p.fancy /\ Len(p.samp) = 3
  /\ p.samp[1][1] = 2 /\ p.samp[1][2] <= 2
  /\ \A c \in {2, 3} : p.samp[c] = <<1, 1>>
  /\ \A c \in 1..3 : dct[c] = m

\* jinit_upsampler: the method for component c.
Method(p, c, m, dct, width) ==
  LET hin == (p.samp[c][1] * dct) \div m
      vin == (p.samp[c][2] * dct) \div m
      hout == MaxOf(p.samp, 1)
      vout == MaxOf(p.samp, 2)
      fancy == p.fancy /\ m > 1 /\ width > 2
  IN CASE hin = hout /\ vin = vout -> "fullsize"
       [] hin * 2 = hout /\ vin = vout -> IF fancy THEN "h2v1_fancy" ELSE "h2v1"
       [] hin * 2 = hout /\ vin * 2 = vout -> IF fancy THEN "h2v2_fancy" ELSE "h2v2"
       [] hin * 2 # hout /\ hout % hin = 0 /\ vout % vin = 0 -> "int"
       [] hin * 2 = hout /\ vin # vout /\ vin * 2 # vout /\ vout % vin = 0 -> "int"
       [] OTHER -> "JERR_FRACT_SAMPLE_NOTIMPL"

Setup(p) ==
  LET m == min_DCT_scaled_size(p.num, p.denom)
      cs == DOMAIN p.samp
      maxh == MaxOf(p.samp, 1)
      maxv == MaxOf(p.samp, 2)
      dct == [c \in cs |-> DCT_scaled_size(p.samp, c, m)]
      merged == use_merged_upsample(p, m, dct)
      method == [c \in cs |-> Method(p, c, m, dct[c], CeilDiv(p.w * p.samp[c][1] * dct[c], maxh * DCTSIZE))]
  IN [m |-> m, maxv |-> maxv, dct |-> dct, merged |-> merged, method |-> method,
      v |-> [c \in cs |-> p.samp[c][2]], quantize |-> p.quantize,
      context |-> ~merged /\ \E c \in cs : method[c] = "h2v2_fancy",
      output_height |-> CeilDiv(p.h * m, DCTSIZE),
      total_iMCU_rows |-> CeilDiv(p.h, maxv * DCTSIZE),
      height_in_blocks |-> [c \in cs |-> CeilDiv(p.h * p.samp[c][2], maxv * DCTSIZE)],
      downsampled_height |-> [c \in cs |-> CeilDiv(p.h * p.samp[c][2] * dct[c], maxv * DCTSIZE)],
      rgroup |-> [c \in cs |-> (p.samp[c][2] * dct[c]) \div m]]

Comps == DOMAIN pic.dct

(***************************************************************************)
(* The lists of pointers (jdmainct.c).  x[w][c] maps the index of a row    *)
(* to its place in buffer[c].                                              *)
(***************************************************************************)
\* With context: exchange the last two row groups and the two behind them in list 1.
make_funny_pointers ==
  [w \in 0..1 |-> [c \in Comps |->
     LET g == pic.rgroup[c]
         m == pic.m
     IN [i \in -g..g * (m + 3) - 1 |->
           CASE i < 0 -> IF w = 0 THEN 0 ELSE Unset
             [] i >= g * (m + 2) -> Unset
             [] w = 1 /\ i >= g * (m - 2) /\ i < g * m -> i + 2 * g
             [] w = 1 /\ i >= g * m -> i - 2 * g
             [] OTHER -> i]]]

\* Without: the buffer itself.
simple_pointers ==
  [w \in 0..1 |-> [c \in Comps |-> [i \in 0..pic.rgroup[c] * pic.m - 1 |-> i]]]

\* mutant: the rows above the first row group are left as they were.
set_wraparound_pointersBelow(x) ==
  [w \in 0..1 |-> [c \in Comps |->
     LET g == pic.rgroup[c]
         m == pic.m
     IN [i \in DOMAIN x[w][c] |-> IF i >= g * (m + 2) THEN x[w][c][i - g * (m + 2)] ELSE x[w][c][i]]]]

set_wraparound_pointers(x) ==
  [w \in 0..1 |-> [c \in Comps |->
     LET g == pic.rgroup[c]
         m == pic.m
     IN [i \in DOMAIN x[w][c] |->
           CASE i < 0 -> x[w][c][g * (m + 1) + i + g]
             [] i >= g * (m + 2) -> x[w][c][i - g * (m + 2)]
             [] OTHER -> x[w][c][i]]]]

\* Rows of component c in the last unit.
RowsLeft(c) ==
  LET h == pic.v[c] * pic.dct[c]
      r == pic.downsampled_height[c] % h
  IN IF r = 0 THEN h ELSE r

\* Duplicate the last row, so that it is the context of itself.
set_bottom_pointers(r) ==
  [r EXCEPT !.avail = (RowsLeft(1) - 1) \div pic.rgroup[1] + 1,
            !.x[r.which] = [c \in Comps |->
              [i \in DOMAIN @[c] |-> IF i >= RowsLeft(c) /\ i < RowsLeft(c) + 2 * pic.rgroup[c]
                                     THEN @[c][RowsLeft(c) - 1] ELSE @[c][i]]]]

(***************************************************************************)
(* The coefficient controller delivers the next unit of rows into the list *)
(* of pointers; the blocks below the picture are not delivered.            *)
(***************************************************************************)
decompress_data(r) ==
  [r EXCEPT !.full = TRUE, !.imcu = @ + 1,
            !.buffer = [c \in Comps |->
     LET d == pic.dct[c]
         rows == pic.v[c] * d
         Delivered == {i \in 0..rows - 1 : r.imcu * pic.v[c] + i \div d < pic.height_in_blocks[c]}
     IN [k \in DOMAIN @[c] |->
           IF \E i \in Delivered : r.x[r.which][c][i] = k
           THEN r.imcu * rows + (CHOOSE i \in Delivered : r.x[r.which][c][i] = k)
           ELSE @[c][k]]]]

Row(r, c, i) ==
  IF i \notin DOMAIN r.x[r.which][c] THEN Unset
  ELSE IF r.x[r.which][c][i] = Unset THEN Unset ELSE r.buffer[c][r.x[r.which][c][i]]

(***************************************************************************)
(* Upsampling.  to is where the rows go and how many have gone there; the  *)
(* result is the new state and the rows appended.                          *)
(***************************************************************************)
\* The rows of component c for one row group: k counts the output rows of the group.
Upsampled(r, c, k) ==
  LET base == r.ctr * pic.rgroup[c]
  IN CASE pic.method[c] \in {"fullsize", "h2v1", "h2v1_fancy"} -> <<Row(r, c, base + k)>>
       [] pic.method[c] = "h2v2" -> <<Row(r, c, base + k \div 2)>>
       [] pic.method[c] = "h2v2_fancy" ->
            <<Row(r, c, base + k \div 2),
              Row(r, c, base + k \div 2 + (IF k % 2 = 0 THEN -1 ELSE 1))>>
       [] pic.method[c] = "int" -> <<Row(r, c, base + k \div (pic.maxv \div pic.rgroup[c]))>>

\* A component at full size is not copied: its rows are read from the main buffer.
Converted(r, k) ==
  [c \in Comps |-> IF pic.method[c] = "fullsize"
                   THEN <<Row(r, c, r.from * pic.rgroup[c] + k)>> ELSE r.color[k][c]]

\* The rows of the next row group are made when those of the last are used up ...
NextGroup(r) ==
  IF r.next < pic.maxv THEN r
  ELSE [r EXCEPT !.color = [k \in 0..pic.maxv - 1 |-> [c \in Comps |-> Upsampled(r, c, k)]],
                 !.next = 0, !.from = r.ctr]

\* ... and handed on, as many as there is room for.
HandOn(r, room) ==
  LET num == Least({pic.maxv - r.next, r.togo, room})
  IN [r |-> [r EXCEPT !.togo = @ - num, !.next = @ + num,
                      !.ctr = IF r.next + num >= pic.maxv THEN @ + 1 ELSE @],
      rows |-> [i \in 1..num |-> Converted(r, r.next + i - 1)]]

sep_upsample(r, room) == HandOn(NextGroup(r), room)

Merged(r, k) ==
  [c \in Comps |-> <<Row(r, c, r.ctr * pic.rgroup[c] + (IF pic.rgroup[c] = 2 THEN k ELSE 0))>>]

\* Two rows at a time; when there is room for one only, the second is kept.
merged_2v_upsample(r, room) ==
  IF r.spare # <<>>
  THEN [r |-> [r EXCEPT !.spare = <<>>, !.togo = @ - 1, !.ctr = @ + 1], rows |-> <<r.spare[1]>>]
  ELSE LET num == Least({2, r.togo, room})
       IN [r |-> [r EXCEPT !.togo = @ - num, !.spare = IF num > 1 THEN <<>> ELSE <<Merged(r, 1)>>,
                           !.ctr = IF num > 1 THEN @ + 1 ELSE @],
           rows |-> SubSeq(<<Merged(r, 0), Merged(r, 1)>>, 1, num)]

merged_1v_upsample(r, room) ==
  [r |-> [r EXCEPT !.ctr = @ + 1], rows |-> <<Merged(r, 0)>>]

upsample(r, room) ==
  IF ~pic.merged THEN sep_upsample(r, room)
  ELSE IF pic.maxv = 2 THEN merged_2v_upsample(r, room) ELSE merged_1v_upsample(r, room)

(***************************************************************************)
(* Postprocessing (jdpostct.c): the upsampler alone, one-pass quantization *)
(* by strips, or two passes through an array of the whole picture.         *)
(***************************************************************************)
Strip == pic.maxv

post_process_1pass(r, room) ==
  upsample(r, IF room > Strip THEN Strip ELSE room)

\* Rows are stored and counted in the histogram, none is passed on.
Stored(u, n) ==
  [r |-> [u.r EXCEPT !.image = @ \o u.rows, !.counted = @ \o u.rows,
                     !.pstart = IF n + Len(u.rows) >= Strip THEN @ + Strip ELSE @,
                     !.pnext = IF n + Len(u.rows) >= Strip THEN 0 ELSE n + Len(u.rows)],
   rows |-> u.rows]

post_process_prepass(r) == Stored(upsample(r, Strip - r.pnext), r.pnext)

post_process_2pass(r, room) ==
  LET num == Least({Strip - r.pnext, room, pic.output_height - r.pstart})
      first == r.pstart + r.pnext
      full == r.pnext + num >= Strip
  IN [r |-> [r EXCEPT !.pstart = IF full THEN @ + Strip ELSE @,
                      !.pnext = IF full THEN 0 ELSE @ + num],
      rows |-> [i \in 1..num |-> IF first + i <= Len(r.image) THEN r.image[first + i] ELSE <<Unset>>]]

post_process_data(r, room) ==
  CASE r.mode = "pass_thru" /\ pic.quantize = "none" -> upsample(r, room)
    [] r.mode = "pass_thru" /\ pic.quantize # "none" -> post_process_1pass(r, room)
    [] r.mode = "save_and_pass" -> post_process_prepass(r)
    [] r.mode = "crank_dest" -> post_process_2pass(r, room)

(***************************************************************************)
(* The main controller: one call of process_data, with room for a number   *)
(* of rows.  ready says whether the coefficient controller has the next    *)
(* unit, when it is asked for it.                                          *)
(***************************************************************************)
Loaded(r) == IF r.full THEN r ELSE decompress_data(r)

UnitUsed(p) == IF p.r.ctr >= pic.m THEN [p EXCEPT !.r.full = FALSE, !.r.ctr = 0] ELSE p

process_data_simple_main(r, room, ready) ==
  IF ~r.full /\ ~ready THEN [r |-> r, rows |-> <<>>]
  ELSE UnitUsed(post_process_data(Loaded(r), room))

\* CTX_PREPARE_FOR_IMCU
Prepared(r) ==
  LET r1 == [r EXCEPT !.ctr = 0, !.avail = pic.m - 1, !.state = "process"]
  IN IF r.imcu = pic.total_iMCU_rows THEN set_bottom_pointers(r1) ELSE r1

\* CTX_PROCESS_IMCU
GroupsUsed(p) ==
  IF p.r.ctr < p.r.avail THEN p
  ELSE [p EXCEPT !.r.x = IF p.r.imcu = 1 THEN set_wraparound_pointers(@) ELSE @,
                 !.r.which = 1 - @, !.r.full = FALSE, !.r.ctr = pic.m + 1,
                 !.r.avail = pic.m + 2, !.r.state = "postponed"]

Processed(r, room) == GroupsUsed(post_process_data(r, room))

\* CTX_POSTPONED_ROW: after the row group that had to wait for its context.
Followed(rows, q) == [r |-> q.r, rows |-> rows \o q.rows]

PostponedUsed(p, room) ==
  IF p.r.ctr < p.r.avail THEN p
  ELSE IF Len(p.rows) >= room THEN [p EXCEPT !.r.state = "prepare"]
  ELSE Followed(p.rows, Processed(Prepared(p.r), room - Len(p.rows)))

InContext(r, room) ==
  CASE r.state = "process" -> Processed(r, room)
    [] r.state = "prepare" -> Processed(Prepared(r), room)
    [] r.state = "postponed" -> PostponedUsed(post_process_data(r, room), room)

process_data_context_main(r, room, ready) ==
  IF ~r.full /\ ~ready THEN [r |-> r, rows |-> <<>>] ELSE InContext(Loaded(r), room)

process_data(r, room, ready) ==
  CASE r.mode = "crank_dest" -> post_process_data(r, room)
    [] r.mode # "crank_dest" /\ pic.context -> process_data_context_main(r, room, ready)
    [] OTHER -> process_data_simple_main(r, room, ready)

\* start_pass of the main controller, the upsampler and the postprocessor.
StartPass(mode, r) ==
  LET fresh == [r EXCEPT !.mode = mode, !.pstart = 0, !.pnext = 0]
  IN IF mode = "crank_dest" THEN fresh
     ELSE [fresh EXCEPT !.x = IF pic.context THEN make_funny_pointers ELSE simple_pointers,
                        !.which = 0, !.state = "prepare", !.imcu = 0, !.full = FALSE, !.ctr = 0,
                        !.next = pic.maxv, !.togo = pic.output_height, !.spare = <<>>]

Blank ==
  [mode |-> "none", full |-> FALSE, ctr |-> 0, avail |-> 0, imcu |-> 0, which |-> 0,
   state |-> "prepare", x |-> <<>>, next |-> 0, togo |-> 0, color |-> <<>>, from |-> 0,
   spare |-> <<>>, pstart |-> 0, pnext |-> 0, image |-> <<>>, counted |-> <<>>, moved |-> TRUE,
   buffer |-> [c \in Comps |-> [k \in 0..pic.rgroup[c] * (pic.m + (IF pic.context THEN 2 ELSE 0)) - 1
                                  |-> Unset]]]

OutputInit ==
  /\ \E p \in Pictures : pic = Setup(p)
  /\ \A c \in DOMAIN pic.dct : pic.method[c] # "JERR_FRACT_SAMPLE_NOTIMPL"
  /\ s = StartPass(IF pic.quantize = "two" THEN "save_and_pass" ELSE "pass_thru", Blank)
  /\ done = <<>>

Called(p, ready) ==
  /\ s' = [p.r EXCEPT !.moved = p.rows # <<>> \/ (~ready /\ ~s.full)]
  /\ done' = done \o p.rows

\* output_pass_setup: the prepass runs by itself, with no room for rows.
Prescan ==
  /\ s.mode = "save_and_pass"
  /\ Len(done) < pic.output_height
  /\ \E ready \in BOOLEAN :
       Called(process_data(s, 0, ready), ready)
  /\ UNCHANGED pic

SecondPass ==
  /\ s.mode = "save_and_pass" /\ Len(done) >= pic.output_height
  /\ s' = StartPass("crank_dest", s) /\ done' = <<>>
  /\ UNCHANGED pic

ReadScanlines ==
  /\ s.mode \in {"pass_thru", "crank_dest"}
  /\ Len(done) < pic.output_height
  /\ \E room \in Requests, ready \in BOOLEAN :
       Called(process_data(s, room, ready), ready)
  /\ UNCHANGED pic

OutputDone == Len(done) = pic.output_height /\ s.mode # "save_and_pass" /\ UNCHANGED outputVars

OutputNext == Prescan \/ SecondPass \/ ReadScanlines \/ OutputDone
OutputSpec == OutputInit /\ [][OutputNext]_outputVars

------------------------------------------------------------------------------
\* The rows an output row is to be made of.
Ideal(c, n) ==
  LET last == pic.downsampled_height[c] - 1
      near == (n * pic.rgroup[c]) \div pic.maxv
      far == near + (IF n % 2 = 0 THEN -1 ELSE 1)
      Clamped(k) == IF k < 0 THEN 0 ELSE IF k > last THEN last ELSE k
  IN IF pic.method[c] = "h2v2_fancy" /\ ~pic.merged THEN <<near, Clamped(far)>> ELSE <<near>>

(***************************************************************************)
(* Row n of the output is made of the rows of the components that belong   *)
(* to it, and with context of the neighbour above or below it, or of the   *)
(* row itself at the edges of the picture, whatever numbers of rows the    *)
(* caller asks for and wherever the source of data runs dry.  (The two     *)
(* lists of pointers, the postponed row group, the spare row, the buffers  *)
(* that are not copied.)                                                   *)
(***************************************************************************)
RowsAreRight ==
  \A n \in DOMAIN done : \A c \in Comps : done[n][c] = Ideal(c, n - 1)

(***************************************************************************)
(* The statistics from which the colours are chosen have counted every row *)
(* of the picture once when the second pass begins, and the second pass    *)
(* finds the rows the first one stored (post_process_prepass).             *)
(***************************************************************************)
CountedOnce ==
  s.mode = "crank_dest" =>
    /\ Len(s.counted) = pic.output_height
    /\ \A n \in DOMAIN s.counted : \A c \in Comps : s.counted[n][c] = Ideal(c, n - 1)

(***************************************************************************)
(* A call that is not suspended by the source delivers at least one row:   *)
(* output_pass_setup takes a call without a row for a suspension ("No      *)
(* progress made, must suspend", jdapistd.c:122).                          *)
(***************************************************************************)
EveryCallMoves == s.moved

(* No counter of the controllers leaves its range, and no more rows are    *)
(* delivered than the picture has.                                         *)
OutputTypeOK ==
  /\ Len(done) <= pic.output_height
  /\ s.which \in 0..1 /\ s.state \in {"prepare", "process", "postponed"}
  /\ s.ctr \in 0..pic.m + 2 /\ s.imcu \in 0..pic.total_iMCU_rows
  /\ s.togo \in 0..pic.output_height /\ s.next \in 0..pic.maxv

(* Every row of the image is delivered once, in order, made of the right   *)
(* rows of the components, however many the caller takes at a time.        *)
RowsInOrder ==
  /\ OutputTypeOK
  /\ RowsAreRight
  /\ CountedOnce
  /\ EveryCallMoves
=============================================================================

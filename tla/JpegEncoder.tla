----------------------------- MODULE JpegEncoder -----------------------------
(***************************************************************************)
(* The compressor of libjpeg-turbo-1.3.0 above the entropy coder: the      *)
(* calls of the application (jcapimin.c, jcapistd.c, jctrans.c), the order *)
(* of the passes (jcmaster.c), the buffers of rows in front of the         *)
(* transform (jcmainct.c, jcprepct.c) and of coefficients behind it        *)
(* (jccoefct.c, jctrans.c).  The entropy coder may refuse a unit when the  *)
(* destination is full; the application then calls again.                  *)
(*                                                                         *)
(* A row of input is its number; a row of a component is the tuple of the  *)
(* input rows it was computed from; a block is the rows and the column it  *)
(* was computed from, its constant and its other coefficients apart.       *)
(*                                                                         *)
(* Bound: DCTSIZE is 2 here and 8 there; the modules use it as a count.    *)
(***************************************************************************)
EXTENDS JpegBasics, Integers, Sequences, FiniteSets

CONSTANTS Pictures, \* [h, w, samp, smooth, optimize, scans, input]; a scan is [comps, ss, ah]
          Lines,    \* numbers of lines in a call of jpeg_write_scanlines
          Refusals  \* after how many units the destination may be full

EncoderAssumption == Lines \subseteq Nat \ {0} /\ Refusals \subseteq Nat
ASSUME EncoderAssumption

VARIABLES pic, \* the parameters of the picture
          e,   \* the state of the compressor
          file \* what was written, for the properties

encoderVars == <<pic, e, file>>

DCTSIZE == 2
Enough == 1000 \* room for more units than a picture has
LargestFactor(k) == CHOOSE m \in 1..4 : (\E c \in DOMAIN pic.samp : pic.samp[c][k] = m)
                                        /\ \A c \in DOMAIN pic.samp : pic.samp[c][k] <= m

(***************************************************************************)
(* Dimensions: initial_setup and per_scan_setup of jcmaster.c.             *)
(***************************************************************************)
Components == DOMAIN pic.samp
MaxH == LargestFactor(1)
MaxV == LargestFactor(2)
V(c) == pic.samp[c][2]
width_in_blocks(c) == CeilDiv(pic.w * pic.samp[c][1], MaxH * DCTSIZE)
height_in_blocks(c) == CeilDiv(pic.h * V(c), MaxV * DCTSIZE)
total_iMCU_rows == CeilDiv(pic.h, MaxV * DCTSIZE)

\* select_scan_parameters: the components of scan k, counted from 0.
ScanComps(k) == {pic.scans[k + 1].comps[i] : i \in DOMAIN pic.scans[k + 1].comps}
Interleaved(k) == Cardinality(ScanComps(k)) > 1
TheComp(k) == CHOOSE c \in ScanComps(k) : TRUE
DcRefine(k) == pic.scans[k + 1].ss = 0 /\ pic.scans[k + 1].ah # 0

MCUs_per_row(k) == IF Interleaved(k) THEN CeilDiv(pic.w, MaxH * DCTSIZE) ELSE width_in_blocks(TheComp(k))
MCU_width(k, c) == IF Interleaved(k) THEN pic.samp[c][1] ELSE 1
MCU_height(k, c) == IF Interleaved(k) THEN V(c) ELSE 1
Remainder(n, d) == IF n % d = 0 THEN d ELSE n % d
last_col_width(k, c) == IF Interleaved(k) THEN Remainder(width_in_blocks(c), pic.samp[c][1]) ELSE 1
last_row_height(c) == Remainder(height_in_blocks(c), V(c))

\* start_iMCU_row
MCU_rows_per_iMCU_row(k, row) ==
  IF Interleaved(k) THEN 1
  ELSE IF row < total_iMCU_rows - 1 THEN V(TheComp(k)) ELSE last_row_height(TheComp(k))

(***************************************************************************)
(* Preprocessing (jcprepct.c): rows are collected in color until a row     *)
(* group can be downsampled into the main buffer.                          *)
(***************************************************************************)
\* Rows that a row of component c is made of, relative to the row group.
Smoothed(c) ==
  pic.smooth /\ (pic.samp[c] = <<MaxH, MaxV>> \/ (pic.samp[c][1] * 2 = MaxH /\ V(c) * 2 = MaxV))
need_context_rows == \E c \in Components : Smoothed(c)

\* With context, color is a ring of three row groups; the pointers around it repeat it.
Ring(i) == IF need_context_rows THEN i % (3 * MaxV) ELSE i
ColorRow(r, i) == r.color[Ring(i)]

Downsampled(r, c, start, j) ==
  LET n == MaxV \div V(c)
      first == IF Smoothed(c) THEN start + j * n - 1 ELSE start + j * n
  IN [i \in 1..(IF Smoothed(c) THEN n + 2 ELSE n) |-> ColorRow(r, first + i - 1)]

downsample(r, start) ==
  [r EXCEPT !.buffer = [c \in Components |-> [i \in DOMAIN @[c] |->
              IF i \div V(c) = r.rowgroup THEN Downsampled(r, c, start, i % V(c)) ELSE @[c][i]]],
            !.rowgroup = @ + 1]

\* color_convert of n input rows, the first of which is the given one.
ConvertRows(r, first, n) ==
  [r EXCEPT !.color = [i \in DOMAIN @ |-> IF i >= r.next /\ i < r.next + n
                                          THEN first + i - r.next ELSE @[i]],
            !.next = @ + n, !.togo = @ - n]

\* expand_bottom_edge on color, up to row limit.
ExpandColor(r, limit) ==
  [r EXCEPT !.color = [i \in DOMAIN @ |-> IF i >= r.next /\ i < limit THEN @[Ring(r.next - 1)] ELSE @[i]],
            !.next = limit]

\* expand_bottom_edge on the main buffer.
ExpandOutput(r) ==
  [r EXCEPT !.buffer = [c \in Components |-> [i \in DOMAIN @[c] |->
              IF i >= r.rowgroup * V(c) THEN @[c][r.rowgroup * V(c) - 1] ELSE @[c][i]]],
            !.rowgroup = DCTSIZE]

\* line is the number of the first of the lines of this call, i those already used.
FilledUp(r) == IF r.togo = 0 /\ r.next < MaxV THEN ExpandColor(r, MaxV) ELSE r
GroupDone(r) == IF r.next = MaxV THEN [downsample(r, 0) EXCEPT !.next = 0] ELSE r
RECURSIVE pre_process_data(_, _, _, _)
GroupsFollow(r, line, i, avail) ==
  IF r.togo = 0 /\ r.rowgroup < DCTSIZE THEN [r |-> ExpandOutput(r), i |-> i]
  ELSE pre_process_data(r, line, i, avail)
pre_process_data(r, line, i, avail) ==
  LET n == Least({MaxV - r.next, avail - i})
  IN IF i >= avail \/ r.rowgroup >= DCTSIZE THEN [r |-> r, i |-> i]
     ELSE GroupsFollow(GroupDone(FilledUp(ConvertRows(r, line + i, n))), line, i + n, avail)

\* The rows above the first row of the picture are copies of it.
AboveFirst(r) == [r EXCEPT !.color = [i \in DOMAIN @ |-> IF i >= 2 * MaxV THEN @[0] ELSE @[i]]]

WithRows(r, line, i, n) ==
  CASE n > 0 /\ r.togo = pic.h -> AboveFirst(ConvertRows(r, line + i, n))
    [] n > 0 /\ r.togo < pic.h -> ConvertRows(r, line + i, n)
    [] n = 0 /\ r.next < r.stop -> ExpandColor(r, r.stop)
    [] OTHER -> r
ContextGroupDone(r, next) ==
  IF r.next # r.stop THEN r
  ELSE [downsample(r, r.group) EXCEPT !.group = IF @ + MaxV >= 3 * MaxV THEN 0 ELSE @ + MaxV,
                                      !.next = next, !.stop = next + MaxV]
Wrapped(r) == ContextGroupDone(r, IF r.next >= 3 * MaxV THEN 0 ELSE r.next)
RECURSIVE pre_process_context(_, _, _, _)
pre_process_context(r, line, i, avail) ==
  LET n == IF i < avail THEN Least({r.stop - r.next, avail - i}) ELSE 0
  IN IF r.rowgroup >= DCTSIZE \/ (i >= avail /\ r.togo # 0) THEN [r |-> r, i |-> i]
     ELSE pre_process_context(Wrapped(WithRows(r, line, i, n)), line, i + n, avail)

Preprocess(r, line, i, avail) ==
  IF need_context_rows THEN pre_process_context(r, line, i, avail)
                       ELSE pre_process_data(r, line, i, avail)

(***************************************************************************)
(* The coefficient controllers.  A unit (MCU) maps <<component, row,       *)
(* column>> within the unit to a block.                                    *)
(***************************************************************************)
Computed(r, c, y, x) ==
  LET id == <<c, [i \in 1..DCTSIZE |-> r.buffer[c][y * DCTSIZE + i - 1]], x>> IN [dc |-> id, ac |-> id]
Dummy(b) == [dc |-> b.dc, ac |-> "zero"]

Places(k) == {<<c, y, x>> \in ScanComps(k) \X (0..3) \X (0..3) :
                y < MCU_height(k, c) /\ x < MCU_width(k, c)}

\* A dummy block has the constant of the block before it in the unit: in its own row, or
\* at the end of the last row that exists.
WithDummies(k, row, yoffset, col, Real(_, _, _)) ==
  [p \in Places(k) |->
     LET c == p[1]
         count == IF col < MCUs_per_row(k) - 1 THEN MCU_width(k, c) ELSE last_col_width(k, c)
         rows == IF row < total_iMCU_rows - 1 THEN MCU_height(k, c) ELSE last_row_height(c) - yoffset
     IN CASE p[2] < rows /\ p[3] < count -> Real(c, yoffset + p[2], col * MCU_width(k, c) + p[3])
          [] p[2] < rows /\ p[3] >= count ->
               Dummy(Real(c, yoffset + p[2], col * MCU_width(k, c) + count - 1))
          [] OTHER -> Dummy(Real(c, yoffset + rows - 1, col * MCU_width(k, c) + count - 1))]

\* One pass: from the main buffer straight to the entropy coder.
compress_data_unit(r, yoffset, col) ==
  LET Real(c, y, x) == Computed(r, c, y, x) IN WithDummies(r.scan, r.imcu, yoffset, col, Real)

\* The first of several passes: the blocks of this row of units, with dummy blocks.
compress_first_pass(r) ==
  LET wide(c) == width_in_blocks(c)
      padded(c) == CeilDiv(wide(c), pic.samp[c][1]) * pic.samp[c][1]
      rows(c) == IF r.imcu < total_iMCU_rows - 1 THEN V(c) ELSE last_row_height(c)
      InRow(c, y, x) == IF x < wide(c) THEN Computed(r, c, y, x) ELSE Dummy(Computed(r, c, y, wide(c) - 1))
      Stored(c, y, x) ==
        IF y < rows(c) THEN InRow(c, y, x)
        ELSE Dummy(InRow(c, rows(c) - 1, (x \div pic.samp[c][1]) * pic.samp[c][1] + pic.samp[c][1] - 1))
  IN [r EXCEPT !.whole = [c \in Components |->
        [p \in DOMAIN @[c] |-> IF p[1] \div V(c) = r.imcu THEN Stored(c, p[1] % V(c), p[2]) ELSE @[c][p]]]]

\* The other passes: from the arrays, which have their dummy blocks ...
compress_output_unit(r, yoffset, col) ==
  [p \in Places(r.scan) |->
     r.whole[p[1]][<<r.imcu * V(p[1]) + yoffset + p[2], col * MCU_width(r.scan, p[1]) + p[3]>>]]

\* ... except when they come from another file (jctrans.c).
transcode_unit(r, yoffset, col) ==
  LET Real(c, y, x) == r.whole[c][<<r.imcu * V(c) + y, x>>]
  IN WithDummies(r.scan, r.imcu, yoffset, col, Real)

Unit(r, yoffset, col) ==
  CASE r.mode = "pass_thru" -> compress_data_unit(r, yoffset, col)
    [] r.mode # "pass_thru" /\ pic.input = "coefs" -> transcode_unit(r, yoffset, col)
    [] OTHER -> compress_output_unit(r, yoffset, col)

\* mutant: after a refusal the row of units begins again.
compress_dataRestarts(r, room) ==
  LET per == MCUs_per_row(r.scan)
      total == MCU_rows_per_iMCU_row(r.scan, r.imcu) * per
      n == Least({total, room})
      units == [i \in 1..n |-> Unit(r, (i - 1) \div per, (i - 1) % per)]
  IN [full |-> n < total, units |-> units,
      r |-> IF n = total THEN [r EXCEPT !.imcu = @ + 1, !.unit = 0] ELSE r]

\* The units of this row, from where the last call stopped; at most room are accepted.
compress_data(r, room) ==
  LET per == MCUs_per_row(r.scan)
      total == MCU_rows_per_iMCU_row(r.scan, r.imcu) * per
      n == Least({total - r.unit, room})
      units == [i \in 1..n |-> Unit(r, (r.unit + i - 1) \div per, (r.unit + i - 1) % per)]
  IN [full |-> r.unit + n < total, units |-> units,
      r |-> IF r.unit + n = total THEN [r EXCEPT !.imcu = @ + 1, !.unit = 0]
                                  ELSE [r EXCEPT !.unit = @ + n]]

\* A row of units from the main buffer.  Where the units go depends on the pass.
CompressRow(r, room) == compress_data(IF r.mode = "save_and_pass" THEN compress_first_pass(r) ELSE r, room)

Write(r, units) ==
  IF r.gather THEN [r EXCEPT !.stats = @ \o units]
  ELSE [r EXCEPT !.out = @ \o [i \in DOMAIN units |-> [is |-> "MCU", unit |-> units[i]]]]

(***************************************************************************)
(* jcmainct.c: rows in, rows of units out, as far as the lines reach.      *)
(***************************************************************************)
\* The last line is handed back, so that the application calls again.
Suspended(r, i) ==
  IF r.suspended THEN [r |-> r, i |-> i] ELSE [r |-> [r EXCEPT !.suspended = TRUE], i |-> i - 1]

RECURSIVE process_data_simple_main(_, _, _, _, _)
\* A row of units was written, all of it or as much as there was room for.
RowWritten(w, full, line, i, avail, room) ==
  IF full THEN Suspended(w, i)
  ELSE process_data_simple_main([w EXCEPT !.suspended = FALSE, !.rowgroup = 0, !.cur = @ + 1],
                                line, i + (IF w.suspended THEN 1 ELSE 0), avail, room)
RowCompressed(c, line, i, avail, room) ==
  RowWritten(Write(c.r, c.units), c.full, line, i, avail, room - Len(c.units))
RowsReady(p, line, avail, room) ==
  IF p.r.rowgroup # DCTSIZE THEN p ELSE RowCompressed(CompressRow(p.r, room), line, p.i, avail, room)
process_data_simple_main(r, line, i, avail, room) ==
  IF r.cur >= total_iMCU_rows THEN [r |-> r, i |-> i]
  ELSE RowsReady(IF r.rowgroup < DCTSIZE THEN Preprocess(r, line, i, avail) ELSE [r |-> r, i |-> i],
                 line, avail, room)

(***************************************************************************)
(* The passes (jcmaster.c).                                                *)
(***************************************************************************)
TotalPasses == IF pic.optimize THEN 2 * Len(pic.scans) ELSE Len(pic.scans)
FirstPass == CASE pic.input # "coefs" -> "main_pass"
               [] pic.input = "coefs" /\ pic.optimize -> "huff_opt_pass"
               [] OTHER -> "output_pass"

Headers(r) ==
  [r EXCEPT !.out = @ \o (IF r.scan = 0 THEN <<[is |-> "SOF"]>> ELSE <<>>)
                      \o <<[is |-> "SOS", scan |-> r.scan, tables |-> r.tables]>>]

\* start_pass of the entropy coder, to count only.
Counting(r) == [r EXCEPT !.gather = TRUE, !.stats = <<>>]

StartCoef(r, mode) == [r EXCEPT !.mode = mode, !.imcu = 0, !.unit = 0]

\* mutant: the counting is left out for every scan of constants.
SkipsCountingZero(r) == pic.scans[r.scan + 1].ss = 0
\* A refinement of the constants needs no table: go on to the output at once.
SkipsCounting(r) == DcRefine(r.scan)

OutputPass(r) ==
  Headers(StartCoef([r EXCEPT !.gather = FALSE, !.startup = FALSE], "crank_dest"))

prepare_for_pass(r) ==
  CASE r.pass = "main_pass" ->
         StartCoef([r EXCEPT !.togo = pic.h, !.next = 0, !.group = 0, !.stop = 2 * MaxV,
                             !.gather = pic.optimize, !.stats = <<>>, !.startup = ~pic.optimize,
                             !.cur = 0, !.rowgroup = 0, !.suspended = FALSE],
                   IF TotalPasses > 1 THEN "save_and_pass" ELSE "pass_thru")
    [] r.pass = "huff_opt_pass" /\ ~SkipsCounting(r) ->
         StartCoef([Counting(r) EXCEPT !.startup = FALSE], "crank_dest")
    [] r.pass = "huff_opt_pass" /\ SkipsCounting(r) ->
         OutputPass([r EXCEPT !.pass = "output_pass", !.number = @ + 1, !.tables = -1])
    [] r.pass = "output_pass" -> OutputPass(r)

\* The tables made from the statistics are those of the scan that was counted.
finish_pass_master(r) ==
  LET r1 == IF r.gather THEN [r EXCEPT !.tables = r.scan, !.counted = r.stats] ELSE r
  IN CASE r.pass = "main_pass" ->
            [r1 EXCEPT !.pass = "output_pass", !.number = @ + 1,
                       !.scan = IF pic.optimize THEN @ ELSE @ + 1]
       [] r.pass = "huff_opt_pass" -> [r1 EXCEPT !.pass = "output_pass", !.number = @ + 1]
       [] r.pass = "output_pass" ->
            [r1 EXCEPT !.pass = IF pic.optimize THEN "huff_opt_pass" ELSE @,
                       !.scan = @ + 1, !.number = @ + 1]

\* is_last_pass, as set by the last prepare_for_pass.
is_last_pass(r) == r.number = TotalPasses - 1

(***************************************************************************)
(* The application.                                                        *)
(***************************************************************************)
Blank ==
  [state |-> "START", next_scanline |-> 0, pass |-> "main_pass", number |-> 0, scan |-> 0,
   startup |-> FALSE, mode |-> "none", imcu |-> 0, unit |-> 0, cur |-> 0, rowgroup |-> 0,
   suspended |-> FALSE, togo |-> 0, next |-> 0, group |-> 0, stop |-> 0,
   gather |-> FALSE, stats |-> <<>>, counted |-> <<>>, tables |-> -1, out |-> <<>>, last |-> FALSE,
   color |-> [i \in 0..(IF need_context_rows THEN 3 ELSE 1) * MaxV - 1 |-> -1],
   buffer |-> [c \in Components |-> [i \in 0..V(c) * DCTSIZE - 1 |-> <<-1>>]],
   whole |-> [c \in Components |->
     LET dims == (0..total_iMCU_rows * V(c) - 1)
                   \X (0..CeilDiv(width_in_blocks(c), pic.samp[c][1]) * pic.samp[c][1] - 1)
         id(p) == <<c, p>>
     IN [p \in dims |-> IF pic.input = "coefs" THEN [dc |-> id(p), ac |-> id(p)]
                                               ELSE [dc |-> "none", ac |-> "none"]]]]

EncoderInit == pic \in Pictures /\ e = Blank /\ file = <<>>

\* A call leaves what it wrote to the file in out; the properties read it from file.
Become(r) == e' = [r EXCEPT !.out = <<>>] /\ file' = file \o r.out /\ UNCHANGED pic
LastKnown(r) == [r EXCEPT !.last = is_last_pass(r)]
Prepared(r) == LastKnown(prepare_for_pass(r))

\* jpeg_start_compress, jpeg_write_coefficients
jpeg_start ==
  /\ e.state = "START"
  /\ LET r == [e EXCEPT !.pass = FirstPass]
     IN IF pic.input = "coefs" THEN Become([r EXCEPT !.state = "WRCOEFS"])
        ELSE Become([Prepared(r) EXCEPT !.state = IF pic.input = "raw" THEN "RAW_OK" ELSE "SCANNING"])

pass_startup(r) == IF r.startup THEN [Headers(r) EXCEPT !.startup = FALSE] ELSE r

LinesTaken(r, lines, room) ==
  process_data_simple_main(r, r.next_scanline, 0, Least({lines, pic.h - r.next_scanline}),
                           IF r.gather THEN Enough ELSE room)
LinesWritten(p) == Become([p.r EXCEPT !.next_scanline = @ + p.i])
jpeg_write_scanlines ==
  /\ e.state = "SCANNING" /\ e.next_scanline < pic.h
  /\ \E lines \in Lines, room \in Refusals \cup {Enough} : LinesWritten(LinesTaken(pass_startup(e), lines, room))

\* Rows of the components, already downsampled: a whole row of units, or none.
RawRows(r) ==
  LET first == r.next_scanline \div (MaxV * DCTSIZE)
  IN [r EXCEPT !.buffer = [c \in Components |-> [i \in DOMAIN @[c] |-> <<"raw", first * V(c) * DCTSIZE + i>>]]]
RawWritten(w, full) == Become(IF full THEN w ELSE [w EXCEPT !.next_scanline = @ + MaxV * DCTSIZE])
RawCompressed(c) == RawWritten(Write(c.r, c.units), c.full)
jpeg_write_raw_data ==
  /\ e.state = "RAW_OK" /\ e.next_scanline < pic.h
  /\ \E room \in Refusals \cup {Enough} :
       RawCompressed(CompressRow(RawRows(pass_startup(e)), IF e.gather THEN Enough ELSE room))

\* jpeg_finish_compress begins with the end of the main pass ...
jpeg_finish_compress ==
  /\ \/ e.state \in {"SCANNING", "RAW_OK"} /\ e.next_scanline >= pic.h
     \/ e.state = "WRCOEFS"
  /\ Become([(IF e.state = "WRCOEFS" THEN e ELSE finish_pass_master(e)) EXCEPT !.state = "FINISHING"])

\* ... goes through the passes that are left, in which the destination must not be full, ...
RECURSIVE RunPass(_, _)
PassRow(c, room) ==
  IF c.full THEN [Write(c.r, c.units) EXCEPT !.state = "JERR_CANT_SUSPEND"]
  ELSE RunPass(Write(c.r, c.units), room - Len(c.units))
RunPass(r, room) ==
  IF r.imcu >= total_iMCU_rows THEN finish_pass_master(r)
  ELSE PassRow(compress_data(r, IF r.gather THEN Enough ELSE room), room)

FinishPass ==
  /\ e.state = "FINISHING" /\ ~e.last
  /\ \E room \in Refusals \cup {Enough} : Become(RunPass(Prepared(e), room))

\* ... and writes the end of the file.
FinishFile ==
  /\ e.state = "FINISHING" /\ e.last
  /\ Become([e EXCEPT !.state = "DONE", !.out = <<[is |-> "EOI"]>>])

\* jpeg_abort, after which the object can be used again.
jpeg_abort ==
  /\ e.state \in {"DONE", "JERR_CANT_SUSPEND"}
  /\ e' = Blank /\ file' = <<>> /\ UNCHANGED pic

EncoderNext ==
  \/ jpeg_start \/ jpeg_write_scanlines \/ jpeg_write_raw_data \/ jpeg_finish_compress
  \/ FinishPass \/ FinishFile \/ jpeg_abort

EncoderSpec == EncoderInit /\ [][EncoderNext]_encoderVars

------------------------------------------------------------------------------
(***************************************************************************)
(* What the file has to contain.                                           *)
(***************************************************************************)
Clamp(n) == IF n < 0 THEN 0 ELSE IF n >= pic.h THEN pic.h - 1 ELSE n
RowGroups == total_iMCU_rows * DCTSIZE
\* Below the last row group of the picture the rows of the components are repeated.
LastGroup == CeilDiv(pic.h, MaxV) - 1

\* The input rows that row n of component c is computed from.
IdealRow(c, n) ==
  IF pic.input = "raw" THEN <<"raw", n>>
  ELSE LET k == MaxV \div V(c)
           last == (LastGroup + 1) * V(c) - 1
           m == IF ~need_context_rows /\ n > last THEN last ELSE n
           first == IF Smoothed(c) THEN m * k - 1 ELSE m * k
       IN [i \in 1..(IF Smoothed(c) THEN k + 2 ELSE k) |-> Clamp(first + i - 1)]

IdealBlock(c, y, x) ==
  LET id == IF pic.input = "coefs" THEN <<c, <<y, x>> >>
            ELSE <<c, [i \in 1..DCTSIZE |-> IdealRow(c, y * DCTSIZE + i - 1)], x>>
  IN [dc |-> id, ac |-> id]

IdealUnit(k, n) ==
  LET per == MCUs_per_row(k)
      col == n % per
      line == n \div per \* row of units of the scan
  IN [p \in Places(k) |->
        LET c == p[1]
            y == line * MCU_height(k, c) + p[2]
            x == col * MCU_width(k, c) + p[3]
            lastY == height_in_blocks(c) - 1
            lastX == width_in_blocks(c) - 1
        IN CASE y <= lastY /\ x <= lastX -> IdealBlock(c, y, x)
             [] y <= lastY /\ x > lastX -> Dummy(IdealBlock(c, y, lastX))
             [] OTHER -> Dummy(IdealBlock(c, lastY, Least({lastX, (col + 1) * MCU_width(k, c) - 1})))]

UnitsOf(k) ==
  MCUs_per_row(k) * (IF Interleaved(k) THEN total_iMCU_rows ELSE height_in_blocks(TheComp(k)))

RECURSIVE IdealFrom(_)
IdealFrom(k) ==
  IF k = Len(pic.scans) THEN <<[is |-> "EOI"]>>
  ELSE (IF k = 0 THEN <<[is |-> "SOF"]>> ELSE <<>>) \o <<[is |-> "SOS", scan |-> k]>> \o [n \in 1..UnitsOf(k) |-> [is |-> "MCU", unit |-> IdealUnit(k, n - 1)]]
         \o IdealFrom(k + 1)

Matches(x, y) == /\ x.is = y.is
                 /\ x.is = "SOS" => x.scan = y.scan
                 /\ x.is = "MCU" => x.unit = y.unit

(***************************************************************************)
(* The file is the frame header and, for every scan, its header and every  *)
(* unit of the picture once and in order, each block computed from the     *)
(* rows that belong to it, with the rows at the edges repeated and dummy   *)
(* blocks filled as their neighbours; whatever numbers of lines the        *)
(* application writes and wherever the destination was full.               *)
(***************************************************************************)
FileIsPicture ==
  LET ideal == IdealFrom(0) IN
  /\ Len(file) <= Len(ideal)
  /\ \A i \in DOMAIN file : Matches(file[i], ideal[i])
  /\ e.state = "DONE" => Len(file) = Len(ideal)

(***************************************************************************)
(* With optimized tables, the header of a scan carries tables made from    *)
(* the units of this very scan, all of them; only the refinement of the    *)
(* constants, which has no coded symbols, goes without.                    *)
(***************************************************************************)
TablesFitScan ==
  pic.optimize => \A i \in DOMAIN file : file[i].is = "SOS" =>
    (DcRefine(file[i].scan) \/ file[i].tables = file[i].scan)

(* The counts the tables of a scan are made from are those of all its      *)
(* units, each once, in the order in which they will be coded.             *)
StatisticsComplete ==
  e.tables >= 0 => e.counted = [n \in 1..UnitsOf(e.tables) |-> IdealUnit(e.tables, n - 1)]

(***************************************************************************)
(* A line is counted as written only when it has been taken over: while    *)
(* lines are in the buffers and no unit is pending, the application and    *)
(* the preprocessor agree on how many lines are left.                      *)
(***************************************************************************)
LinesAgree ==
  e.state = "SCANNING" => e.togo = pic.h - e.next_scanline - (IF e.suspended THEN 1 ELSE 0)

(* The counters of lines, row groups, rows of units, passes and scans stay *)
(* within the picture, also when the application writes too many lines.    *)
EncoderTypeOK ==
  /\ e.state \in {"START", "SCANNING", "RAW_OK", "WRCOEFS", "FINISHING", "DONE", "JERR_CANT_SUSPEND"}
  /\ e.rowgroup \in 0..DCTSIZE /\ e.imcu \in 0..total_iMCU_rows 
  /\ e.next_scanline \in 0..(IF pic.input = "raw" THEN total_iMCU_rows * MaxV * DCTSIZE ELSE pic.h)
  /\ e.togo \in 0..pic.h /\ e.number \in 0..TotalPasses /\ e.scan \in 0..Len(pic.scans)

(* The file is the picture, and application and compressor agree on what is*)
(* left to do, wherever the destination was full.                          *)
EncodedRight ==
  /\ EncoderTypeOK
  /\ FileIsPicture
  /\ LinesAgree

(* A scan is coded with the tables made for it, from all of its units      *)
(* (jcmaster.c:439-523).                                                   *)
TablesFit ==
  /\ TablesFitScan
  /\ StatisticsComplete
=============================================================================

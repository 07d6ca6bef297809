----------------------------- MODULE JpegDecoder -----------------------------
(***************************************************************************)
(* The decompressor of libjpeg-turbo behind its API: jdapimin.c,           *)
(* jdapistd.c, jdtrans.c, the input controller (jdinput.c), the master     *)
(* control (jdmaster.c) and the coefficient controller (jdcoefct.c).       *)
(*                                                                         *)
(* The input arrives piecemeal.  Any call that needs more than has arrived *)
(* returns "suspended" and must be repeated; an application in buffered-   *)
(* image mode displays the image once per scan while later scans arrive.   *)
(* Data units, markers and MCUs, stand for themselves: an MCU in the file  *)
(* is its position and scan, a decoded block the MCU it came from.  A unit *)
(* has arrived completely or not at all; what happens within one is in     *)
(* JpegHuffman.  Rows are iMCU rows; the main and postprocessing stages    *)
(* hand them on unchanged (JpegOutput has them).                           *)
(*                                                                         *)
(* A call that loops over consume_input is one step per iteration: `call`  *)
(* says which call is running.  The state of the decompressor is the       *)
(* record d, whose fields are those of jpeg_decompress_struct.             *)
(***************************************************************************)
EXTENDS Integers, Sequences

CONSTANTS Rows, Cols,  \* iMCU rows, MCUs in a row
          Files,       \* [multi, progressive : BOOLEAN, scans : Seq({"dc", "ac"}), cut : Nat]
          MostImages   \* bound: data streams decoded by one decompressor

ASSUME FilesAssumption ==
  /\ Rows \in Nat \ {0} /\ Cols \in Nat \ {0} /\ MostImages \in Nat
  /\ Files \subseteq [multi : BOOLEAN, progressive : BOOLEAN, scans : Seq({"dc", "ac"}), cut : Nat]

VARIABLES file,     \* the data stream being read
          arrived,  \* how many of its units the data source can deliver
          d,        \* the decompressor
          call,     \* the call in progress, "none" between calls
          out,      \* the rows the application got in this output pass
          images    \* data streams begun so far

decVars == <<file, arrived, d, call, out, images>>

-----------------------------------------------------------------------------
(* What a file consists of.  A file that was cut ends in the EOI marker    *)
(* that the data source makes up.                                          *)
ScanUnits == 1 + Rows * Cols
ScanUnit(n, k) ==
  IF k = 0 THEN [is |-> "SOS"]
  ELSE [is |-> "MCU", scan |-> n, row |-> (k - 1) \div Cols, col |-> (k - 1) % Cols]

Whole(f) ==
  IF f.scans = <<>> THEN <<[is |-> "SOI"]>>
  ELSE <<[is |-> "SOI"], [is |-> "SOF"]>> \o
       [i \in 1 .. Len(f.scans) * ScanUnits |->
          ScanUnit(1 + (i - 1) \div ScanUnits, (i - 1) % ScanUnits)]

fill_input_buffer(f) ==
  SubSeq(Whole(f), 1, Len(Whole(f)) - f.cut) \o <<[is |-> "EOI"]>>

Unit == fill_input_buffer(file)
Cell == [row : 0 .. Rows - 1, col : 0 .. Cols - 1]

(* Of all the MCUs of scans up to n the last one that has the place of c.  *)
FromFile(c, n) ==
  LET here == {i \in DOMAIN Unit : Unit[i].is = "MCU" /\ Unit[i].scan <= n
                                   /\ Unit[i].row = c.row /\ Unit[i].col = c.col}
  IN IF here = {} THEN 0 ELSE Unit[CHOOSE i \in here : \A j \in here : j <= i].scan

(***************************************************************************)
(* The input side: consume_input is a pointer to consume_markers or to the *)
(* consume_data method of the coefficient controller.                      *)
(***************************************************************************)
Created ==
  [global_state |-> "START", buffered_image |-> FALSE, two_pass |-> FALSE,
   smoothing |-> FALSE, colormap |-> FALSE, is_dummy_pass |-> FALSE, raw |-> FALSE,
   full_buffer |-> FALSE, inheaders |-> TRUE, eoi_reached |-> FALSE,
   has_multiple_scans |-> FALSE, saw_SOF |-> FALSE, consume |-> "markers", input_scan |-> 0,
   output_scan |-> 0, input_row |-> 0, output_row |-> 0, MCU_ctr |-> 0, output_line |-> 0,
   pos |-> 0, coefs |-> [c \in Cell |-> 0], saved |-> <<>>, ret |-> "ok"]

reset_input_controller(s) ==
  [s EXCEPT !.consume = "markers", !.has_multiple_scans = FALSE, !.eoi_reached = FALSE,
            !.inheaders = TRUE, !.input_scan = 0, !.saw_SOF = FALSE, !.pos = 0]

(* The coefficient arrays are pre-zeroed when they are realized, the MCU   *)
(* buffer of the one-pass mode before each MCU.                            *)
start_input_pass(s) ==
  [s EXCEPT !.input_row = 0, !.MCU_ctr = 0, !.consume = IF s.full_buffer THEN "data" ELSE "dummy"]

finish_input_pass(s) == [s EXCEPT !.consume = "markers"]

(* The pool of the image is freed, the rest stays as it was. *)
jpeg_abort(s) == [s EXCEPT !.global_state = "START", !.coefs = [c \in Cell |-> 0], !.saved = <<>>]

\* mutant: the number of the scan to be shown stays higher than any in the file
AtEOIUnclamped(s) == [s EXCEPT !.eoi_reached = TRUE, !.ret = "EOI"]

AtEOI(s) ==
  IF s.inheaders /\ s.saw_SOF THEN [s EXCEPT !.eoi_reached = TRUE, !.ret = "error"]
  ELSE [s EXCEPT !.eoi_reached = TRUE, !.ret = "EOI",
                 !.output_scan = IF ~s.inheaders /\ @ > s.input_scan THEN s.input_scan ELSE @]

AtSOS(s) ==
  IF s.inheaders
  THEN [s EXCEPT !.inheaders = FALSE, !.has_multiple_scans = file.multi, !.ret = "SOS"]
  ELSE IF ~s.has_multiple_scans THEN [s EXCEPT !.ret = "error"]
  ELSE [start_input_pass(s) EXCEPT !.ret = "SOS"]

Passed(s, p) ==
  [s EXCEPT !.pos = p, !.saw_SOF = @ \/ \E i \in s.pos + 1 .. p : Unit[i].is = "SOF"]

MarkerRead(s, p) ==
  IF Unit[p].is = "EOI" THEN AtEOI(Passed(s, p))
  ELSE AtSOS([Passed(s, p) EXCEPT !.input_scan = @ + 1])

consume_markers(s) ==
  IF s.eoi_reached THEN [s EXCEPT !.ret = "EOI"]
  ELSE LET ends == {i \in s.pos + 1 .. arrived : Unit[i].is \in {"SOS", "EOI"}}
       IN IF ends = {} THEN [Passed(s, arrived) EXCEPT !.ret = "suspended"]
          ELSE MarkerRead(s, CHOOSE i \in ends : \A j \in ends : i <= j)

-----------------------------------------------------------------------------
(* decode_mcu: an MCU that should be there and is not, because a marker    *)
(* comes first, leaves the block as it is.                                 *)
decode_mcu(s) ==
  LET next == Unit[s.pos + 1]
      here == [row |-> s.input_row, col |-> s.MCU_ctr]
      base == IF s.full_buffer THEN s.coefs ELSE [s.coefs EXCEPT ![here] = 0]
  IN IF next.is = "MCU"
     THEN [s EXCEPT !.pos = @ + 1,
                    !.coefs = [base EXCEPT ![here] =
                                 IF next.row = here.row /\ next.col = here.col THEN next.scan
                                 ELSE -1]]
     ELSE [s EXCEPT !.coefs = base]

RowDone(s) ==
  IF s.input_row + 1 < Rows
  THEN [s EXCEPT !.MCU_ctr = 0, !.input_row = @ + 1, !.ret = "row"]
  ELSE [finish_input_pass(s) EXCEPT !.MCU_ctr = 0, !.input_row = @ + 1, !.ret = "scan"]

MCUDone(s) ==
  IF s.MCU_ctr + 1 < Cols THEN [s EXCEPT !.MCU_ctr = @ + 1, !.ret = "mcu"] ELSE RowDone(s)

(* One MCU of consume_data or decompress_onepass; the loop over the row is *)
(* in the caller here, with MCU_ctr.                                       *)
consume_data(s) ==
  IF s.pos = arrived THEN [s EXCEPT !.ret = "suspended"]
  ELSE MCUDone(decode_mcu(s))

dummy_consume_data(s) == [s EXCEPT !.ret = "suspended"]

consume_input(s) ==
  CASE s.consume = "markers" -> consume_markers(s)
    [] s.consume = "data" -> consume_data(s)
    [] s.consume = "dummy" -> dummy_consume_data(s)

Stuck(s) == s.ret \in {"suspended", "error"}

(***************************************************************************)
(* The output side.                                                        *)
(***************************************************************************)
\* mutant: a row is put out while its scan is still arriving
decompress_data_waitsNot(s) ==
  \/ s.input_scan < s.output_scan
  \/ s.input_scan = s.output_scan /\ s.input_row < s.output_row

(* The input is behind: more must be consumed before the row can be shown. *)
(* Smoothing also looks at the row below.                                  *)
decompress_data_waits(s) ==
  \/ s.input_scan < s.output_scan
  \/ s.input_scan = s.output_scan /\ s.input_row <= s.output_row

\* mutant: smoothing waits for the row to be shown only
smooth_data_waitsRow(s) ==
  /\ s.input_scan <= s.output_scan /\ ~s.eoi_reached
  /\ ~(s.input_scan = s.output_scan /\ s.input_row > s.output_row)

smooth_data_waits(s) ==
  /\ s.input_scan <= s.output_scan /\ ~s.eoi_reached
  /\ ~(/\ s.input_scan = s.output_scan
       /\ s.input_row > s.output_row + IF file.scans[s.input_scan] = "dc" THEN 1 ELSE 0)

decompress_waits(s) ==
  IF s.smoothing THEN smooth_data_waits(s) ELSE decompress_data_waits(s)

RowOf(s, r) == [col \in 0 .. Cols - 1 |-> s.coefs[[row |-> r, col |-> col]]]

(* In the second pass of a two-pass quantization the rows come from the    *)
(* buffer of the postprocessing controller.                                *)
Emitted(s, cranking) ==
  LET row == IF cranking THEN s.saved[s.output_line + 1] ELSE RowOf(s, s.output_row) IN
  [s EXCEPT !.output_line = @ + 1, !.output_row = IF cranking THEN @ ELSE @ + 1,
            !.saved = IF s.is_dummy_pass THEN Append(@, row) ELSE @, !.ret = "row"]

(* Cranking stays on until the next prepare_for_output_pass that is none.  *)
prepare_for_output_pass(s) ==
  IF s.is_dummy_pass THEN [s EXCEPT !.is_dummy_pass = FALSE]
  ELSE [s EXCEPT !.is_dummy_pass = s.two_pass /\ ~s.colormap, !.output_row = 0, !.saved = <<>>]

finish_output_pass(s) == [s EXCEPT !.colormap = s.two_pass]

Cranking(s) == ~s.is_dummy_pass /\ s.saved # <<>>

jinit_master_decompress(s, buffered, quantize, raw) ==
  start_input_pass(
    [s EXCEPT !.buffered_image = buffered, !.two_pass = quantize, !.raw = raw,
              !.is_dummy_pass = FALSE, !.full_buffer = s.has_multiple_scans \/ buffered,
              !.coefs = [c \in Cell |-> 0], !.saved = <<>>])

-----------------------------------------------------------------------------
DecoderInit ==
  /\ file \in Files /\ arrived = 0 /\ d = Created /\ call = "none" /\ out = <<>> /\ images = 0

Idle == call = "none" /\ d.ret # "error"
Return(s) == call' = "none" /\ d' = s
Go(s) == call' = call /\ d' = s

Deliver ==
  /\ arrived < Len(Unit) /\ arrived' = arrived + 1
  /\ UNCHANGED <<file, d, call, out, images>>

(* jpeg_read_header or jpeg_consume_input on a new data stream: nothing of *)
(* it has arrived yet.                                                     *)
BeginFile ==
  /\ Idle /\ d.global_state = "START" /\ images < MostImages
  /\ file' \in Files /\ arrived' = 0 /\ images' = images + 1 /\ out' = <<>>
  /\ Return([reset_input_controller(d) EXCEPT !.global_state = "INHEADER", !.ret = "suspended"])

default_decompress_parms(s) ==
  [s EXCEPT !.global_state = "READY", !.buffered_image = FALSE, !.colormap = FALSE]

HeaderRead(s) == IF s.ret = "SOS" THEN default_decompress_parms(s) ELSE s

TablesOnly(s, require_image) ==
  IF s.ret # "EOI" THEN s
  ELSE IF require_image THEN [s EXCEPT !.ret = "error"]
  ELSE [jpeg_abort(s) EXCEPT !.ret = "tables"]

jpeg_read_header ==
  /\ Idle /\ d.global_state = "INHEADER"
  /\ \E require_image \in BOOLEAN :
       Return(TablesOnly(HeaderRead(consume_markers(d)), require_image))
  /\ UNCHANGED <<file, arrived, out, images>>

jpeg_consume_input ==
  /\ Idle /\ d.global_state \notin {"START", "RDCOEFS"}
  /\ Return(CASE d.global_state = "INHEADER" -> HeaderRead(consume_markers(d))
              [] d.global_state = "READY" -> [d EXCEPT !.ret = "SOS"]
              [] OTHER -> consume_input(d))
  /\ UNCHANGED <<file, arrived, out, images>>

jpeg_start_decompress ==
  /\ Idle
  /\ \/ /\ d.global_state = "READY"
        /\ \E buffered, quantize, raw \in BOOLEAN :
             LET s == jinit_master_decompress(d, buffered, quantize, raw) IN
             /\ ~(quantize /\ raw)
             /\ IF buffered THEN Return([s EXCEPT !.global_state = "BUFIMAGE", !.ret = "ok"])
                ELSE call' = "start_decompress" /\ d' = [s EXCEPT !.global_state = "PRELOAD"]
     \/ /\ d.global_state \in {"PRELOAD", "PRESCAN"} /\ ~d.buffered_image
        /\ call' = "start_decompress" /\ d' = d
  /\ UNCHANGED <<file, arrived, out, images>>

(* The loop of jpeg_start_decompress over a file of several scans.         *)
Absorbed(s) ==
  CASE Stuck(s) -> Return(s)
    [] s.ret = "EOI" -> Go([s EXCEPT !.output_scan = s.input_scan, !.global_state = "PREPARE"])
    [] OTHER -> Go(s)

Preload ==
  /\ call = "start_decompress" /\ d.global_state = "PRELOAD"
  /\ Absorbed(IF d.has_multiple_scans THEN consume_input(d) ELSE [d EXCEPT !.ret = "EOI"])
  /\ UNCHANGED <<file, arrived, out, images>>

(* An application that is told to wait asks for the same scan again.       *)
jpeg_start_output ==
  /\ Idle /\ d.buffered_image
  /\ \E scan_number \in 0 .. Len(file.scans) + 1 :
       LET n == IF scan_number <= 0 THEN 1 ELSE scan_number
           m == IF d.eoi_reached /\ n > d.input_scan THEN d.input_scan ELSE n
       IN \/ /\ d.global_state = "BUFIMAGE"
             /\ d' = [d EXCEPT !.output_scan = m, !.global_state = "PREPARE"]
          \/ /\ d.global_state = "PRESCAN" /\ scan_number = d.output_scan
             /\ d' = [d EXCEPT !.output_scan = m]
  /\ call' = "start_output"
  /\ UNCHANGED <<file, arrived, out, images>>

-----------------------------------------------------------------------------
(* Towards one row of output: a step of the loop in decompress_data or     *)
(* decompress_onepass, or the row itself.                                  *)
EmittedRow(s) == IF s.ret \in {"row", "scan"} THEN Emitted(s, FALSE) ELSE s
decompress_onepass(s) == EmittedRow(consume_data(s))

GoesOn(s) == IF Stuck(s) THEN s ELSE [s EXCEPT !.ret = "more"]

main_process_data(s) ==
  IF Cranking(s) THEN Emitted(s, TRUE)
  ELSE IF ~s.full_buffer THEN decompress_onepass(s)
  ELSE IF ~decompress_waits(s) THEN Emitted(s, FALSE)
  ELSE GoesOn(consume_input(s))

(* output_pass_setup: smoothing_ok looks at what is known of each          *)
(* component.  Anything may come of it for a progressive file of which a   *)
(* DC scan has begun.                                                      *)
PreparePass ==
  /\ call \in {"start_decompress", "start_output"} /\ d.global_state = "PREPARE"
  /\ \E smoothing_ok \in BOOLEAN :
       /\ smoothing_ok => /\ file.progressive /\ d.full_buffer
                          /\ \E n \in 1 .. d.input_scan : file.scans[n] = "dc"
       /\ Go([prepare_for_output_pass(d) EXCEPT !.output_line = 0, !.global_state = "PRESCAN",
                                                !.smoothing = smoothing_ok])
  /\ out' = <<>>
  /\ UNCHANGED <<file, arrived, images>>

Continue(s) == IF Stuck(s) THEN Return(s) ELSE Go(s)

DummyPass ==
  /\ call \in {"start_decompress", "start_output"}
  /\ d.global_state = "PRESCAN" /\ d.is_dummy_pass
  /\ IF d.output_line < Rows
     THEN Continue(main_process_data(d))
     ELSE Go([prepare_for_output_pass(finish_output_pass(d)) EXCEPT !.output_line = 0])
  /\ UNCHANGED <<file, arrived, out, images>>

PassReady ==
  /\ call \in {"start_decompress", "start_output"}
  /\ d.global_state = "PRESCAN" /\ ~d.is_dummy_pass
  /\ Return([d EXCEPT !.global_state = IF d.raw THEN "RAW_OK" ELSE "SCANNING", !.ret = "ok"])
  /\ UNCHANGED <<file, arrived, out, images>>

Scanning == d.global_state \in {"SCANNING", "RAW_OK"}

jpeg_read_scanlines ==
  /\ Idle /\ Scanning /\ d.output_line < Rows
  /\ call' = "read_scanlines"
  /\ UNCHANGED <<file, arrived, d, out, images>>

RowRead(s) ==
  /\ IF s.output_line > d.output_line \/ Stuck(s) THEN Return(s) ELSE Go(s)
  /\ out' = IF s.output_line = d.output_line THEN out
            ELSE Append(out, IF Cranking(d) THEN d.saved[d.output_line + 1]
                             ELSE RowOf(s, d.output_row))

ReadRow ==
  /\ call = "read_scanlines"
  /\ RowRead(main_process_data(d))
  /\ UNCHANGED <<file, arrived, images>>

jpeg_finish_output ==
  /\ Idle
  /\ \/ Scanning /\ d.buffered_image
        /\ d' = [finish_output_pass(d) EXCEPT !.global_state = "BUFPOST"]
     \/ d.global_state = "BUFPOST" /\ d' = d
  /\ call' = "finish_output"
  /\ UNCHANGED <<file, arrived, out, images>>

FinishOutput ==
  /\ call = "finish_output"
  /\ IF d.input_scan <= d.output_scan /\ ~d.eoi_reached
     THEN Continue(consume_input(d))
     ELSE Return([d EXCEPT !.global_state = "BUFIMAGE", !.ret = "ok"])
  /\ UNCHANGED <<file, arrived, out, images>>

jpeg_finish_decompress ==
  /\ Idle
  /\ \/ Scanning /\ ~d.buffered_image /\ d.output_line = Rows
        /\ d' = [finish_output_pass(d) EXCEPT !.global_state = "STOPPING"]
     \/ d.global_state = "BUFIMAGE" /\ d' = [d EXCEPT !.global_state = "STOPPING"]
     \/ d.global_state = "STOPPING" /\ d' = d
  /\ call' = "finish_decompress"
  /\ UNCHANGED <<file, arrived, out, images>>

FinishDecompress ==
  /\ call = "finish_decompress"
  /\ IF d.eoi_reached THEN Return([jpeg_abort(d) EXCEPT !.ret = "done"])
     ELSE Continue(consume_input(d))
  /\ UNCHANGED <<file, arrived, out, images>>

jpeg_read_coefficients ==
  /\ Idle
  /\ \/ d.global_state = "READY"
        /\ d' = [start_input_pass([d EXCEPT !.full_buffer = TRUE, !.coefs = [c \in Cell |-> 0]])
                    EXCEPT !.buffered_image = TRUE, !.global_state = "RDCOEFS"]
     \/ d.global_state = "RDCOEFS" /\ d' = d
  /\ call' = "read_coefficients"
  /\ UNCHANGED <<file, arrived, out, images>>

CoefficientsRead(s) ==
  CASE Stuck(s) -> Return(s)
    [] s.ret = "EOI" -> Return([s EXCEPT !.global_state = "STOPPING", !.ret = "coefs"])
    [] OTHER -> Go(s)

ReadCoefficients ==
  /\ call = "read_coefficients"
  /\ CoefficientsRead(consume_input(d))
  /\ UNCHANGED <<file, arrived, out, images>>

jpeg_abort_decompress ==
  /\ call = "none" /\ d.global_state # "START"
  /\ Return([jpeg_abort(d) EXCEPT !.ret = "ok"])
  /\ UNCHANGED <<file, arrived, out, images>>

-----------------------------------------------------------------------------
Running ==
  Preload \/ PreparePass \/ DummyPass \/ PassReady \/ ReadRow \/ FinishOutput
    \/ FinishDecompress \/ ReadCoefficients

DecoderNext ==
  \/ Deliver \/ BeginFile \/ jpeg_read_header \/ jpeg_consume_input
  \/ jpeg_start_decompress \/ jpeg_start_output \/ jpeg_read_scanlines
  \/ jpeg_finish_output \/ jpeg_finish_decompress \/ jpeg_read_coefficients
  \/ jpeg_abort_decompress \/ Running

DecoderSpec == DecoderInit /\ [][DecoderNext]_decVars /\ WF_decVars(Running)

-----------------------------------------------------------------------------
(* TYPE INVARIANT.  The counters stay within the image and the file; what  *)
(* is in the coefficient buffer came from a scan that has begun.           *)
DecTypeOK ==
  /\ arrived \in 0 .. Len(Unit) /\ d.pos \in 0 .. arrived
  /\ d.input_row \in 0 .. Rows /\ d.MCU_ctr \in 0 .. Cols - 1
  /\ d.output_row \in 0 .. Rows /\ d.output_line \in 0 .. Rows
  /\ d.input_scan \in 0 .. Len(file.scans)
  /\ d.consume \in {"markers", "data", "dummy"}
  /\ d.global_state \in {"START", "INHEADER", "READY", "PRELOAD", "PREPARE", "PRESCAN", "SCANNING",
                         "RAW_OK", "BUFIMAGE", "BUFPOST", "RDCOEFS", "STOPPING"}

(* Every row handed to the application is a row of the image in its place  *)
(* with all its MCUs where they belong, decoded at least up to the scan    *)
(* that was asked for; without buffered-image mode it is the last scan,    *)
(* wherever the input paused and whether or not the rows took the detour   *)
(* over the buffer of the two-pass quantizer.                              *)
RowsAreImage ==
  d.global_state \in {"SCANNING", "RAW_OK"} =>
    /\ Len(out) = d.output_line
    /\ \A i \in DOMAIN out, col \in 0 .. Cols - 1 :
         LET c == [row |-> i - 1, col |-> col] IN
         /\ out[i][col] >= FromFile(c, d.output_scan)
         /\ out[i][col] \in {0} \cup {FromFile(c, n) : n \in 1 .. d.input_scan}
         /\ ~d.buffered_image => out[i][col] = FromFile(c, IF file.multi THEN Len(file.scans) ELSE 1)

(* jpeg_read_coefficients returns the whole file, as its last scan left it.*)
CoefficientsComplete ==
  d.ret = "coefs" => \A c \in Cell : d.coefs[c] = FromFile(c, Len(file.scans))

(* Smoothing predicts from the row below: its DC values must have arrived  *)
(* when a row is put out (comment at jdcoefct.c:494-498).                  *)
SmoothedFromKnown ==
  [][\A r \in 0 .. Rows - 2 :
       (/\ d.smoothing /\ ~Cranking(d) /\ d.output_row = r /\ d'.output_row = r + 1)
       => \A col \in 0 .. Cols - 1 : LET c == [row |-> r + 1, col |-> col] IN
            d.coefs[c] >= FromFile(c, 1)]_decVars

(* A call says "suspended" only when it has used up all that had arrived:  *)
(* an application that waits for more input never waits in vain.  (Except  *)
(* while a one-pass decompressor decodes rows, when consume_input has      *)
(* nothing to do.)                                                         *)
SuspendedStarved ==
  [][(d' # d /\ call' = "none" /\ d'.ret = "suspended" /\ d.global_state # "START")
     => d'.pos = arrived \/ d'.consume = "dummy"]_decVars

(* No call runs for ever: a scan that the file does not have is not waited *)
(* for, before or during its output.                                       *)
CallReturns == call # "none" ~> call = "none"

(* Whatever the order of the calls and of the arriving data, the rows that *)
(* come out are the image, as good as the file has it by then.             *)
DecodedRight ==
  /\ DecTypeOK
  /\ RowsAreImage
  /\ CoefficientsComplete

(* The decompressor smooths only by what it has, and suspends only when the*)
(* data has run out (jdcoefct.c:411-480, jdapimin.c:296-331).              *)
StepsJustified ==
  /\ SmoothedFromKnown
  /\ SuspendedStarved
=============================================================================

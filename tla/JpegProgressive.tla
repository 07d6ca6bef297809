--------------------------- MODULE JpegProgressive ---------------------------
(***************************************************************************)
(* Progressive JPEG in libjpeg-turbo-1.3.0: how the scans of a script are  *)
(* coded (jcphuff.c) and how they are decoded (jdphuff.c), by a decoder    *)
(* that starts a unit over when the data runs out in its middle.           *)
(*                                                                         *)
(* A coded scan is a sequence of items: symbols <<run, size>>, bits that   *)
(* were emitted together, restart markers and the marker of what follows;  *)
(* the Huffman code of a symbol is another module's.  A scan of some cases *)
(* comes with the end of one of its segments cut off; what is read there   *)
(* are zeros.  After such a scan nothing is decoded any more, since later  *)
(* scans would refine what did not arrive.                                 *)
(*                                                                         *)
(* Bounds, each for a number of the code: a run is less than PhuffRunMax   *)
(* = 3 (16), restart markers have RestartNumbers = 2 names (8) and         *)
(* MAX_CORR_BITS is 8 (1000).                                              *)
(***************************************************************************)
EXTENDS JpegScripts, JpegBasics, FiniteSets

CONSTANTS Cases,       \* [n, script, interval, image] to be coded
          Cuttable,    \* those of which a scan may be cut
          Suspensions  \* how often a unit may be started over

VARIABLES p, \* the picture, its script, and the decoder
          coefs \* the coefficients decoded so far: by component and block

progVars == <<p, coefs>>

PhuffRunMax == 3
MAX_CORR_BITS == 8
MAX_EOBRUN == 2^(PhuffRunMax - 1) - 1

(***************************************************************************)
(* Coding (jcphuff.c).  x is the state of the coder, out what it emitted;  *)
(* when it only counts, out holds the symbols it counted.                  *)
(***************************************************************************)
Symbol(x, run, size) == [x EXCEPT !.out = Append(@, [is |-> "symbol", run |-> run, size |-> size])]
emit_bits(x, v, n) ==
  IF x.gather \/ n = 0 THEN x ELSE [x EXCEPT !.out = Append(@, [is |-> "bits", v |-> v % 2^n, n |-> n])]
RECURSIVE emit_buffered_bits(_, _)
emit_buffered_bits(x, bits) ==
  IF bits = <<>> THEN x ELSE emit_buffered_bits(emit_bits(x, Head(bits), 1), Tail(bits))

emit_eobrun(x) ==
  IF x.EOBRUN = 0 THEN x
  ELSE LET n == NBits(x.EOBRUN) - 1
       IN [emit_buffered_bits(emit_bits(Symbol(x, n, 0), x.EOBRUN, n), x.BE) EXCEPT !.EOBRUN = 0, !.BE = <<>>]

emit_restart_phuff(x) ==
  LET y == emit_eobrun(x)
      z == IF x.gather THEN y ELSE [y EXCEPT !.out = Append(@, [is |-> "RST", num |-> x.num])]
  IN [z EXCEPT !.last_dc = [c \in DOMAIN @ |-> 0], !.EOBRUN = 0, !.BE = <<>>]

\* The count of units to the next marker, as each encode_mcu begins and ends with it.
BeginUnit(x) == IF x.interval # 0 /\ x.togo = 0 THEN emit_restart_phuff(x) ELSE x
EndUnit(x) ==
  IF x.interval = 0 THEN x
  ELSE IF x.togo = 0 THEN [x EXCEPT !.togo = x.interval - 1, !.num = (@ + 1) % RestartNumbers]
  ELSE [x EXCEPT !.togo = @ - 1]

\* The number coded in its own bits: a negative one is sent as one less.
Coded(v) == IF v < 0 THEN v - 1 ELSE v

RECURSIVE encode_mcu_DC_first(_, _, _)
encode_mcu_DC_first(x, s, unit) ==
  IF unit = <<>> THEN x
  ELSE LET c == Head(unit).comp
           v == Head(unit).block[0] \div 2^s.Al
           d == v - x.last_dc[c]
           n == NBits(Abs(d))
           y == emit_bits(Symbol([x EXCEPT !.last_dc[c] = v], 0, n), Coded(d), n)
       IN encode_mcu_DC_first(y, s, Tail(unit))

RECURSIVE encode_mcu_DC_refine(_, _, _)
encode_mcu_DC_refine(x, s, unit) ==
  IF unit = <<>> THEN x
  ELSE encode_mcu_DC_refine(emit_bits(x, Head(unit).block[0] \div 2^s.Al, 1), s, Tail(unit))

\* As many runs of zeros as are longer than a symbol can tell.
RECURSIVE LongRuns(_, _)
LongRuns(x, r) == IF r < PhuffRunMax THEN x ELSE LongRuns(Symbol(x, PhuffRunMax - 1, 0), r - PhuffRunMax)

RECURSIVE FirstFrom(_, _, _, _, _)
FirstFrom(x, s, block, k, r) ==
  IF k > s.Se
  THEN LET y == [x EXCEPT !.EOBRUN = @ + 1]
       IN IF r = 0 THEN x ELSE IF y.EOBRUN = MAX_EOBRUN THEN emit_eobrun(y) ELSE y
  ELSE LET a == Abs(block[k]) \div 2^s.Al
           n == NBits(a)
           y == Symbol(LongRuns(emit_eobrun(x), r), r % PhuffRunMax, n)
       IN IF a = 0 THEN FirstFrom(x, s, block, k + 1, r + 1)
          ELSE FirstFrom(emit_bits(y, IF block[k] < 0 THEN -a - 1 ELSE a, n), s, block, k + 1, 0)
encode_mcu_AC_first(x, s, unit) == FirstFrom(x, s, unit[1].block, s.Ss, 0)

\* Whether a run ends, since its bits would be too many for the buffer.
RunEnds(x) == x.EOBRUN = MAX_EOBRUN \/ Len(x.BE) > MAX_CORR_BITS - PhuffSize2 + 1

\* BR holds the bits of the coefficients that were not zero before, since the last symbol.
RECURSIVE RefineFrom(_, _, _, _, _, _, _)
RefineFrom(x, s, block, EOB, k, r, BR) ==
  LET used == [x EXCEPT !.most = IF Len(x.BE) + Len(BR) > @ THEN Len(x.BE) + Len(BR) ELSE @] IN
  IF k > s.Se
  THEN LET y == [used EXCEPT !.EOBRUN = @ + 1, !.BE = @ \o BR]
       IN IF r = 0 /\ BR = <<>> THEN used ELSE IF RunEnds(y) THEN emit_eobrun(y) ELSE y
  ELSE LET a == Abs(block[k]) \div 2^s.Al
           long == r >= PhuffRunMax /\ k <= EOB
           y == IF long THEN emit_buffered_bits(Symbol(emit_eobrun(used), PhuffRunMax - 1, 0), BR) ELSE used
           z == IF long THEN LongRuns(y, r - PhuffRunMax) ELSE y
           r1 == IF long THEN r % PhuffRunMax ELSE r
           BR1 == IF long THEN <<>> ELSE BR
           new == emit_bits(Symbol(emit_eobrun(z), r1, 1), IF block[k] < 0 THEN 0 ELSE 1, 1)
       IN CASE a = 0 -> RefineFrom(used, s, block, EOB, k + 1, r + 1, BR)
            [] a > 1 -> RefineFrom(z, s, block, EOB, k + 1, r1, Append(BR1, a % 2))
            [] a = 1 -> RefineFrom(emit_buffered_bits(new, BR1), s, block, EOB, k + 1, 0, <<>>)
encode_mcu_AC_refine(x, s, unit) ==
  LET block == unit[1].block
      ones == {k \in Band(s) : Abs(block[k]) \div 2^s.Al = 1}
      EOB == IF ones = {} THEN 0 ELSE CHOOSE k \in ones : \A j \in ones : j <= k
  IN RefineFrom(x, s, block, EOB, s.Ss, 0, <<>>)

encode_mcu(x, s, unit) ==
  LET y == BeginUnit(x)
  IN EndUnit(CASE s.Ah = 0 /\ s.Ss = 0 -> encode_mcu_DC_first(y, s, unit)
               [] s.Ah = 0 /\ s.Ss # 0 -> encode_mcu_AC_first(y, s, unit)
               [] s.Ah # 0 /\ s.Ss = 0 -> encode_mcu_DC_refine(y, s, unit)
               [] s.Ah # 0 /\ s.Ss # 0 -> encode_mcu_AC_refine(y, s, unit))

finish_pass_gather(x) == emit_eobrun(x)
finish_pass(x) == IF x.gather THEN finish_pass_gather(x) ELSE emit_eobrun(x)

start_pass_phuff(n, interval, gather) ==
  [gather |-> gather, out |-> <<>>, EOBRUN |-> 0, BE |-> <<>>, most |-> 0, last_dc |-> [c \in 1..n |-> 0],
   interval |-> interval, togo |-> interval, num |-> 0]

Units(image) == DOMAIN image[1]
UnitOf(image, s, i) == [j \in DOMAIN s.comps |-> [comp |-> s.comps[j], block |-> image[s.comps[j]][i]]]

RECURSIVE EncodeFrom(_, _, _, _)
EncodeFrom(x, s, image, i) ==
  IF i \notin Units(image) THEN finish_pass(x)
  ELSE EncodeFrom(encode_mcu(x, s, UnitOf(image, s, i)), s, image, i + 1)
EncodeScan(c, s, gather) == EncodeFrom(start_pass_phuff(c.n, c.interval, gather), s, c.image, 1)

(***************************************************************************)
(* Decoding (jdphuff.c).  Of the items only the first avail have arrived.  *)
(* w is the work on a unit: where it is in the items, the unit's blocks,   *)
(* and whether it goes on, ran out of data or met an item it did not mean. *)
(* At a marker it is given zeros: the symbol whose code they are, and bits.*)
(***************************************************************************)
\* jpeg_natural_order goes on behind its end with the last coefficient.
jpeg_natural_order(k) == IF k < PhuffSize2 THEN k ELSE PhuffSize2 - 1

Plus(v, p1) == IF (v \div p1) % 2 # 0 THEN v ELSE IF v >= 0 THEN v + p1 ELSE v - p1

\* Take the next item if it is of this kind; item is then the last one taken.
Take(w, kind, n) ==
  IF w.st # "ok" THEN w
  ELSE IF w.pos >= w.avail THEN [w EXCEPT !.st = "suspended"]
  ELSE LET t == w.items[w.pos + 1]
       IN IF kind # "RST" /\ t.is \in {"RST", "end"}
          THEN [w EXCEPT !.insufficient = TRUE,
                         !.item = IF kind = "symbol" THEN w.zero ELSE [is |-> "bits", v |-> 0, n |-> n]]
          ELSE IF t.is # kind \/ (kind = "bits" /\ t.n # n) THEN [w EXCEPT !.st = "lost"]
          ELSE [w EXCEPT !.pos = @ + 1, !.item = t]
TakeBits(w, n) == IF n = 0 THEN [w EXCEPT !.item = [is |-> "bits", v |-> 0, n |-> 0]] ELSE Take(w, "bits", n)

process_restart_phuff(w) ==
  LET y == Take(w, "RST", 0)
  IN IF y.st # "ok" THEN y
     ELSE IF y.item.num # w.num THEN [y EXCEPT !.st = "lost"]
     ELSE [y EXCEPT !.last_dc = [c \in DOMAIN @ |-> 0], !.EOBRUN = 0, !.togo = w.interval,
                    !.insufficient = FALSE, !.num = (@ + 1) % RestartNumbers]

RECURSIVE decode_mcu_DC_first(_, _, _)
decode_mcu_DC_first(w, s, j) ==
  IF j > Len(s.comps) THEN w
  ELSE LET c == s.comps[j]
           y == Take(w, "symbol", 0)
           z == IF y.st = "ok" THEN TakeBits(y, y.item.size) ELSE y
           v == HUFF_EXTEND(z.item.v, y.item.size) + w.last_dc[c]
       IN IF z.st # "ok" THEN z
          ELSE decode_mcu_DC_first([z EXCEPT !.last_dc[c] = v, !.unit[j][0] = v * 2^s.Al], s, j + 1)

RECURSIVE decode_mcu_DC_refine(_, _, _)
decode_mcu_DC_refine(w, s, j) ==
  LET y == TakeBits(w, 1)
  IN IF j > Len(s.comps) THEN w
     ELSE IF y.st # "ok" THEN y
     ELSE decode_mcu_DC_refine(
            IF y.item.v = 1 /\ (w.unit[j][0] \div 2^s.Al) % 2 = 0
            THEN [y EXCEPT !.unit[j][0] = @ + 2^s.Al] ELSE y, s, j + 1)

\* The number of blocks that a symbol <<r, 0>> ends, when its bits have been taken.
RunBegun(y, r) == IF y.st = "ok" THEN [y EXCEPT !.EOBRUN = 2^r + y.item.v] ELSE y
EndRun(w, r) == RunBegun(TakeBits(w, r), r)

RECURSIVE AcFirstFrom(_, _, _)
AcFirstRead(z, s, k, size) ==
  IF z.st # "ok" THEN z
  ELSE AcFirstFrom([z EXCEPT !.unit[1][jpeg_natural_order(k)] = HUFF_EXTEND(z.item.v, size) * 2^s.Al], s, k + 1)
ThisBlockOf(e) == IF e.st = "ok" THEN [e EXCEPT !.EOBRUN = @ - 1] ELSE e
AcFirstSymbol(y, s, k) ==
  LET run == y.item.run
      size == y.item.size
  IN IF y.st # "ok" THEN y
     ELSE IF size = 0 /\ run < PhuffRunMax - 1 THEN ThisBlockOf(EndRun(y, run))
     ELSE IF size = 0 THEN AcFirstFrom(y, s, k + PhuffRunMax)
     ELSE AcFirstRead(TakeBits(y, size), s, k + run, size)
AcFirstFrom(w, s, k) == IF k > s.Se THEN w ELSE AcFirstSymbol(Take(w, "symbol", 0), s, k)
decode_mcu_AC_first(w, s) ==
  IF w.EOBRUN > 0 THEN [w EXCEPT !.EOBRUN = @ - 1] ELSE AcFirstFrom(w, s, s.Ss)

\* A bit for every coefficient that is not zero, up to the r-th zero; at is where it stopped.
RECURSIVE Correct(_, _, _, _)
Corrected(y, s, k, r) ==
  IF y.st # "ok" THEN y
  ELSE Correct(IF y.item.v = 1 THEN [y EXCEPT !.unit[1][k] = Plus(@, 2^s.Al)] ELSE y, s, k + 1, r)
Correct(w, s, k, r) ==
  LET v == w.unit[1][k]
  IN IF k > s.Se \/ w.st # "ok" \/ (v = 0 /\ r = 0) THEN [w EXCEPT !.at = k]
     ELSE IF v = 0 THEN Correct(w, s, k + 1, r - 1)
     ELSE Corrected(TakeBits(w, 1), s, k, r)

RECURSIVE AcRefineFrom(_, _, _)
AcRefined(c, s, size, v) ==
  IF c.st # "ok" THEN c
  ELSE IF size = 0 THEN AcRefineFrom(c, s, c.at + 1)
  ELSE LET pos == jpeg_natural_order(c.at)
       IN AcRefineFrom([c EXCEPT !.unit[1][pos] = v, !.new = @ \cup {pos}], s, c.at + 1)
AcRefineSign(z, s, k, run, size) ==
  AcRefined(Correct(z, s, k, run), s, size, IF z.item.v = 1 THEN 2^s.Al ELSE -(2^s.Al))
AcRefineSymbol(y, s, k) ==
  LET run == y.item.run
      size == y.item.size
  IN IF y.st # "ok" THEN y
     ELSE IF size = 0 /\ run < PhuffRunMax - 1 THEN [EndRun(y, run) EXCEPT !.at = k]
     ELSE AcRefineSign(TakeBits(y, size), s, k, run, size)
AcRefineFrom(w, s, k) == IF k > s.Se THEN w ELSE AcRefineSymbol(Take(w, "symbol", 0), s, k)

\* When the data runs out, the new coefficients are zero again, as the next attempt expects.
undoit(w) == [w EXCEPT !.unit[1] = [k \in Coefs |-> IF k \in w.new THEN 0 ELSE @[k]]]

RefineDone(z) ==
  IF z.st = "suspended" THEN undoit(z) ELSE IF z.EOBRUN > 0 THEN [z EXCEPT !.EOBRUN = @ - 1] ELSE z
RestRefined(y, s) == RefineDone(IF y.st = "ok" /\ y.EOBRUN > 0 THEN Correct(y, s, y.at, PhuffSize2) ELSE y)
decode_mcu_AC_refine(w, s) ==
  RestRefined(IF w.EOBRUN = 0 THEN AcRefineFrom(w, s, s.Ss) ELSE [w EXCEPT !.at = s.Ss], s)

\* Once zeros were made up, units are left as they are; a refined DC value would not change.
decode_unit_phuff(y, s) ==
  CASE s.Ah # 0 /\ s.Ss = 0 -> decode_mcu_DC_refine(y, s, 1)
    [] y.insufficient /\ ~(s.Ah # 0 /\ s.Ss = 0) -> y
    [] ~y.insufficient /\ s.Ah = 0 /\ s.Ss = 0 -> decode_mcu_DC_first(y, s, 1)
    [] ~y.insufficient /\ s.Ah = 0 /\ s.Ss # 0 -> decode_mcu_AC_first(y, s)
    [] ~y.insufficient /\ s.Ah # 0 /\ s.Ss # 0 -> decode_mcu_AC_refine(y, s)

\* mutant: a unit that must be started over keeps the DC values it came to.
UnitDecodedSaving(y, z) ==
  IF z.st = "ok" THEN [z EXCEPT !.togo = @ - 1]
  ELSE IF z.st = "suspended" THEN [y EXCEPT !.st = z.st, !.unit = z.unit, !.last_dc = z.last_dc] ELSE z
\* A unit that must be started over leaves the state that its restart marker made, and what it
\* did to the blocks.
UnitDecoded(y, z) ==
  IF z.st = "ok" THEN [z EXCEPT !.togo = @ - 1]
  ELSE IF z.st = "suspended" THEN [y EXCEPT !.st = z.st, !.unit = z.unit] ELSE z
decode_mcu_phuff(w, s) ==
  LET y == IF w.interval # 0 /\ w.togo = 0 THEN process_restart_phuff(w) ELSE w
  IN IF y.st = "ok" THEN UnitDecoded(y, decode_unit_phuff(y, s)) ELSE y

start_pass_phuff_decoder(c, items, zero_symbol) ==
  [items |-> items, avail |-> 0, pos |-> 0, item |-> [is |-> "none"], st |-> "ok", at |-> 0, new |-> {},
   unit |-> <<>>, EOBRUN |-> 0, last_dc |-> [i \in 1..c.n |-> 0], interval |-> c.interval,
   togo |-> c.interval, num |-> 0, insufficient |-> FALSE, zero |-> zero_symbol]

(***************************************************************************)
(* A picture is coded with a script and decoded scan by scan and unit by   *)
(* unit.                                                                   *)
(***************************************************************************)
NoSymbol == [is |-> "none"]
Uncut == -1
\* cut is how many items come before those that were cut off, broke the unit that missed them.
NothingSent(c) ==
  [n |-> c.n, phase |-> "coding", script |-> c.script, case |-> c, scan |-> 0, unit |-> 0, tries |-> 0,
   dec |-> start_pass_phuff_decoder(c, <<>>, NoSymbol), most |-> 0, counted |-> <<>>, cut |-> Uncut,
   broke |-> 0]
ZeroImage(image) == [c \in DOMAIN image |-> [i \in DOMAIN image[c] |-> [k \in Coefs |-> 0]]]

ProgInit == \E c \in Cases : validate_script(c.n, c.script) /\ p = NothingSent(c) /\ coefs = ZeroImage(c.image)

Current == p.script[p.scan]

\* A scan without the items of a segment from the i-th on, and before what follows the scan.
IsMarker(t) == t.is \in {"RST", "end"}
WithoutRest(items, i) ==
  LET next == Least({j \in i..Len(items) : IsMarker(items[j])})
  IN SubSeq(items, 1, i - 1) \o SubSeq(items, next, Len(items))

\* What zeros mean is the shortest code of the table, if the scan has one.
Symbols(items) == SelectSeq(items, LAMBDA t : t.is = "symbol")
ZeroSymbols(items) ==
  LET coded == Symbols(items) IN IF coded = <<>> THEN {NoSymbol} ELSE {coded[i] : i \in DOMAIN coded}

\* A scan is counted, coded and sent; the decoder reads its header.
Send(coded, counted) ==
  LET items == Append(coded.out, [is |-> "end"])
      Sent(sent, cut, zero_symbol) ==
        p' = [p EXCEPT !.scan = @ + 1, !.unit = 0, !.tries = 0, !.most = coded.most, !.counted = counted.out,
                       !.cut = cut, !.dec = start_pass_phuff_decoder(p.case, sent, zero_symbol)]
  IN \/ Sent(items, Uncut, NoSymbol)
     \/ /\ p.case \in Cuttable
        /\ \E i \in DOMAIN items, zero_symbol \in ZeroSymbols(items) :
             ~IsMarker(items[i]) /\ Sent(WithoutRest(items, i), i - 1, zero_symbol)
ScanOver == p.unit = Cardinality(Units(p.case.image))
NextScan ==
  /\ p.phase = "coding" /\ p.scan < Len(p.script)
  /\ p.scan = 0 \/ (ScanOver /\ p.cut = Uncut)
  /\ LET s == p.script[p.scan + 1] IN Send(EncodeScan(p.case, s, FALSE), EncodeScan(p.case, s, TRUE))
  /\ UNCHANGED coefs

\* The work on the next unit, when so many items have arrived.
Work(avail) ==
  decode_mcu_phuff([p.dec EXCEPT !.avail = avail, !.new = {},
                           !.unit = [j \in DOMAIN Current.comps |-> coefs[Current.comps[j]][p.unit + 1]]],
             Current)
Stored(w) ==
  [c \in DOMAIN coefs |-> [i \in DOMAIN coefs[c] |->
     IF i = p.unit + 1 /\ c \in InScan(Current)
     THEN w.unit[CHOOSE j \in DOMAIN Current.comps : Current.comps[j] = c] ELSE coefs[c][i]]]

UnitsLeft == p.phase = "coding" /\ p.scan > 0 /\ p.unit < Cardinality(Units(p.case.image)) /\ p.dec.st = "ok"

\* Between units the decoder has no blocks.
AtRest(w) == [w EXCEPT !.st = IF @ = "suspended" THEN "ok" ELSE @, !.unit = <<>>, !.new = {}, !.avail = 0]
ScanUnitRead(w) ==
  /\ w.st # "suspended"
  /\ p' = [p EXCEPT !.dec = AtRest(w), !.unit = @ + 1, !.tries = 0,
                    !.broke = IF w.insufficient /\ @ = 0 THEN p.unit + 1 ELSE @]
  /\ coefs' = Stored(w)
Suspend(w) ==
  /\ p.tries < Suspensions /\ w.st = "suspended"
  /\ p' = [p EXCEPT !.dec = AtRest(w), !.tries = @ + 1] /\ coefs' = Stored(w)
ScanUnitWorked(w, avail) == (avail = Len(p.dec.items) /\ ScanUnitRead(w)) \/ (avail < Len(p.dec.items) /\ Suspend(w))
DecodeScanUnit == UnitsLeft /\ \E avail \in p.dec.pos..Len(p.dec.items) : ScanUnitWorked(Work(avail), avail)

Finished ==
  /\ p.phase = "coding" /\ ScanOver /\ (p.scan = Len(p.script) \/ p.cut # Uncut)
  /\ p' = [p EXCEPT !.phase = "done"] /\ UNCHANGED coefs

ProgNext == NextScan \/ DecodeScanUnit \/ Finished
ProgSpec == ProgInit /\ [][ProgNext]_progVars

------------------------------------------------------------------------------
Known(v, k, bit) ==
  IF bit < 0 THEN 0
  ELSE IF k = 0 THEN (v \div 2^bit) * 2^bit
  ELSE IF v < 0 THEN -(((-v) \div 2^bit) * 2^bit) ELSE (v \div 2^bit) * 2^bit

\* The units of its segment that come after the one where data was missing.
IntervalOf(i) == IF p.dec.interval = 0 THEN 0 ELSE (i - 1) \div p.dec.interval
Unread == {i \in Units(p.case.image) : p.broke # 0 /\ i > p.broke /\ IntervalOf(i) = IntervalOf(p.broke)}

(***************************************************************************)
(* When a scan is decoded, every coefficient has the bits that were sent   *)
(* of it so far, wherever the data ran out in between.  Of a scan that was *)
(* cut, the units behind the cut stay as they were up to the next restart. *)
(***************************************************************************)
BitsArrive ==
  p.scan > 0 /\ ScanOver =>
    LET bit == last_bitpos(p.n, p.script, p.scan)
        before == last_bitpos(p.n, p.script, p.scan - 1)
    IN \A c \in 1..p.n, i \in Units(p.case.image), k \in Coefs :
         \/ i = p.broke /\ c \in InScan(Current)
         \/ coefs[c][i][k] =
              Known(p.case.image[c][i][k], k, IF i \in Unread THEN before[c][k] ELSE bit[c][k])

(***************************************************************************)
(* The decoder never meets an item it does not mean, makes up data exactly *)
(* where it was cut off, and has used all of a scan when its last unit is  *)
(* decoded.                                                                *)
(***************************************************************************)
InStep ==
  /\ p.dec.st = "ok"
  /\ p.dec.insufficient => p.dec.pos = p.cut
  /\ p.phase = "coding" /\ p.scan > 0 /\ ScanOver =>
       /\ p.dec.pos = Len(p.dec.items) - 1
       /\ p.cut # Uncut => p.broke # 0

(***************************************************************************)
(* Every symbol that is coded has been counted, so that the tables made    *)
(* from the counts have a code for it.                                     *)
(***************************************************************************)
SymbolsAreCounted == p.cut = Uncut => Symbols(p.dec.items) = p.counted

(***************************************************************************)
(* The buffer of correction bits, of MAX_CORR_BITS, never overflows.       *)
(***************************************************************************)
BufferHolds == p.most <= MAX_CORR_BITS

(***************************************************************************)
(* With a script that the compressor makes itself, the whole picture       *)
(* arrives.                                                                *)
(***************************************************************************)
SimpleArrives ==
  p.phase = "done" /\ p.cut = Uncut /\ (\E ycc \in BOOLEAN : p.script = jpeg_simple_progression(p.n, ycc)) =>
    coefs = p.case.image

(* The counters of scans, restarts and runs stay in their ranges, and the  *)
(* decoder never reads past what the encoder has written.                  *)
ProgTypeOK ==
  /\ p.phase \in {"coding", "done"} /\ p.scan \in 0..Len(p.script)
  /\ p.dec.pos \in 0..Len(p.dec.items) /\ p.dec.EOBRUN \in 0..MAX_EOBRUN
  /\ p.dec.interval # 0 => p.dec.togo \in 0..p.dec.interval
  /\ p.tries \in 0..Suspensions

(* Scan by scan the decoder gets the bits the encoder had, both count runs *)
(* and restarts alike, and what the encoder keeps back fits.               *)
ScansArrive ==
  /\ ProgTypeOK
  /\ BitsArrive
  /\ InStep
  /\ SymbolsAreCounted
  /\ BufferHolds
  /\ SimpleArrives
=============================================================================

----------------------------- MODULE JpegHuffman -----------------------------
(***************************************************************************)
(* Huffman coding in libjpeg-turbo-1.3.0: the optimal table for a picture  *)
(* (jchuff.c), the tables derived from a table by the encoder and by the   *)
(* decoder (jdhuff.c), the coding of units into bytes and their decoding   *)
(* from bytes that arrive in pieces, may be missing, and may hold restart  *)
(* markers, by the ordinary decoder and by the fast one.                   *)
(*                                                                         *)
(* A model of four parts, of which a behaviour explores one:               *)
(*   "freq"   a table made from frequencies;                               *)
(*   "bits"   a table as a file may hold it;                               *)
(*   "stream" a picture, coded and decoded;                                *)
(*   "word"   how many bits wait in the encoder's word.                    *)
(*                                                                         *)
(* Bounds, each for a number of the code: codes of 4 bits (16), before     *)
(* they are limited of 8 (32), a lookahead of 2 bits (8), bytes of 4 bits, *)
(* 8 coefficients (64), runs below 4 (16), 2 restart markers (8), a bit    *)
(* buffer of 12 bits (32 or 64) filled to 9, and BUFSIZE, the bytes that   *)
(* the fast decoder wants for a block, as the code has it: twice the       *)
(* number of coefficients.  The word is the real one.                      *)
(***************************************************************************)
EXTENDS JpegBasics, Integers, Sequences, FiniteSets

CONSTANTS Freqs,    \* frequencies: functions from symbols
          Bits,     \* numbers of codes: functions from 1..CodeLimit
          CodedPictures, \* [units, interval]: a unit has a block for each component
          Cuts,     \* how many bytes may be missing from a segment
          Words     \* the sizes of the encoder's word

VARIABLES h \* the state of the part

huffVars == h

CodeLimit == 4
MAX_CLEN == 8
HUFF_LOOKAHEAD == 2
BYTE == 4
FF == 2^BYTE - 1
EOI == 9
RST0 == 12
DCTSIZE2 == 8
RunMax == 4
MIN_GET_BITS == 9
FastMin == 4   \* FILL_BIT_BUFFER_FAST: fewer bits than that,
FastBytes == 2 \* and so many bytes are read
BUFSIZE == 2 * DCTSIZE2

RECURSIVE Number(_)
Number(bits) == IF bits = <<>> THEN 0 ELSE 2 * Number(SubSeq(bits, 1, Len(bits) - 1)) + bits[Len(bits)]
BitsOf(v, n) == [i \in 1..n |-> (v \div 2^(n - i)) % 2]
RECURSIVE SumOver(_, _)
SumOver(f, S) == IF S = {} THEN 0 ELSE LET x == CHOOSE x \in S : TRUE IN f[x] + SumOver(f, S \ {x})

(***************************************************************************)
(* jpeg_gen_optimal_table.  The symbols are numbers; the pseudo-symbol     *)
(* that reserves the code of ones only is above them all.                  *)
(***************************************************************************)
\* The rarest of the trees that are left; of several the last.
Rarest(freq, S) == CHOOSE i \in S : \A j \in S : freq[i] < freq[j] \/ (freq[i] = freq[j] /\ i >= j)

Joined(freq, c1, c2) == [freq EXCEPT ![c1] = @ + freq[c2], ![c2] = 0]

\* A tree is the set of its leaves; size counts how often a leaf was merged.
RECURSIVE Merge(_, _, _)
Merge(freq, leaves, size) ==
  LET live == {i \in DOMAIN freq : freq[i] # 0}
      c1 == Rarest(freq, live)
      c2 == Rarest(freq, live \ {c1})
      both == leaves[c1] \cup leaves[c2]
  IN IF Cardinality(live) < 2 THEN size
     ELSE Merge(Joined(freq, c1, c2), [leaves EXCEPT ![c1] = both],
                [i \in DOMAIN size |-> IF i \in both THEN size[i] + 1 ELSE size[i]])

\* Two codes of length i: one becomes a bit shorter, and a shorter one is split for the other.
Shorten(bits, i) ==
  LET j == CHOOSE j \in 1..i - 2 : bits[j] > 0 /\ \A k \in j + 1..i - 2 : bits[k] = 0
      b1 == [bits EXCEPT ![i] = @ - 2]
      b2 == [b1 EXCEPT ![i - 1] = @ + 1]
      b3 == [b2 EXCEPT ![j + 1] = @ + 2]
  IN [b3 EXCEPT ![j] = @ - 1]
RECURSIVE Limited(_, _)
Limited(bits, i) ==
  IF i = CodeLimit THEN bits
  ELSE IF bits[i] > 0 THEN Limited(Shorten(bits, i), i) ELSE Limited(bits, i - 1)

\* mutant: the pseudo-symbol's code is not taken out.
UnreservedNot(bits) == bits
\* The longest code is the pseudo-symbol's.
Unreserved(bits) ==
  LET i == CHOOSE i \in 1..CodeLimit : bits[i] > 0 /\ \A k \in i + 1..CodeLimit : bits[k] = 0
  IN [bits EXCEPT ![i] = @ - 1]

Ordered(size, S) ==
  LET Before(a, b) == size[a] < size[b] \/ (size[a] = size[b] /\ a < b)
      Rank(a) == 1 + Cardinality({b \in S : Before(b, a)})
  IN [n \in 1..Cardinality(S) |-> CHOOSE a \in S : Rank(a) = n]

pseudo == 1000
Live(counts) == {s \in DOMAIN counts : counts[s] # 0}
CodeSizes(counts) ==
  LET freq == [s \in Live(counts) \cup {pseudo} |-> IF s = pseudo THEN 1 ELSE counts[s]]
  IN Merge(freq, [s \in DOMAIN freq |-> {s}], [s \in DOMAIN freq |-> 0])
jpeg_gen_optimal_table(counts) ==
  LET size == CodeSizes(counts)
      bits == [l \in 1..MAX_CLEN |-> Cardinality({s \in DOMAIN size : size[s] = l})]
      limited == Unreserved(Limited(bits, MAX_CLEN))
  IN [bits |-> [l \in 1..CodeLimit |-> limited[l]], huffval |-> Ordered(size, Live(counts))]

(***************************************************************************)
(* The derived tables.                                                     *)
(***************************************************************************)
\* huffsize, and huffcode with the code after the last one of each size.
RECURSIVE LengthsOf(_, _)
LengthsOf(bits, l) == IF l > CodeLimit THEN <<>> ELSE [i \in 1..bits[l] |-> l] \o LengthsOf(bits, l + 1)
RECURSIVE CodesFrom(_, _, _)
CodesFrom(bits, l, code) ==
  IF l > CodeLimit THEN <<>>
  ELSE [i \in 1..bits[l] |-> code + i - 1] \o CodesFrom(bits, l + 1, 2 * (code + bits[l]))
RECURSIVE NextCode(_, _)
NextCode(bits, l) == IF l = 0 THEN 0 ELSE 2 * NextCode(bits, l - 1) + bits[l]

\* The code after the last one must fit: none has ones only.
CodesFit(bits) ==
  \A l \in 1..CodeLimit : (\E k \in l..CodeLimit : bits[k] > 0) => NextCode(bits, l) < 2^l

TableFits(tab) ==
  /\ CodesFit(tab.bits)
  /\ SumOver(tab.bits, 1..CodeLimit) <= Len(tab.huffval)

\* jpeg_make_c_derived_tbl: the code of a symbol, as bits.
jpeg_make_c_derived_tbl(tab) ==
  LET size == LengthsOf(tab.bits, 1)
      code == CodesFrom(tab.bits, 1, 0)
      Place(s) == CHOOSE p \in DOMAIN size : tab.huffval[p] = s
  IN [s \in {tab.huffval[p] : p \in DOMAIN size} |-> BitsOf(code[Place(s)], size[Place(s)])]
EncoderAccepts(tab) ==
  TableFits(tab) /\ LET n == Len(LengthsOf(tab.bits, 1))
                    IN Cardinality({tab.huffval[p] : p \in 1..n}) = n

\* jpeg_make_d_derived_tbl
\* mutant: the codes are counted from the first of their length.
valoffsetShort(tab, l) ==
  IF tab.bits[l] = 0 THEN 0 ELSE -CodesFrom(tab.bits, 1, 0)[SumOver(tab.bits, 1..l - 1) + 1]
valoffset(tab, l) ==
  LET p == SumOver(tab.bits, 1..l - 1)
  IN IF tab.bits[l] = 0 THEN 0 ELSE p - CodesFrom(tab.bits, 1, 0)[p + 1]
jpeg_make_d_derived_tbl(tab) ==
  LET size == LengthsOf(tab.bits, 1)
      code == CodesFrom(tab.bits, 1, 0)
      Prefix(look, p) == size[p] <= HUFF_LOOKAHEAD /\ look \div 2^(HUFF_LOOKAHEAD - size[p]) = code[p]
  IN [huffval |-> tab.huffval,
      valoffset |-> [l \in 1..CodeLimit + 1 |-> IF l > CodeLimit THEN 0 ELSE valoffset(tab, l)],
      maxcode |-> [l \in 1..CodeLimit + 1 |->
         IF l > CodeLimit THEN 2^20
         ELSE IF tab.bits[l] = 0 THEN -1 ELSE code[SumOver(tab.bits, 1..l)]],
      lookup |-> [look \in 0..2^HUFF_LOOKAHEAD - 1 |->
         IF \E p \in DOMAIN size : Prefix(look, p)
         THEN LET p == CHOOSE p \in DOMAIN size : Prefix(look, p) IN <<size[p], tab.huffval[p]>>
         ELSE <<HUFF_LOOKAHEAD + 1, 0>>]]

(***************************************************************************)
(* Encoding a unit.  e is [put, last_dc, togo, num, out].                  *)
(***************************************************************************)
RECURSIVE AcSymbols(_, _, _)
AcSymbols(block, k, r) ==
  IF k = DCTSIZE2 THEN IF r > 0 THEN <<[tab |-> "ac", run |-> 0, n |-> 0, v |-> 0]>> ELSE <<>>
  ELSE IF block[k] = 0 THEN AcSymbols(block, k + 1, r + 1)
  ELSE [i \in 1..r \div RunMax |-> [tab |-> "ac", run |-> RunMax - 1, n |-> 0, v |-> 0]]
       \o <<[tab |-> "ac", run |-> r % RunMax, n |-> NBits(Abs(block[k])), v |-> block[k]]>>
       \o AcSymbols(block, k + 1, 0)
DcSymbol(block, last) == [tab |-> "dc", run |-> 0, n |-> NBits(Abs(block[0] - last)), v |-> block[0] - last]
SymbolsOf(block, last) == <<DcSymbol(block, last)>> \o AcSymbols(block, 1, 0)
Sym(s) == s.run * 16 + s.n

\* What encode_mcu_gather counts.
htest_one_block(block, last) == SymbolsOf(block, last)

\* EMIT_BYTE, with a zero after a byte of ones, while a byte is complete.
RECURSIVE EmitBytes(_, _)
EmitBytes(e, put) ==
  LET c == Number(SubSeq(put, 1, BYTE))
      e1 == [e EXCEPT !.out = @ \o (IF c = FF THEN <<c, 0>> ELSE <<c>>)]
  IN IF Len(put) < BYTE THEN [e EXCEPT !.put = put] ELSE EmitBytes(e1, SubSeq(put, BYTE + 1, Len(put)))
PutBits(e, bits) == EmitBytes(e, e.put \o bits)

flush_bits(e) == [PutBits(e, [i \in 1..BYTE - 1 |-> 1]) EXCEPT !.put = <<>>]

emit_restart(e) ==
  LET f == flush_bits(e)
  IN [f EXCEPT !.out = @ \o <<FF, RST0 + e.num>>, !.last_dc = [c \in DOMAIN @ |-> 0]]

ValueBits(s) == IF s.v < 0 THEN BitsOf(s.v - 1 + 2^s.n, s.n) ELSE BitsOf(s.v, s.n)
RECURSIVE PutSymbols(_, _, _)
PutSymbols(e, tables, syms) ==
  IF syms = <<>> THEN e
  ELSE LET s == Head(syms)
           e1 == PutBits(e, tables[s.tab][Sym(s)] \o ValueBits(s))
       IN PutSymbols(e1, tables, Tail(syms))

BlockDone(e, c, block) == [e EXCEPT !.last_dc[c] = block[0]]
RECURSIVE encode_blocks(_, _, _, _)
encode_blocks(e, tables, unit, c) ==
  IF c > Len(unit) THEN e
  ELSE LET e1 == PutSymbols(e, tables, SymbolsOf(unit[c], e.last_dc[c]))
       IN encode_blocks(BlockDone(e1, c, unit[c]), tables, unit, c + 1)

UnitPut(x, togo, interval) ==
  IF interval = 0 THEN x
  ELSE IF togo = 0 THEN [x EXCEPT !.togo = interval - 1, !.num = (@ + 1) % RestartNumbers]
  ELSE [x EXCEPT !.togo = @ - 1]
encode_mcu_huff(e, tables, unit, interval) ==
  UnitPut(encode_blocks(IF interval # 0 /\ e.togo = 0 THEN emit_restart(e) ELSE e, tables, unit, 1), e.togo, interval)

\* encode_mcu_gather for a whole picture: the symbols, with the constants starting over.
RECURSIVE Gathered(_, _, _, _)
Gathered(units, interval, n, last) ==
  IF n > Len(units) THEN <<>>
  ELSE LET u == units[n]
           l == IF interval # 0 /\ n > 1 /\ (n - 1) % interval = 0 THEN [c \in DOMAIN u |-> 0] ELSE last
           Of(c) == htest_one_block(u[c], l[c])
       IN (IF Len(u) = 1 THEN Of(1) ELSE Of(1) \o Of(2))
          \o Gathered(units, interval, n + 1, [c \in DOMAIN u |-> u[c][0]])
Counts(syms, tab) ==
  [x \in {Sym(syms[i]) : i \in {i \in DOMAIN syms : syms[i].tab = tab}} |->
     Cardinality({i \in DOMAIN syms : syms[i].tab = tab /\ Sym(syms[i]) = x})]

(***************************************************************************)
(* Decoding.  w is the work on a unit: the bits read (get), the position   *)
(* in the bytes, of which avail have arrived, and the state saved.         *)
(***************************************************************************)
Starved(w) == [w EXCEPT !.st = "suspended"]

\* The position of the byte after the fill bytes from i on.
RECURSIVE SkipFill(_, _)
SkipFill(bytes, i) == IF i <= Len(bytes) /\ bytes[i] = FF THEN SkipFill(bytes, i + 1) ELSE i

\* No more bytes before a marker: go on with zeros if bits are wanted.
Zeros(w, nbits) ==
  IF nbits <= Len(w.get) THEN w
  ELSE [w EXCEPT !.insufficient = TRUE, !.get = @ \o [i \in 1..MIN_GET_BITS - Len(@) |-> 0]]

RECURSIVE jpeg_fill_bit_buffer(_, _)
jpeg_fill_bit_buffer(w, nbits) ==
  IF w.unread # 0 THEN Zeros(w, nbits)
  ELSE IF Len(w.get) >= MIN_GET_BITS THEN w
  ELSE IF w.pos >= w.avail THEN Starved(w)
  ELSE LET c == w.bytes[w.pos + 1]
           i == SkipFill(w.bytes, w.pos + 1)
       IN CASE c # FF -> jpeg_fill_bit_buffer([w EXCEPT !.pos = @ + 1, !.get = @ \o BitsOf(c, BYTE)], nbits)
            [] c = FF /\ i > w.avail -> Starved(w)
            [] c = FF /\ i <= w.avail /\ w.bytes[i] = 0 ->
                 jpeg_fill_bit_buffer([w EXCEPT !.pos = i, !.get = @ \o BitsOf(FF, BYTE)], nbits)
            [] OTHER -> Zeros([w EXCEPT !.pos = i, !.unread = w.bytes[i]], nbits)

CHECK_BIT_BUFFER(w, n) == IF Len(w.get) < n THEN jpeg_fill_bit_buffer(w, n) ELSE w
\* After CHECK_BIT_BUFFER: the next n bits are in val.
Taken(x, n) == [x EXCEPT !.val = Number(SubSeq(x.get, 1, n)), !.get = SubSeq(x.get, n + 1, Len(x.get))]
TakenIfAny(x, n) == IF x.st # "ok" THEN x ELSE Taken(x, n)
GET_BITS(w, n) == TakenIfAny(CHECK_BIT_BUFFER(w, n), n)

RECURSIVE LongCode(_, _, _, _)
LongCode(w, t, code, l) ==
  LET x == GET_BITS(w, 1)
  IN IF l > CodeLimit THEN [w EXCEPT !.val = 0] \* JWRN_HUFF_BAD_CODE
     ELSE IF code <= t.maxcode[l] THEN [w EXCEPT !.val = t.huffval[code + t.valoffset[l] + 1]]
     ELSE IF x.st # "ok" THEN x ELSE LongCode(x, t, 2 * code + x.val, l + 1)
LongFrom(x, t, l) == IF x.st # "ok" THEN x ELSE LongCode(x, t, x.val, l)
jpeg_huff_decode(w, t, min_bits) == LongFrom(GET_BITS(w, min_bits), t, min_bits)

\* With e what the table says of the next bits.
LookedUp(x, t, e) ==
  IF x.st # "ok" THEN x
  ELSE IF Len(x.get) >= HUFF_LOOKAHEAD /\ e[1] <= HUFF_LOOKAHEAD
       THEN [x EXCEPT !.val = e[2], !.get = SubSeq(@, e[1] + 1, Len(@))]
  ELSE jpeg_huff_decode(x, t, IF Len(x.get) < HUFF_LOOKAHEAD THEN 1 ELSE e[1])
LookUp(x, t) == LookedUp(x, t, t.lookup[Number(SubSeq(x.get, 1, HUFF_LOOKAHEAD))])
HUFF_DECODE(w, t) == LookUp(IF Len(w.get) < HUFF_LOOKAHEAD THEN jpeg_fill_bit_buffer(w, 0) ELSE w, t)

\* Bytes were read, or a marker that is none, behind the end of the buffer.
Overrun(w) == [w EXCEPT !.st = "overrun"]

\* The fast decoder does not ask whether there are bytes; at a marker it reads zeros.  (It looks
\* at the byte after each, which matters only after a byte of ones.)
RECURSIVE GET_BYTE(_, _)
GET_BYTE(w, n) ==
  LET c0 == w.bytes[w.pos + 1]
      c1 == w.bytes[w.pos + 2]
  IN IF n = 0 \/ w.st # "ok" THEN w
     ELSE IF w.pos >= w.avail THEN Overrun(w)
     ELSE IF c0 # FF THEN GET_BYTE([w EXCEPT !.pos = @ + 1, !.get = @ \o BitsOf(c0, BYTE)], n - 1)
     ELSE IF w.pos + 1 >= w.avail THEN Overrun(w)
     ELSE IF c1 = 0 THEN GET_BYTE([w EXCEPT !.pos = @ + 2, !.get = @ \o BitsOf(FF, BYTE)], n - 1)
     ELSE GET_BYTE([w EXCEPT !.unread = c1, !.get = @ \o BitsOf(0, BYTE)], n - 1)
FILL_BIT_BUFFER_FAST(w) == IF Len(w.get) < FastMin THEN GET_BYTE(w, FastBytes) ELSE w
FAST_BITS(w, n) == TakenIfAny(FILL_BIT_BUFFER_FAST(w), n)

\* A code that is none: what get_dht left behind the symbols of huffval is not initialized, and
\* bits that were not fetched are shifted by a negative number.
Undefined(w) == [w EXCEPT !.st = "undefined"]
RECURSIVE LongCodeFast(_, _, _, _)
LongCodeFast(w, t, code, l) ==
  LET i == (code + t.valoffset[l]) % 2^BYTE
  IN IF code <= t.maxcode[l]
     THEN IF i < Len(t.huffval) THEN [w EXCEPT !.val = t.huffval[i + 1]] ELSE Undefined(w)
     ELSE IF w.get = <<>> THEN Undefined(w)
     ELSE LongCodeFast([w EXCEPT !.get = Tail(@)], t, 2 * code + w.get[1], l + 1)
LookUpFast(x, t) ==
  LET e == t.lookup[Number(SubSeq(x.get, 1, HUFF_LOOKAHEAD))]
      y == [x EXCEPT !.get = SubSeq(@, e[1] + 1, Len(@))]
  IN IF x.st # "ok" THEN x
     ELSE IF e[1] <= HUFF_LOOKAHEAD THEN [y EXCEPT !.val = e[2]]
     ELSE LongCodeFast(y, t, Number(SubSeq(x.get, 1, e[1])), e[1])
HUFF_DECODE_FAST(w, t) == LookUpFast(FILL_BIT_BUFFER_FAST(w), t)

Code(w, t, fast) == IF fast THEN HUFF_DECODE_FAST(w, t) ELSE HUFF_DECODE(w, t)
Bit(w, n, fast) ==
  IF w.st # "ok" THEN w
  ELSE IF n = 0 THEN [w EXCEPT !.val = 0] ELSE IF fast THEN FAST_BITS(w, n) ELSE GET_BITS(w, n)

\* jpeg_natural_order goes on after its end with the last coefficient.
NaturalOrder(k) == IF k >= DCTSIZE2 THEN DCTSIZE2 - 1 ELSE k

RECURSIVE decode_ac(_, _, _, _, _)
AcStored(y, t, c, k, s, fast) ==
  IF y.st # "ok" THEN y
  ELSE decode_ac([y EXCEPT !.unit[c][NaturalOrder(k)] = HUFF_EXTEND(y.val, s)], t, c, k + 1, fast)
AcRead(x, t, c, k, fast) ==
  LET r == x.val \div 16
      s == x.val % 16
  IN IF x.st # "ok" \/ (s = 0 /\ r # RunMax - 1) THEN x
     ELSE IF s = 0 THEN decode_ac(x, t, c, k + RunMax, fast)
     ELSE AcStored(Bit(x, s, fast), t, c, k + r, s, fast)
decode_ac(w, t, c, k, fast) == IF k >= DCTSIZE2 THEN w ELSE AcRead(Code(w, t, fast), t, c, k, fast)

RECURSIVE decode_blocks(_, _, _, _)
BlockRead(z, d, c, fast) == IF z.st # "ok" THEN z ELSE decode_blocks(z, d, c + 1, fast)
DcStored(y, s, d, c, fast) ==
  LET v == HUFF_EXTEND(y.val, s) + y.last_dc[c]
  IN IF y.st # "ok" THEN y
     ELSE BlockRead(decode_ac([y EXCEPT !.last_dc[c] = v, !.unit[c][0] = v], d["ac"], c, 1, fast), d, c, fast)
DcRead(x, d, c, fast) == IF x.st # "ok" THEN x ELSE DcStored(Bit(x, x.val, fast), x.val, d, c, fast)
decode_blocks(w, d, c, fast) ==
  IF c > Len(w.unit) THEN w ELSE DcRead(Code(w, d["dc"], fast), d, c, fast)

\* read_restart_marker: the marker that was met, or the next one.
RECURSIVE NextMarkerAt(_, _)
NextMarkerAt(bytes, i) ==
  IF i >= Len(bytes) \/ (bytes[i] = FF /\ bytes[i + 1] \notin {0, FF}) THEN i ELSE NextMarkerAt(bytes, i + 1)
process_restart(w) ==
  LET i == NextMarkerAt(w.bytes, w.pos + 1)
      x == IF w.unread # 0 THEN w
           ELSE IF i + 1 > w.avail THEN Starved(w)
           ELSE [w EXCEPT !.pos = i + 1, !.unread = w.bytes[i + 1]]
  IN IF x.st # "ok" THEN x
     ELSE IF x.unread # RST0 + x.num THEN [x EXCEPT !.st = "lost"]
     ELSE [x EXCEPT !.get = <<>>, !.unread = 0, !.insufficient = FALSE, !.togo = x.interval,
                    !.num = (@ + 1) % RestartNumbers, !.last_dc = [c \in DOMAIN @ |-> 0]]

\* The fast decoder is used when there are BUFSIZE bytes for each block, which may need more.
UseFast(w) == w.interval = 0 /\ w.avail - w.pos >= BUFSIZE * Len(w.unit) /\ w.unread = 0
\* If it met a marker, also one that what lies behind the buffer looked like, its work is undone.
MarkerMet(x) == x.unread # 0 \/ (x.st = "overrun" /\ x.beyond)
SlowIfMarker(x, w, d, fast) == IF fast /\ MarkerMet(x) THEN decode_blocks(w, d, 1, FALSE) ELSE x
decode_unit(w, d, fast) == SlowIfMarker(decode_blocks(w, d, 1, fast), w, d, fast)

\* mutant: what was read before the data ran out is not read again.
UndoNot(x, y) == y
\* The decoder goes back to the beginning of the unit, after the restart marker.
Undo(x, y) == [x EXCEPT !.st = y.st, !.unread = y.unread, !.insufficient = y.insufficient]
UnitDone(x, y) == IF y.st = "suspended" THEN Undo(x, y) ELSE [y EXCEPT !.togo = @ - 1]
AfterRestart(x, d) ==
  IF x.st # "ok" THEN x
  ELSE UnitDone(x, IF x.insufficient THEN x ELSE decode_unit(x, d, UseFast(x)))
decode_mcu(w, d) == AfterRestart(IF w.interval # 0 /\ w.togo = 0 THEN process_restart(w) ELSE w, d)

(***************************************************************************)
(* The bits in the encoder's word (64 bits: CHECKBUF31 and CHECKBUF47      *)
(* before a code is put; 32 bits: CHECKBUF15 after it).                    *)
(***************************************************************************)
Emptied(n, limit, bytes) == IF n > limit THEN n - 8 * bytes ELSE n
CHECKBUF15(n) == Emptied(n, 15, 2)
CHECKBUF31(n) == Emptied(n, 31, 4)
CHECKBUF47(n) == Emptied(n, 47, 6)

DcCode == \* PUT_BITS, CHECKBUF15, PUT_BITS, CHECKBUF15
  /\ h.part = "word" /\ h.at = "dc"
  /\ \/ /\ ~h.half /\ \E size \in 1..16 : h' = [h EXCEPT !.bits = h.bits + size, !.half = TRUE,
                                                        !.most = IF h.bits + size > @ THEN h.bits + size ELSE @]
     \/ /\ h.half
        /\ \E n \in 0..11 : LET b == CHECKBUF15(h.bits) + n IN
             h' = [h EXCEPT !.bits = CHECKBUF15(b), !.half = FALSE, !.at = "ac",
                            !.most = IF b > @ THEN b ELSE @]

\* EMIT_CODE: the bits that wait after it, and the most that waited.
EmitCode(bits, size, n) ==
  IF h.word = 64 THEN <<CHECKBUF31(bits) + size + n, CHECKBUF31(bits) + size + n>>
  ELSE LET b == CHECKBUF15(bits + size) + n
       IN <<CHECKBUF15(b), IF b > bits + size THEN b ELSE bits + size>>
EmitBits(bits, size) ==
  IF h.word = 64 THEN <<CHECKBUF47(bits) + size, CHECKBUF47(bits) + size>>
  ELSE <<CHECKBUF15(bits + size), bits + size>>
Emitted(b, at) == h' = [h EXCEPT !.bits = b[1], !.at = at, !.most = IF b[2] > @ THEN b[2] ELSE @]
AcCode ==
  /\ h.part = "word" /\ h.at = "ac"
  /\ \/ \E size \in 1..16, n \in 1..10 : Emitted(EmitCode(h.bits, size, n), "ac")
     \/ \E size \in 1..16 : Emitted(EmitBits(h.bits, size), "ac") \* a long run
     \/ \E size \in 1..16 : Emitted(EmitBits(h.bits, size), "dc") \* the end of the block
     \/ h' = [h EXCEPT !.at = "dc"]                              \* a block without zeros at its end

(***************************************************************************)
(* The parts.                                                              *)
(***************************************************************************)
Word(w) == [part |-> "word", word |-> w, bits |-> 0, at |-> "dc", half |-> FALSE, most |-> 0]

Encoder0(pic) == [put |-> <<>>, last_dc |-> [c \in DOMAIN pic.units[1] |-> 0], togo |-> pic.interval,
                  num |-> 0, out |-> <<>>]
Decoder0(pic) ==
  [get |-> <<>>, pos |-> 0, avail |-> 0, bytes |-> <<>>, st |-> "ok", val |-> 0, unread |-> 0,
   insufficient |-> FALSE, unit |-> <<>>, last_dc |-> [c \in DOMAIN pic.units[1] |-> 0],
   interval |-> pic.interval, togo |-> pic.interval, num |-> 0, beyond |-> FALSE]

\* start_pass_huff and finish_pass_gather: the tables of the picture.
Coder(pic, dc, ac) ==
  [part |-> "stream", phase |-> "encode", pic |-> pic, enc |-> Encoder0(pic),
   ctab |-> [dc |-> jpeg_make_c_derived_tbl(dc), ac |-> jpeg_make_c_derived_tbl(ac)],
   dtab |-> [dc |-> jpeg_make_d_derived_tbl(dc), ac |-> jpeg_make_d_derived_tbl(ac)],
   dec |-> Decoder0(pic), done |-> 0, units |-> <<>>, starts |-> <<>>, cut |-> 0]
CoderFor(pic, syms) == Coder(pic, jpeg_gen_optimal_table(Counts(syms, "dc")), jpeg_gen_optimal_table(Counts(syms, "ac")))
Stream(pic) == CoderFor(pic, Gathered(pic.units, pic.interval, 1, [c \in DOMAIN pic.units[1] |-> 0]))

HuffInit ==
  \/ \E f \in Freqs : h = [part |-> "freq", freq |-> f, tab |-> jpeg_gen_optimal_table(f)]
  \/ \E b \in Bits, same \in BOOLEAN :
       h = [part |-> "bits", tab |-> [bits |-> b, huffval |-> [p \in 1..6 |-> IF same THEN 0 ELSE 7 - p]]]
  \/ \E pic \in CodedPictures : h = Stream(pic)
  \/ \E w \in Words : h = Word(w)

StreamUnits(s) == s.pic.units
\* A unit is coded; where the last byte of its segment is is remembered for the cuts.
EncodeUnit ==
  /\ h.part = "stream" /\ h.phase = "encode" /\ h.done < Len(StreamUnits(h))
  /\ LET u == StreamUnits(h)[h.done + 1]
         e == encode_mcu_huff(h.enc, h.ctab, u, h.pic.interval)
         restarts == h.pic.interval # 0 /\ h.enc.togo = 0
     IN h' = [h EXCEPT !.enc = e, !.done = @ + 1,
                       !.starts = IF restarts
                                  THEN Append(@, Len(flush_bits(h.enc).out)) ELSE @]

Without(bytes, end, n) == SubSeq(bytes, 1, end - n) \o SubSeq(bytes, end + 1, Len(bytes))
\* finish_pass_huff, the end of the image, and perhaps bytes of a segment are lost.
EndOfImage ==
  /\ h.part = "stream" /\ h.phase = "encode" /\ h.done = Len(StreamUnits(h))
  /\ LET all == flush_bits(h.enc).out
         ends == Append(h.starts, Len(all))
         Begin(i) == IF i = 1 THEN 0 ELSE ends[i - 1] + 2
     IN \E n \in Cuts, i \in DOMAIN ends :
          /\ n <= ends[i] - Begin(i) /\ (n = 0 => i = 1)
          /\ h' = [h EXCEPT !.phase = "decode", !.done = 0, !.cut = IF n = 0 THEN 0 ELSE i,
                            !.dec.bytes = Without(all \o <<FF, EOI>>, ends[i], n)]

Zero == [k \in 0..DCTSIZE2 - 1 |-> 0]
\* beyond: whether what lies behind the buffer looks like a marker.
WorkOn(avail, beyond) ==
  decode_mcu([h.dec EXCEPT !.avail = avail, !.beyond = beyond,
                           !.unit = [c \in DOMAIN StreamUnits(h)[1] |-> Zero]], h.dtab)
AtRestHuff(w) == [w EXCEPT !.unit = <<>>, !.beyond = FALSE]
\* With the bytes that have arrived: the unit is read, or they end in it and more must come, or
\* bytes were read that are none and the count of those left has gone below zero.
UnitRead(w) ==
  /\ w.st = "ok"
  /\ h' = [h EXCEPT !.dec = AtRestHuff(w), !.done = @ + 1, !.units = Append(@, w.unit)]
UnitStarved(w, avail) ==
  /\ w.st = "suspended" /\ avail > h.dec.avail /\ avail < Len(h.dec.bytes)
  /\ h' = [h EXCEPT !.dec = [AtRestHuff(w) EXCEPT !.st = "ok"]]
UnitFailed(w) == w.st \in {"overrun", "undefined", "lost"} /\ h' = [h EXCEPT !.dec = AtRestHuff(w)]
UnitWorked(w, avail) == UnitRead(w) \/ UnitStarved(w, avail) \/ UnitFailed(w)
DecodeUnit ==
  /\ h.part = "stream" /\ h.phase = "decode" /\ h.done < Len(StreamUnits(h)) /\ h.dec.st = "ok"
  /\ \E avail \in h.dec.avail..Len(h.dec.bytes), beyond \in BOOLEAN :
       UnitWorked(WorkOn(avail, beyond), avail)

HuffNext == DcCode \/ AcCode \/ EncodeUnit \/ EndOfImage \/ DecodeUnit
HuffSpec == HuffInit /\ [][HuffNext]_huffVars

------------------------------------------------------------------------------
(***************************************************************************)
(* A table made from frequencies has a code for every symbol that occurs,  *)
(* of no more than 16 bits, none of ones only and none the beginning of    *)
(* another, and no symbol has a longer code than a rarer one.              *)
(***************************************************************************)
TableServes ==
  h.part = "freq" =>
    LET code == jpeg_make_c_derived_tbl(h.tab) IN
    /\ EncoderAccepts(h.tab)
    /\ DOMAIN code = {s \in DOMAIN h.freq : h.freq[s] # 0}
    /\ \A a \in DOMAIN code, b \in DOMAIN code : h.freq[a] > h.freq[b] => Len(code[a]) <= Len(code[b])

CodeRoom(size) == 2^CodeLimit - SumOver([s \in DOMAIN size |-> 2^(CodeLimit - size[s])], DOMAIN size)
Reserved(size) == CHOOSE l \in 1..CodeLimit : 2^(CodeLimit - l) <= CodeRoom(size) /\ \A k \in 1..l - 1 : 2^(CodeLimit - k) > CodeRoom(size)
Cost(freq, size) == SumOver([s \in DOMAIN size |-> freq[s] * size[s]], DOMAIN size) + Reserved(size)

(***************************************************************************)
(* If no code had to be shortened, no other table makes the picture        *)
(* shorter, the code that is reserved counted as if it occurred once.      *)
(***************************************************************************)
TableIsBest ==
  h.part = "freq" /\ (\A s \in DOMAIN CodeSizes(h.freq) : CodeSizes(h.freq)[s] <= CodeLimit) =>
    LET code == jpeg_make_c_derived_tbl(h.tab)
        size == [s \in DOMAIN code |-> Len(code[s])]
    IN \A other \in [DOMAIN code -> 1..CodeLimit] :
         CodeRoom(other) > 0 => Cost(h.freq, size) <= Cost(h.freq, other)

(***************************************************************************)
(* A table is accepted only if its codes can be told apart; then the       *)
(* decoder finds the symbol of every code the encoder makes, whatever      *)
(* follows it, by its lookup table and bit by bit, fast and slow.          *)
(***************************************************************************)
DecodersAgree ==
  h.part \in {"freq", "bits"} /\ EncoderAccepts(h.tab) =>
    LET code == jpeg_make_c_derived_tbl(h.tab)
        t == jpeg_make_d_derived_tbl(h.tab)
        Work(bits) == [get |-> bits, pos |-> 0, avail |-> 0, bytes |-> <<>>, st |-> "ok", val |-> 0, unread |-> EOI,
                       insufficient |-> FALSE]
        Finds(w, s, rest) == w.st = "ok" /\ w.val = s /\ w.get = rest
    IN \A s \in DOMAIN code, rest \in [1..4 -> {0, 1}] :
         LET bits == code[s] \o rest IN
         /\ Finds(HUFF_DECODE(Work(bits), t), s, rest)
         /\ Finds(jpeg_huff_decode(Work(bits), t, 1), s, rest)
         /\ Finds(HUFF_DECODE_FAST(Work(bits), t), s, rest)
(***************************************************************************)
(* No code of a table that is accepted has ones only: fill bits are none.  *)
(***************************************************************************)
OnesAreReserved ==
  h.part \in {"freq", "bits"} /\ EncoderAccepts(h.tab) =>
    LET code == jpeg_make_c_derived_tbl(h.tab) IN
    \A s \in DOMAIN code : \E i \in DOMAIN code[s] : code[s][i] = 0

RECURSIVE SymbolsFrom(_, _, _, _)
SymbolsFrom(units, interval, n, last) ==
  IF n > Len(units) THEN {}
  ELSE LET l == IF interval # 0 /\ n > 1 /\ (n - 1) % interval = 0 THEN [c \in DOMAIN last |-> 0] ELSE last
       IN UNION {LET s == SymbolsOf(units[n][c], l[c]) IN {s[i] : i \in DOMAIN s} : c \in DOMAIN l}
          \cup SymbolsFrom(units, interval, n + 1, [c \in DOMAIN l |-> units[n][c][0]])

(***************************************************************************)
(* Every symbol of the picture was counted and so has a code.              *)
(***************************************************************************)
EverySymbolHasCode ==
  h.part = "stream" =>
    \A s \in SymbolsFrom(StreamUnits(h), h.pic.interval, 1, [c \in DOMAIN StreamUnits(h)[1] |-> 0]) :
      Sym(s) \in DOMAIN h.ctab[s.tab]

SegmentOf(n) == IF h.pic.interval = 0 THEN 1 ELSE 1 + ((n - 1) \div h.pic.interval)

(***************************************************************************)
(* The units decoded are those that were coded, wherever the data ran out, *)
(* but for the segment that lacks bytes: a restart marker ends the harm.   *)
(* (Decoding stops where NeverPastBuffer fails.)                           *)
(***************************************************************************)
UnitsArrive ==
  h.part = "stream" /\ h.phase = "decode" =>
    \A n \in DOMAIN h.units : SegmentOf(n) # h.cut => h.units[n] = StreamUnits(h)[n]
(***************************************************************************)
(* Once a unit of a segment lacked its data, the units after it are zero.  *)
(***************************************************************************)
RestIsBlank ==
  h.part = "stream" /\ h.phase = "decode" =>
    \A n \in DOMAIN h.units : SegmentOf(n) = h.cut =>
      \/ n = 1 \/ SegmentOf(n - 1) # SegmentOf(n)
      \/ h.units[n - 1] = StreamUnits(h)[n - 1]
      \/ h.units[n] = [c \in DOMAIN StreamUnits(h)[1] |-> Zero]

(***************************************************************************)
(* The encoder never has more bits waiting than its word holds.            *)
(***************************************************************************)
WordHolds == h.part = "word" => h.most <= h.word

(***************************************************************************)
(* A unit is decoded from the bytes in the buffer: the fast decoder does   *)
(* not count more bytes as read than there are.                            *)
(***************************************************************************)
NeverPastBuffer == h.part = "stream" => h.dec.st # "overrun"

(***************************************************************************)
(* The types, and: less than a byte waits in the encoder, the bits of two  *)
(* fills in the decoder, which finds the restart marker it looks for and   *)
(* meets no bits that are no code.                                         *)
(***************************************************************************)
HuffTypeOK ==
  /\ h.part \in {"freq", "bits", "stream", "word"}
  /\ h.part = "stream" => /\ h.phase \in {"encode", "decode"} /\ h.done \in 0..Len(StreamUnits(h))
                          /\ h.dec.st \in {"ok", "overrun"} /\ Len(h.enc.put) < BYTE /\ Len(h.dec.get) <= 12

(* The tables made from frequencies have a code for every symbol, as short *)
(* as can be, which all decoders tell apart.                               *)
CodesWork ==
  /\ TableServes
  /\ TableIsBest
  /\ DecodersAgree
  /\ OnesAreReserved
  /\ EverySymbolHasCode

(* Units go through bytes and come back, whether the bytes come at once, in*)
(* pieces or not at all; no bit is lost on the way.                        *)
StreamArrives ==
  /\ HuffTypeOK
  /\ UnitsArrive
  /\ RestIsBlank
  /\ WordHolds
=============================================================================

------------------------------ MODULE JpegDct ------------------------------
(***************************************************************************)
(* The discrete cosine transforms and the quantization: jidctint.c,        *)
(* jidctred.c, jidctfst.c, jfdctint.c, jfdctfst.c, the tables of           *)
(* jddctmgr.c and jcdctmgr.c and the sample clamp of jdmaster.c.           *)
(*                                                                         *)
(* A block is a function of 0..63, row by row.  Both passes of a routine   *)
(* run the same one-dimensional kernel, first on the columns, then on the  *)
(* rows, and differ in the shift that follows; what the code shifts left   *)
(* instead in the middle of the first pass is the same number.  A kernel   *)
(* gets its constant term, scaled and with the rounding added, as dc.      *)
(* Constants are the source's, times 2^13 (2^8 in the fast routines).      *)
(*                                                                         *)
(* The floating point routines are left out: TLC computes on integers.     *)
(***************************************************************************)
EXTENDS Integers, Sequences

Column(b, c) == [i \in 0..7 |-> b[8 * i + c]]

(* The n samples from the even part, that is mirrored, and the odd part,   *)
(* that is mirrored with the sign changed.                                 *)
Butterfly(even, odd) ==
  LET half == Len(odd)
  IN [k \in 1..half |-> even[k] + odd[k]] \o SubSeq(even, half + 1, Len(even))
       \o [k \in 1..half |-> even[half + 1 - k] - odd[half + 1 - k]]

Eight(f(_)) == <<f(0), f(1), f(2), f(3), f(4), f(5), f(6), f(7)>>

-----------------------------------------------------------------------------
(* One-dimensional inverse kernels of n points, sqrt(n) and 2^13 too large.*)
idct8(dc, x) ==
  LET z1 == 4433*(x[2] + x[6])  tmp2 == z1 - 15137*x[6]  tmp3 == z1 + 6270*x[2]
      tmp0 == dc + 8192*x[4]  tmp1 == dc - 8192*x[4]  tmp10 == tmp0 + tmp3
      tmp13 == tmp0 - tmp3  tmp11 == tmp1 + tmp2  tmp12 == tmp1 - tmp2  z3 == x[7] + x[3]
      z4 == x[5] + x[1]  z5 == 9633*(z3 + z4)  z1b == -7373*(x[7] + x[1])
      z2 == -20995*(x[5] + x[3])  z3b == -16069*z3 + z5  z4b == -3196*z4 + z5
      tmp0b == 2446*x[7] + z1b + z3b  tmp1b == 16819*x[5] + z2 + z4b
      tmp2b == 25172*x[3] + z2 + z3b  tmp3b == 12299*x[1] + z1b + z4b
  IN Butterfly(<<tmp10, tmp11, tmp12, tmp13>>, <<tmp3b, tmp2b, tmp1b, tmp0b>>)

idct3(dc, x) ==
  LET tmp12 == 5793*x[2]  tmp10 == dc + tmp12  tmp2 == dc - tmp12 - tmp12
      tmp0 == 10033*x[1]
  IN Butterfly(<<tmp10, tmp2>>, <<tmp0>>)

idct5(dc, x) ==
  LET z1 == 6476*(x[2] + x[4])  z2 == 2896*(x[2] - x[4])  z3 == dc + z2  tmp10 == z3 + z1
      tmp11 == z3 - z1  tmp12 == dc - 4*z2  z1a == 6810*(x[1] + x[3])
      tmp0 == z1a + 4209*x[1]  tmp1 == z1a - 17828*x[3]
  IN Butterfly(<<tmp10, tmp11, tmp12>>, <<tmp0, tmp1>>)

idct6(dc, x) ==
  LET tmp10 == 5793*x[4]  tmp1 == dc + tmp10  tmp11 == dc - tmp10 - tmp10
      tmp0 == 10033*x[2]  tmp10a == tmp1 + tmp0  tmp12 == tmp1 - tmp0
      tmp1a == 2998*(x[1] + x[5])  tmp0a == tmp1a + 8192*(x[1] + x[3])
      tmp2 == tmp1a + 8192*(x[5] - x[3])  tmp1b == 8192*(x[1] - x[3] - x[5])
  IN Butterfly(<<tmp10a, tmp11, tmp12>>, <<tmp0a, tmp1b, tmp2>>)

idct7(dc, x) ==
  LET tmp10 == 7223*(x[4] - x[6])  tmp12 == 2578*(x[2] - x[4])
      tmp11 == tmp10 + tmp12 + dc - 15083*x[4]  tmp0 == x[2] + x[6]
      tmp0a == 10438*tmp0 + dc  tmp10a == tmp10 + tmp0a - 637*x[6]
      tmp12a == tmp12 + tmp0a - 20239*x[2]  tmp13 == dc + 11585*(x[4] - tmp0)
      tmp1 == 7663*(x[1] + x[3])  tmp2 == 1395*(x[1] - x[3])  tmp2a == -11295*(x[3] + x[5])
      tmp1b == tmp1 + tmp2 + tmp2a  z2 == 5027*(x[1] + x[5])  tmp0c == tmp1 - tmp2 + z2
      tmp2b == tmp2a + z2 + 15326*x[5]
  IN Butterfly(<<tmp10a, tmp11, tmp12a, tmp13>>, <<tmp0c, tmp1b, tmp2b>>)

idct9(dc, x) ==
  LET tmp3 == 5793*x[6]  tmp1 == dc + tmp3  tmp2 == dc - tmp3 - tmp3
      tmp0 == 5793*(x[2] - x[4])  tmp11 == tmp2 + tmp0  tmp14 == tmp2 - tmp0 - tmp0
      tmp0a == 10887*(x[2] + x[4])  tmp2a == 8875*x[2]  tmp3a == 2012*x[4]
      tmp10 == tmp1 + tmp0a - tmp3a  tmp12 == tmp1 - tmp0a + tmp2a
      tmp13 == tmp1 - tmp2a + tmp3a  z2 == -10033*x[3]  tmp2b == 7447*(x[1] + x[5])
      tmp3b == 3962*(x[1] + x[7])  tmp0b == tmp2b + tmp3b - z2  tmp1a == 11409*(x[5] - x[7])
      tmp2c == tmp2b + z2 - tmp1a  tmp3c == tmp3b + z2 + tmp1a
      tmp1b == 10033*(x[1] - x[5] - x[7])
  IN Butterfly(<<tmp10, tmp11, tmp12, tmp13, tmp14>>,
               <<tmp0b, tmp1b, tmp2c, tmp3c>>)

idct10(dc, x) ==
  LET z1 == 9373*x[4]  z2 == 3580*x[4]  tmp10 == dc + z1  tmp11 == dc - z2
      tmp22 == dc - 2*(z1 - z2)  z1a == 6810*(x[2] + x[6])  tmp12 == z1a + 4209*x[2]
      tmp13 == z1a - 17828*x[6]  tmp20 == tmp10 + tmp12  tmp24 == tmp10 - tmp12
      tmp21 == tmp11 + tmp13  tmp23 == tmp11 - tmp13  z3 == 8192*x[5]  tmp11a == x[3] + x[7]
      tmp13a == x[3] - x[7]  tmp12a == 2531*tmp13a  z2a == 7791*tmp11a  z4 == z3 + tmp12a
      tmp10a == 11443*x[1] + z2a + z4  tmp14 == 1812*x[1] - z2a + z4  z2b == 4815*tmp11a
      z4a == z3 - tmp12a - 4096*tmp13a  tmp12b == 8192*(x[1] - tmp13a) - z3
      tmp11b == 10323*x[1] - z2b - z4a  tmp13b == 5260*x[1] - z2b + z4a
  IN Butterfly(<<tmp20, tmp21, tmp22, tmp23, tmp24>>,
               <<tmp10a, tmp11b, tmp12b, tmp13b, tmp14>>)

idct11(dc, x) ==
  LET tmp20 == 20862*(x[4] - x[6])  tmp23 == 3529*(x[4] - x[2])  z4 == x[2] + x[6]
      z4a == z4 - x[4]  tmp25 == dc + 11116*z4a  tmp21 == tmp20 + tmp23 + tmp25 - 14924*x[4]
      tmp20a == tmp20 + tmp25 + 17333*x[6]  tmp23a == tmp23 + tmp25 - 12399*x[2]
      tmp24 == -9467*z4 + tmp25  tmp22 == tmp24 - 6461*x[6]
      tmp24b == tmp24 + 15929*x[4] - 11395*x[2]  tmp25a == dc - 11585*z4a
      tmp11 == x[1] + x[3]  tmp14 == 3264*(tmp11 + x[5] + x[7])  tmp11a == 7274*tmp11
      tmp12 == 5492*(x[1] + x[5])  tmp13 == tmp14 + 3000*(x[1] + x[7])
      tmp10 == tmp11a + tmp12 + tmp13 - 7562*x[1]  z1 == tmp14 - 9527*(x[3] + x[5])
      tmp12a == tmp12 + z1 - 9766*x[5]  z1a == -14731*(x[3] + x[7])
      tmp11c == tmp11a + z1 + 16984*x[3] + z1a  tmp13a == tmp13 + z1a + 17223*x[7]
      tmp14a == tmp14 - 12019*x[3] + 8203*x[5] - 13802*x[7]
  IN Butterfly(<<tmp20a, tmp21, tmp22, tmp23a, tmp24b, tmp25a>>,
               <<tmp10, tmp11c, tmp12a, tmp13a, tmp14a>>)

idct12(dc, x) ==
  LET z4 == 10033*x[4]  tmp10 == dc + z4  tmp11 == dc - z4  z4a == 11190*x[2]
      z1 == 8192*x[2]  z2 == 8192*x[6]  tmp12 == z1 - z2  tmp21 == dc + tmp12
      tmp24 == dc - tmp12  tmp12a == z4a + z2  tmp20 == tmp10 + tmp12a
      tmp25 == tmp10 - tmp12a  tmp12b == z4a - z1 - z2  tmp22 == tmp11 + tmp12b
      tmp23 == tmp11 - tmp12b  tmp11a == 10703*x[3]  tmp14 == -4433*x[3]
      tmp10a == x[1] + x[5]  tmp15 == 7053*(tmp10a + x[7])  tmp12c == tmp15 + 2139*tmp10a
      tmp10b == tmp12c + tmp11a + 2295*x[1]  tmp13 == -8565*(x[5] + x[7])
      tmp12d == tmp12c + tmp13 + tmp14 - 12112*x[5]
      tmp13a == tmp13 + tmp15 - tmp11a + 12998*x[7]
      tmp15a == tmp15 + tmp14 - 5540*x[1] - 16244*x[7]  z1a == x[1] - x[7]
      z2a == x[3] - x[5]  z3 == 4433*(z1a + z2a)  tmp11b == z3 + 6270*z1a
      tmp14a == z3 - 15137*z2a
  IN Butterfly(<<tmp20, tmp21, tmp22, tmp23, tmp24, tmp25>>,
               <<tmp10b, tmp11b, tmp12d, tmp13a, tmp14a, tmp15a>>)

idct13(dc, x) ==
  LET tmp10 == x[4] + x[6]  tmp11 == x[4] - x[6]  tmp12 == 9465*tmp10
      tmp13 == 793*tmp11 + dc  tmp20 == 11249*x[2] + tmp12 + tmp13
      tmp22 == 4108*x[2] - tmp12 + tmp13  tmp12a == 2592*tmp10  tmp13a == 3989*tmp11 + dc
      tmp21 == 8672*x[2] - tmp12a + tmp13a  tmp25 == -10258*x[2] + tmp12a + tmp13a
      tmp12b == 3570*tmp10  tmp13b == 7678*tmp11 - dc  tmp23 == -1396*x[2] - tmp12b - tmp13b
      tmp24 == -6581*x[2] + tmp12b - tmp13b  tmp26 == 11585*(tmp11 - x[2]) + dc
      tmp11a == 10832*(x[1] + x[3])  tmp12c == 9534*(x[1] + x[5])  tmp15 == x[1] + x[7]
      tmp13c == 7682*tmp15  tmp10a == tmp11a + tmp12c + tmp13c - 16549*x[1]
      tmp14 == -2773*(x[3] + x[5])  tmp14a == -9534*(x[3] + x[7])
      tmp11c == tmp11a + tmp14 + 6859*x[3] + tmp14a  tmp14b == -5384*(x[5] + x[7])
      tmp12e == tmp12c + tmp14 - 12879*x[5] + tmp14b
      tmp13e == tmp13c + tmp14a + 18068*x[7] + tmp14b  tmp15a == 2773*tmp15
      z1 == 7682*(x[5] - x[3])  tmp14d == tmp15a + 2611*x[1] - 3818*x[3] + z1
      tmp15b == tmp15a + z1 + 3150*x[5] - 14273*x[7]
  IN Butterfly(<<tmp20, tmp21, tmp22, tmp23, tmp24, tmp25, tmp26>>,
               <<tmp10a, tmp11c, tmp12e, tmp13e, tmp14d, tmp15b>>)

idct14(dc, x) ==
  LET z2 == 10438*x[4]  z3 == 2578*x[4]  z4 == 7223*x[4]  tmp10 == dc + z2  tmp11 == dc + z3
      tmp12 == dc - z4  tmp23 == dc - 2*(z2 + z3 - z4)  z3a == 9058*(x[2] + x[6])
      tmp13 == z3a + 2237*x[2]  tmp14 == z3a - 14084*x[6]  tmp15 == 5027*x[2] - 11295*x[6]
      tmp20 == tmp10 + tmp13  tmp26 == tmp10 - tmp13  tmp21 == tmp11 + tmp14
      tmp25 == tmp11 - tmp14  tmp22 == tmp12 + tmp15  tmp24 == tmp12 - tmp15
      z4a == 8192*x[7]  tmp14a == x[1] + x[5]  tmp11a == 10935*(x[1] + x[3])
      tmp12a == 9810*tmp14a  tmp10a == tmp11a + tmp12a + z4a - 9232*x[1]
      tmp14b == 6164*tmp14a  z1 == x[1] - x[3]  tmp15a == 3826*z1 - z4a
      tmp16 == tmp14b - 8693*x[1] + tmp15a  tmp13a == -1297*(x[3] + x[5]) - z4a
      tmp11b == tmp11a + tmp13a - 3474*x[3]  tmp12b == tmp12a + tmp13a - 19447*x[5]
      tmp13b == 11512*(x[5] - x[3])  tmp14c == tmp14b + tmp13b + z4a - 13850*x[5]
      tmp15b == tmp15a + tmp13b + 5529*x[3]  tmp13c == 8192*(z1 - x[5]) + z4a
  IN Butterfly(<<tmp20, tmp21, tmp22, tmp23, tmp24, tmp25, tmp26>>,
               <<tmp10a, tmp11b, tmp12b, tmp13c, tmp14c, tmp15b, tmp16>>)

idct15(dc, x) ==
  LET tmp10 == 3580*x[6]  tmp11 == 9373*x[6]  tmp12 == dc - tmp10  tmp13 == dc + tmp11
      z1 == dc - 2*(tmp11 - tmp10)  z4 == x[2] - x[4]  z3 == x[4] + x[2]
      tmp10a == 10958*z3  tmp11a == 374*z4  z2 == 11795*x[2]
      tmp20 == tmp13 + tmp10a + tmp11a  tmp23 == tmp12 - tmp10a + tmp11a + z2
      tmp10b == 4482*z3  tmp11b == 3271*z4  tmp25 == tmp13 - tmp10b - tmp11b
      tmp26 == tmp12 + tmp10b - tmp11b - z2  tmp10c == 6476*z3  tmp11c == 2896*z4
      tmp21 == tmp12 + tmp10c + tmp11c  tmp24 == tmp13 - tmp10c + tmp11c
      tmp11d == tmp11c + tmp11c  tmp22 == z1 + tmp11d  tmp27 == z1 - tmp11d - tmp11d
      z3a == 10033*x[5]  tmp13a == x[3] - x[7]  tmp15 == 6810*(x[1] + tmp13a)
      tmp11e == tmp15 + 4209*x[1]  tmp14 == tmp15 - 17828*tmp13a  tmp13b == -6810*x[3]
      tmp15a == -11018*x[3]  z2a == x[1] - x[7]  tmp12a == z3a + 11522*z2a
      tmp10d == tmp12a + 20131*x[7] - tmp15a  tmp16 == tmp12a - 9113*x[1] + tmp13b
      tmp12b == 10033*z2a - z3a  z2b == 4712*(x[1] + x[7])
      tmp13c == tmp13b + z2b + 3897*x[1] - z3a  tmp15b == tmp15a + z2b - 7121*x[7] + z3a
  IN Butterfly(<<tmp20, tmp21, tmp22, tmp23, tmp24, tmp25, tmp26, tmp27>>,
               <<tmp10d, tmp11e, tmp12b, tmp13c, tmp14, tmp15b, tmp16>>)

idct16(dc, x) ==
  LET tmp1 == 10703*x[4]  tmp2 == 4433*x[4]  tmp10 == dc + tmp1  tmp11 == dc - tmp1
      tmp12 == dc + tmp2  tmp13 == dc - tmp2  z3 == x[2] - x[6]  z4 == 2260*z3
      z3a == 11363*z3  tmp0 == z3a + 20995*x[6]  tmp1a == z4 + 7373*x[2]
      tmp2a == z3a - 4926*x[2]  tmp3 == z4 - 4176*x[6]  tmp20 == tmp10 + tmp0
      tmp27 == tmp10 - tmp0  tmp21 == tmp12 + tmp1a  tmp26 == tmp12 - tmp1a
      tmp22 == tmp13 + tmp2a  tmp25 == tmp13 - tmp2a  tmp23 == tmp11 + tmp3
      tmp24 == tmp11 - tmp3  tmp11a == x[1] + x[5]  tmp1b == 11086*(x[1] + x[3])
      tmp2b == 10217*tmp11a  tmp3a == 8956*(x[1] + x[7])  tmp10a == 7350*(x[1] - x[7])
      tmp11b == 5461*tmp11a  tmp12a == 3363*(x[1] - x[3])
      tmp0a == tmp1b + tmp2b + tmp3a - 18730*x[1]
      tmp13a == tmp10a + tmp11b + tmp12a - 15038*x[1]  z1 == 1136*(x[3] + x[5])
      z1a == 11529*(x[5] - x[3])  z2 == x[3] + x[7]  z1b == -5461*z2
      tmp1d == tmp1b + z1 + 589*x[3] + z1b  z2a == -10217*z2
      tmp12c == tmp12a + z1a + 16154*x[3] + z2a  z2b == -11086*(x[5] + x[7])
      tmp2d == tmp2b + z1 - 9222*x[5] + z2b  tmp3c == tmp3a + z1b + 8728*x[7] + z2b
      z2c == 3363*(x[7] - x[5])  tmp10c == tmp10a + z2a + 25733*x[7] + z2c
      tmp11d == tmp11b + z1a - 6278*x[5] + z2c
  IN Butterfly(<<tmp20, tmp21, tmp22, tmp23, tmp24, tmp25, tmp26, tmp27>>,
               <<tmp0a, tmp1d, tmp2d, tmp3c, tmp10c, tmp11d, tmp12c, tmp13a>>)

(* The reduced kernels evaluate the 8 points and average neighbours.       *)
idct4(dc, x) ==
  LET tmp2 == 15137*x[2] - 6270*x[6]
  IN Butterfly(<<dc + tmp2, dc - tmp2>>,
               <<-4176*x[7] - 4926*x[5] + 7373*x[3] + 20995*x[1],
                 -1730*x[7] + 11893*x[5] - 17799*x[3] + 8697*x[1]>>)

idct2(dc, x) ==
  Butterfly(<<dc>>, <<-5906*x[7] + 6967*x[5] - 10426*x[3] + 29692*x[1]>>)

-----------------------------------------------------------------------------

(* sample_range_limit behind IDCT_range_limit and RANGE_MASK: the clamp to *)
(* a sample, which repeats after 1024.                                     *)
RangeLimit(v) ==
  LET m == v % 1024
  IN IF m < 128 THEN m + 128
     ELSE IF m < 512 THEN 255
     ELSE IF m < 896 THEN 0
     ELSE m - 896

CONST_BITS == 13
PASS1_BITS == 2

(* Both passes of a routine over the frequencies it looks at.  extra is    *)
(* the number of bits by which the kernel scales its constant term more    *)
(* than 2^13.  Where the frequencies in tested are all 0 a pass takes a    *)
(* shortcut (never if tested is empty).                                    *)
Shift(v, n) == (v + 2^(n - 1)) \div 2^n

Pass(kernel(_, _), x, extra, shift) ==
  kernel(x[0] * 2^(CONST_BITS + extra) + 2^(shift - 1), x)

Zero(x, freqs) == \A i \in freqs \ {0} : x[i] = 0

InverseDct(kernel(_, _), n, freqs, extra, tested, b) ==
  LET column(c) ==
        IF c \notin freqs THEN <<>>
        ELSE IF tested # {} /\ Zero(Column(b, c), tested)
        THEN [k \in 1..n |-> b[c] * 2^PASS1_BITS]
        ELSE LET shift == CONST_BITS - PASS1_BITS + extra
                 y == Pass(kernel, Column(b, c), extra, shift)
             IN SubSeq([k \in 1..n |-> y[k] \div 2^shift], 1, n)
      ws == Eight(column)
      row(r) == [c \in 0..7 |-> IF c \in freqs THEN ws[c + 1][r] ELSE 0]
      samples(x) ==
        IF tested # {} /\ Zero(x, tested)
        THEN [k \in 1..n |-> RangeLimit(Shift(x[0], PASS1_BITS + 3))]
        ELSE LET shift == CONST_BITS + PASS1_BITS + 3 + extra
                 y == Pass(kernel, x, extra, shift)
             IN [k \in 1..n |-> RangeLimit(y[k] \div 2^shift)]
  IN [r \in 1..n |-> samples(row(r))]

jpeg_idct_islow(b) == InverseDct(idct8, 8, 0..7, 0, 1..7, b)
jpeg_idct_4x4(b) == InverseDct(idct4, 4, (0..7) \ {4}, 1, {1, 2, 3, 5, 6, 7}, b)
jpeg_idct_2x2(b) == InverseDct(idct2, 2, {0, 1, 3, 5, 7}, 2, {1, 3, 5, 7}, b)
jpeg_idct_1x1(b) == << <<RangeLimit(Shift(b[0], 3))>> >>
jpeg_idct_3x3(b) == InverseDct(idct3, 3, 0..2, 0, {}, b)
jpeg_idct_5x5(b) == InverseDct(idct5, 5, 0..4, 0, {}, b)
jpeg_idct_6x6(b) == InverseDct(idct6, 6, 0..5, 0, {}, b)
jpeg_idct_7x7(b) == InverseDct(idct7, 7, 0..6, 0, {}, b)
jpeg_idct_9x9(b) == InverseDct(idct9, 9, 0..7, 0, {}, b)
jpeg_idct_10x10(b) == InverseDct(idct10, 10, 0..7, 0, {}, b)
jpeg_idct_11x11(b) == InverseDct(idct11, 11, 0..7, 0, {}, b)
jpeg_idct_12x12(b) == InverseDct(idct12, 12, 0..7, 0, {}, b)
jpeg_idct_13x13(b) == InverseDct(idct13, 13, 0..7, 0, {}, b)
jpeg_idct_14x14(b) == InverseDct(idct14, 14, 0..7, 0, {}, b)
jpeg_idct_15x15(b) == InverseDct(idct15, 15, 0..7, 0, {}, b)
jpeg_idct_16x16(b) == InverseDct(idct16, 16, 0..7, 0, {}, b)

(* The switch of start_pass on the size a block has in the output.         *)
jpeg_idct(n, b) ==
  CASE n = 1 -> jpeg_idct_1x1(b)   [] n = 2 -> jpeg_idct_2x2(b)   [] n = 3 -> jpeg_idct_3x3(b)
    [] n = 4 -> jpeg_idct_4x4(b)   [] n = 5 -> jpeg_idct_5x5(b)   [] n = 6 -> jpeg_idct_6x6(b)
    [] n = 7 -> jpeg_idct_7x7(b)   [] n = 8 -> jpeg_idct_islow(b) [] n = 9 -> jpeg_idct_9x9(b)
    [] n = 10 -> jpeg_idct_10x10(b) [] n = 11 -> jpeg_idct_11x11(b) [] n = 12 -> jpeg_idct_12x12(b)
    [] n = 13 -> jpeg_idct_13x13(b) [] n = 14 -> jpeg_idct_14x14(b) [] n = 15 -> jpeg_idct_15x15(b)
    [] n = 16 -> jpeg_idct_16x16(b)

-----------------------------------------------------------------------------
(* The fast routine multiplies with 8 bits and cuts every product off; its *)
(* tables carry what is left of the scaling.                               *)
Fast(v, const) == (v * const) \div 256

fast_idct(x) ==
  LET tmp13 == x[2] + x[6]  tmp12 == Fast(x[2] - x[6], 362) - tmp13
      z13 == x[5] + x[3]  z10 == x[5] - x[3]  z11 == x[1] + x[7]  z12 == x[1] - x[7]
      z5 == Fast(z10 + z12, 473)  tmp7 == z11 + z13  tmp6 == Fast(z10, -669) + z5 - tmp7
      tmp5 == Fast(z11 - z13, 362) - tmp6  tmp4 == Fast(z12, 277) - z5 + tmp5
  IN Butterfly(<<x[0] + x[4] + tmp13, x[0] - x[4] + tmp12, x[0] - x[4] - tmp12, x[0] + x[4] - tmp13>>,
               <<tmp7, tmp6, tmp5, -tmp4>>)

jpeg_idct_ifast(b) ==
  LET column(c) ==
        IF Zero(Column(b, c), 1..7) THEN [k \in 1..8 |-> b[c]] ELSE fast_idct(Column(b, c))
      ws == Eight(column)
      samples(x) == LET y == fast_idct(x)
                    IN [k \in 1..8 |-> RangeLimit((IF Zero(x, 1..7) THEN x[0] ELSE y[k]) \div 32)]
  IN [r \in 1..8 |-> samples([c \in 0..7 |-> ws[c + 1][r]])]

aanscales ==
  LET rows == << <<16384, 22725, 21407, 19266, 16384, 12873,  8867,  4520>>,
                 <<22725, 31521, 29692, 26722, 22725, 17855, 12299,  6270>>,
                 <<21407, 29692, 27969, 25172, 21407, 16819, 11585,  5906>>,
                 <<19266, 26722, 25172, 22654, 19266, 15137, 10426,  5315>>,
                 <<16384, 22725, 21407, 19266, 16384, 12873,  8867,  4520>>,
                 <<12873, 17855, 16819, 15137, 12873, 10114,  6967,  3552>>,
                 << 8867, 12299, 11585, 10426,  8867,  6967,  4799,  2446>>,
                 << 4520,  6270,  5906,  5315,  4520,  3552,  2446,  1247>> >>
  IN [i \in 0..63 |-> rows[(i \div 8) + 1][(i % 8) + 1]]

(* The multipliers of a quantization table. *)
multipliers(method, quantval) ==
  [i \in 0..63 |->
     IF method = "ifast" THEN Shift(quantval[i] * aanscales[i], 12) ELSE quantval[i]]

Dequantize(coefs, table) == [i \in 0..63 |-> coefs[i] * table[i]]

-----------------------------------------------------------------------------
(* Forward transforms: rows first. *)
fdct8(x) ==
  LET tmp0 == x[0] + x[7]  tmp7 == x[0] - x[7]  tmp1 == x[1] + x[6]  tmp6 == x[1] - x[6]
      tmp2 == x[2] + x[5]  tmp5 == x[2] - x[5]  tmp3 == x[3] + x[4]  tmp4 == x[3] - x[4]
      tmp10 == tmp0 + tmp3  tmp13 == tmp0 - tmp3  tmp11 == tmp1 + tmp2  tmp12 == tmp1 - tmp2
      z1 == 4433 * (tmp12 + tmp13)
      z5 == 9633 * (tmp4 + tmp6 + tmp5 + tmp7)
      z1a == -7373 * (tmp4 + tmp7)  z2 == -20995 * (tmp5 + tmp6)
      z3 == z5 - 16069 * (tmp4 + tmp6)  z4 == z5 - 3196 * (tmp5 + tmp7)
  IN <<8192 * (tmp10 + tmp11), 12299 * tmp7 + z1a + z4, z1 + 6270 * tmp13,
       25172 * tmp6 + z2 + z3, 8192 * (tmp10 - tmp11), 16819 * tmp5 + z2 + z4,
       z1 - 15137 * tmp12, 2446 * tmp4 + z1a + z3>>

fast_fdct(x) ==
  LET tmp0 == x[0] + x[7]  tmp7 == x[0] - x[7]  tmp1 == x[1] + x[6]  tmp6 == x[1] - x[6]
      tmp2 == x[2] + x[5]  tmp5 == x[2] - x[5]  tmp3 == x[3] + x[4]  tmp4 == x[3] - x[4]
      tmp10 == tmp0 + tmp3  tmp13 == tmp0 - tmp3  tmp11 == tmp1 + tmp2  tmp12 == tmp1 - tmp2
      z1 == Fast(tmp12 + tmp13, 181)
      z5 == Fast(tmp4 + tmp5 - tmp6 - tmp7, 98)
      z2 == Fast(tmp4 + tmp5, 139) + z5  z4 == Fast(tmp6 + tmp7, 334) + z5
      z3 == Fast(tmp5 + tmp6, 181)  z11 == tmp7 + z3  z13 == tmp7 - z3
  IN <<tmp10 + tmp11, z11 + z4, tmp13 + z1, z13 - z2, tmp10 - tmp11, z13 + z2, tmp13 - z1, z11 - z4>>

Forward(kernel(_), scaled(_, _), b) ==
  LET frequencies(y, pass) == SubSeq([k \in 1..8 |-> scaled(y[k], pass)], 1, 8)
      row(r) == frequencies(kernel([i \in 0..7 |-> b[8 * r + i]]), 1)
      rows == Eight(row)
      column(c) == frequencies(kernel([i \in 0..7 |-> rows[i + 1][c + 1]]), 2)
      columns == Eight(column)
  IN [i \in 0..63 |-> columns[(i % 8) + 1][(i \div 8) + 1]]

jpeg_fdct_islow(b) ==
  LET scaled(v, pass) ==
        Shift(v, IF pass = 1 THEN CONST_BITS - PASS1_BITS ELSE CONST_BITS + PASS1_BITS)
  IN Forward(fdct8, scaled, b)

jpeg_fdct_ifast(b) == LET scaled(v, pass) == v IN Forward(fast_fdct, scaled, b)

convsamp(b) == [i \in 0..63 |-> b[i] - 128]

-----------------------------------------------------------------------------
(* Division by multiplication, for words of 16 bits (the build with SIMD). *)
WordBits == 16

flss(val) == IF val = 0 THEN 0 ELSE CHOOSE bit \in 1..16 : 2^(bit - 1) <= val /\ val < 2^bit

\* mutant: no compensation where the reciprocal was rounded down
compute_reciprocalUncorrected(divisor) ==
  LET r == WordBits + flss(divisor) - 1
      fq == 2^r \div divisor
      fr == 2^r % divisor
      c == divisor \div 2
      entry(recip, corr, bits) == [recip |-> recip, corr |-> corr, shift |-> bits - WordBits,
                                   simd |-> bits > 16]
  IN IF fr = 0 THEN entry(fq \div 2, c, r - 1)
     ELSE IF fr <= divisor \div 2 THEN entry(fq, c, r)
     ELSE entry(fq + 1, c, r)

compute_reciprocal(divisor) ==
  LET r == WordBits + flss(divisor) - 1
      fq == 2^r \div divisor
      fr == 2^r % divisor
      c == divisor \div 2
      entry(recip, corr, bits) == [recip |-> recip, corr |-> corr, shift |-> bits - WordBits,
                                   simd |-> bits > 16]
  IN IF fr = 0 THEN entry(fq \div 2, c, r - 1)
     ELSE IF fr <= divisor \div 2 THEN entry(fq, c + 1, r)
     ELSE entry(fq + 1, c, r)

(* (a * b) >> n, without the 32nd bit that a product of words may have.    *)
MultiplyShift(a, b, n) == (a * (b \div 2) + (a * (b % 2)) \div 2) \div 2^(n - 1)

quantize(temp, d) ==
  LET quotient(v) == MultiplyShift(v + d.corr, d.recip, d.shift + WordBits)
  IN IF temp < 0 THEN -quotient(-temp) ELSE quotient(temp)

(* The divisors start_pass_fdctmgr makes of a quantization table.          *)
divisor(method, i, quantval) ==
  IF method = "ifast" THEN Shift(quantval * aanscales[i], 11) ELSE quantval * 8

(* A block of samples becomes coefficients, and back. *)
forward_DCT(method, quantval, samples) ==
  LET dct == IF method = "ifast" THEN jpeg_fdct_ifast(convsamp(samples))
             ELSE jpeg_fdct_islow(convsamp(samples))
  IN [i \in 0..63 |-> quantize(dct[i], compute_reciprocal(divisor(method, i, quantval[i])))]

inverse_DCT(method, quantval, coefs) ==
  LET b == Dequantize(coefs, multipliers(method, quantval))
  IN IF method = "ifast" THEN jpeg_idct_ifast(b) ELSE jpeg_idct_islow(b)
=============================================================================

---------------------------- MODULE JpegDctCalls ----------------------------
(***************************************************************************)
(* Calls of the transforms and of the quantization, one after the other.   *)
(* The properties compare what comes back with the cosines it stands for,  *)
(* with the division it stands for, and with the samples that went in.     *)
(***************************************************************************)
EXTENDS JpegBasics, JpegDct, FiniteSets

CONSTANTS DctSizes,    \* sizes of a block in the output
          Frequencies, \* a subset of 0..7
          Amplitudes,  \* of the one coefficient that is not constant
          DcValues,    \* of the constant coefficient
          Steps,       \* quantizer steps
          Patterns     \* blocks of samples

ASSUME DctAssumption ==
  /\ DctSizes \subseteq 1..16 /\ Frequencies \subseteq 0..7
  /\ Amplitudes \subseteq -1016..1016 /\ DcValues \subseteq -1024..1016
  /\ Steps \subseteq 1..255
  /\ \A p \in Patterns : p \in [0..63 -> 0..255]

VARIABLE dctCall
dctVars == <<dctCall>>

NoCall == [fn |-> "none"]

OneCoefficient(u, v, a, dc) ==
  [i \in 0..63 |-> (IF i = 0 THEN dc ELSE 0) + (IF i = 8 * v + u THEN a ELSE 0)]

kernel(n, dc, x) ==
  CASE n = 2 -> idct2(dc, x)   [] n = 3 -> idct3(dc, x)   [] n = 4 -> idct4(dc, x)
    [] n = 5 -> idct5(dc, x)   [] n = 6 -> idct6(dc, x)   [] n = 7 -> idct7(dc, x)
    [] n = 8 -> idct8(dc, x)   [] n = 9 -> idct9(dc, x)   [] n = 10 -> idct10(dc, x)
    [] n = 11 -> idct11(dc, x) [] n = 12 -> idct12(dc, x) [] n = 13 -> idct13(dc, x)
    [] n = 14 -> idct14(dc, x) [] n = 15 -> idct15(dc, x) [] n = 16 -> idct16(dc, x)

KernelCall ==
  /\ dctCall = NoCall
  /\ \E n \in DctSizes \ {1}, j \in Frequencies \ {0} :
       /\ j < n \/ n \in {2, 4}
       /\ dctCall' = [fn |-> "kernel", n |-> n, j |-> j,
                      ret |-> kernel(n, 0, [i \in 0..7 |-> IF i = j THEN 1 ELSE 0])]

InverseCall ==
  /\ dctCall = NoCall
  /\ \E n \in DctSizes, u \in Frequencies, v \in Frequencies, a \in Amplitudes, dc \in DcValues :
       LET b == OneCoefficient(u, v, a, dc)
       IN dctCall' = [fn |-> "idct", n |-> n, u |-> u, v |-> v, a |-> a, dc |-> dc,
                      ret |-> jpeg_idct(n, b),
                      long |-> CASE n = 8 -> InverseDct(idct8, 8, 0..7, 0, {}, b)
                                 [] n = 4 -> InverseDct(idct4, 4, (0..7) \ {4}, 1, {}, b)
                                 [] n = 2 -> InverseDct(idct2, 2, {0, 1, 3, 5, 7}, 2, {}, b)
                                 [] OTHER -> <<>>]

EncodeCall ==
  /\ dctCall = NoCall
  /\ \E method \in {"islow", "ifast"}, q \in Steps, p \in Patterns :
       dctCall' = [fn |-> "encode", method |-> method, q |-> q, samples |-> p,
                   coefs |-> forward_DCT(method, [i \in 0..63 |-> q], p)]

(* The coefficients of the last call are decoded. *)
DecodeCall ==
  /\ dctCall.fn = "encode"
  /\ dctCall' = [fn |-> "decode", method |-> dctCall.method, q |-> dctCall.q,
                 samples |-> dctCall.samples,
                 ret |-> inverse_DCT(dctCall.method, [i \in 0..63 |-> dctCall.q], dctCall.coefs)]

QuantizeCall ==
  /\ dctCall = NoCall
  /\ \E method \in {"islow", "ifast"}, q \in 1..255, i \in {0, 1, 9, 63} :
       LET d == divisor(method, i, q)
           inputs == {s * (k * d + d \div 2 + e) : s \in {-1, 1}, e \in -1..1,
                      k \in 0..(8192 \div d + 1)}
       IN dctCall' = [fn |-> "quantize", d |-> d,
                      ret |-> [x \in {x \in inputs : x \in -8192..8192} |->
                                 quantize(x, compute_reciprocal(d))]]

DctReturn == dctCall # NoCall /\ dctCall' = NoCall

DctInit == dctCall = NoCall
DctNext == KernelCall \/ InverseCall \/ EncodeCall \/ DecodeCall \/ QuantizeCall \/ DctReturn
DctSpec == DctInit /\ [][DctNext]_dctVars

-----------------------------------------------------------------------------
(* Reference definitions. *)

Rounded(x, d) == (2 * x + d) \div (2 * d)

(* The cosine of m/(2n) of a half turn, times 2^14, by its power series.   *)
Cosine(m, n) ==
  LET folded == LET r == m % (4 * n) IN IF r > 2 * n THEN 4 * n - r ELSE r
      acute == IF folded > n THEN 2 * n - folded ELSE folded
      angle == Rounded(51472 * acute, 2 * n)
      square == Rounded(angle * angle, 2^14)
      t1 == Rounded(square, 2)
      t2 == Rounded(t1 * square, 12 * 2^14)
      t3 == Rounded(t2 * square, 30 * 2^14)
      t4 == Rounded(t3 * square, 56 * 2^14)
      value == 2^14 - t1 + t2 - t3 + t4
  IN IF folded > n THEN -value ELSE value

(* Sample k of frequency j among n points, times 2^13.                     *)
Wave(n, j, k) == IF j = 0 THEN 2^13 ELSE Rounded(Cosine((2 * k + 1) * j, n) * 11585, 2^14)

(* A reduced block of n = 2 or 4 is the mean over neighbours of the 8 points. *)
Sum(f, lo, hi) == LET s[k \in (lo - 1)..hi] == IF k < lo THEN 0 ELSE s[k - 1] + f[k] IN s[hi]
Group(n, k) == ((8 \div n) * k)..((8 \div n) * k + (8 \div n) - 1)
WaveSum(n, j, k) ==
  Sum([i \in Group(n, k) |-> Wave(8, j, i)], (8 \div n) * k, (8 \div n) * (k + 1) - 1)
WaveOf(n, j, k) ==
  IF n \in {2, 4} THEN Rounded(WaveSum(n, j, k), 8 \div n)
  ELSE IF j >= n THEN 0 ELSE Wave(n, j, k)

(* The sample, times 16, before it is clamped, and clamped.                *)
Ideal16(c, r, k) ==
  2048 + 2 * c.dc + Rounded(Rounded(c.a * WaveOf(c.n, c.u, k), 2^9) * WaveOf(c.n, c.v, r), 2^13) \div 8

Clamp16(v) == IF v < 0 THEN 0 ELSE IF v > 255 * 16 THEN 255 * 16 ELSE v

-----------------------------------------------------------------------------
(* Every inverse kernel is the cosine transform of its size: for each      *)
(* frequency its samples are the cosines, to the precision of its          *)
(* constants.  The kernels are linear, so these vectors decide them.       *)
KernelIsCosine ==
  dctCall.fn = "kernel" =>
    \A k \in 1..dctCall.n :
      IF dctCall.n \in {2, 4}
      THEN Abs(dctCall.ret[k] - WaveSum(dctCall.n, dctCall.j, k - 1)) <= 6
      ELSE Abs(dctCall.ret[k] - Wave(dctCall.n, dctCall.j, k - 1)) <= 5

(* A block of any size decodes to the sampled cosine it holds, to one step *)
(* of a sample, in spite of two roundings, and clamped where it leaves the *)
(* range of a sample.                                                      *)
InverseIsIdeal ==
  dctCall.fn = "idct" =>
    \A r \in 1..dctCall.n, k \in 1..dctCall.n :
      Abs(16 * dctCall.ret[r][k] - Clamp16(Ideal16(dctCall, r - 1, k - 1))) <= 18

(* The shortcut for rows and columns without frequencies, which the source *)
(* calls a speed-up, changes no sample.                                    *)
ShortcutSame ==
  dctCall.fn = "idct" /\ dctCall.n \in {2, 4, 8} => dctCall.ret = dctCall.long

(* Multiplying by the reciprocal divides and rounds properly (the comment  *)
(* at jcdctmgr.c:120-150), halves away from 0, for every divisor the       *)
(* tables hold and on both sides of every boundary.                        *)
QuantizeIsDivision ==
  dctCall.fn = "quantize" =>
    \A x \in DOMAIN dctCall.ret :
      LET magnitude == (Abs(x) + dctCall.d \div 2) \div dctCall.d
      IN dctCall.ret[x] = IF x < 0 THEN -magnitude ELSE magnitude

(* What the encoder makes of a block, the decoder turns back into the      *)
(* block, to the step of the quantizer.  The fast routines round their     *)
(* tables to whole numbers, 0 for the highest frequency and a step of 1,   *)
(* so they only come near the block, and only for larger steps.            *)
CodecRoundTrip ==
  dctCall.fn = "decode" /\ (dctCall.method = "ifast" => dctCall.q > 6) =>
    \A r \in 1..8, k \in 1..8 :
      Abs(dctCall.ret[r][k] - dctCall.samples[8 * (r - 1) + (k - 1)])
        <= IF dctCall.method = "ifast" THEN 48 ELSE dctCall.q

(* The integer arithmetic stands for cosines and divisions: in every size, *)
(* with and without the shortcut, there and back.                          *)
ArithmeticRight ==
  /\ KernelIsCosine
  /\ InverseIsIdeal
  /\ ShortcutSame
  /\ QuantizeIsDivision
  /\ CodecRoundTrip
=============================================================================

---------------------------- MODULE MCJpegCoding ----------------------------
(* How libjpeg-turbo encodes, and reads what it encoded: the passes of the  *)
(* compressor, progressive scans, and the Huffman codes; and what both ways *)
(* stand on: the pools, the virtual arrays, and the choice of the SIMD      *)
(* routines.  A behaviour is one of a single part; the others rest as they  *)
(* began.                                                                  *)
EXTENDS JpegEncoder, JpegProgressive, MCJpegHuffman, JpegPools, JpegVirtualArrays, MCJpegSimd, TLC

(* The compressor: pictures around one and two rows of units, in four       *)
(* samplings, with one scan or several, progressive ones among them.       *)
MCLines == {1, 2, 5, 9}
MCRefusals == {0, 1, 3}

ScanOf(comps, ss, ah) == [comps |-> comps, ss |-> ss, ah |-> ah]
Gray == << <<1, 1>> >>
H2V2 == << <<2, 2>>, <<1, 1>> >>
H1V2 == << <<1, 2>>, <<1, 1>> >>
H2V1 == << <<2, 1>>, <<1, 1>> >>
Scripts(samp) ==
  LET all == [i \in DOMAIN samp |-> i] IN
  {<<ScanOf(all, 0, 0)>>,
   <<ScanOf(all, 0, 0), ScanOf(<<1>>, 1, 0), ScanOf(all, 0, 1)>>}
  \cup (IF Len(samp) = 1 THEN {} ELSE {<<ScanOf(<<2>>, 0, 0), ScanOf(<<1>>, 0, 0)>>})

Picture(hi, wi, smp, smooth, opt, sc, in) ==
  [h |-> hi, w |-> wi, samp |-> smp, smooth |-> smooth, optimize |-> opt, scans |-> sc, input |-> in]
ThreeScans(sc) == Len(sc) = 3
MCPictures ==
  UNION {{made \in {Picture(hi, wi, smp, smooth, opt, sc, in) :
                    hi \in {1, 3, 4, 5, 9}, wi \in {3, 5}, smooth \in BOOLEAN, opt \in BOOLEAN,
                    sc \in Scripts(smp), in \in {"lines", "raw", "coefs"}} :
            (ThreeScans(made.scans) => made.optimize) /\ (made.smooth => made.input = "lines")}
         : smp \in {Gray, H2V2, H1V2, H2V1}}

(* Progressive scans: every script of three scans over one or two           *)
(* components whose first two are proper; the library's own scripts for up  *)
(* to ten components; pictures of three blocks, from a few kinds of blocks, *)
(* with and without restart markers.                                       *)
MCSpectrum == {<<0, 0>>, <<1, 2>>, <<1, 5>>, <<3, 5>>, <<0, 5>>, <<2, 1>>}
MCApproximation == {<<0, 0>>, <<0, 1>>, <<0, 2>>, <<1, 0>>, <<2, 1>>, <<2, 0>>, <<0, 11>>}
ChoicesFor(comps) ==
  {Scan(c, k[1], k[2], b[1], b[2]) : c \in comps, k \in MCSpectrum, b \in MCApproximation}
MCScanChoices == (1 :> ChoicesFor({<<1>>})) @@ (2 :> ChoicesFor({<<1>>, <<2>>, <<1, 2>>, <<2, 1>>}))
                 @@ [n \in 3..10 |-> {}]

Kind(dc, ac) == [k \in Coefs |-> IF k = 0 THEN dc ELSE ac[k]]
AllKinds == {Kind(0, <<0, 0, 0, 0, 0>>), Kind(-3, <<1, 0, 0, 0, 0>>), Kind(2, <<-2, 0, 0, 2, 0>>),
             Kind(5, <<0, 0, 0, 0, -1>>), Kind(-4, <<3, 0, 0, 0, 1>>), Kind(1, <<-7, 4, -2, 3, 5>>),
             Kind(1, <<2, 2, -3, 0, 1>>)}
Some == {Kind(-3, <<1, 0, 0, -4, 2>>), Kind(5, <<0, 0, 6, 0, 0>>)}
Few == {Kind(0, <<0, 0, 0, 0, 0>>), Kind(-4, <<3, 0, 0, 0, 1>>), Kind(1, <<2, 2, -3, 0, 1>>)}
Images(kinds, n) == [1..n -> [1..3 -> kinds]]
Hand == <<Scan(<<1>>, 0, 0, 0, 2), Scan(<<1>>, 0, 0, 2, 1), Scan(<<1>>, 1, 5, 0, 1), Scan(<<1>>, 0, 0, 1, 0),
          Scan(<<1>>, 2, 5, 1, 0)>>
Case(n, script, interval, image) == [n |-> n, script |-> script, interval |-> interval, image |-> image]
MCCases ==
  {Case(1, script, interval, image) : script \in {Hand, jpeg_simple_progression(1, FALSE)},
                                      interval \in {0, 1, 2}, image \in Images(AllKinds, 1)}
  \cup {Case(1, jpeg_simple_progression(1, FALSE), interval, <<b>>) :
          interval \in {0, 3}, b \in [1..4 -> Few]}
  \cup {Case(3, jpeg_simple_progression(3, ycc), 2, [c \in 1..3 |-> [i \in 1..3 |-> b[c]]]) :
          ycc \in BOOLEAN, b \in [1..3 -> Some]}
  \cup {Case(5, jpeg_simple_progression(5, FALSE), 0, [c \in 1..5 |-> [i \in 1..1 |-> b]]) : b \in Some}
(* A scan may be cut in pictures of few kinds of blocks, with scans of all  *)
(* four kinds.                                                              *)
MCCuttable == {c \in MCCases : c.script = Hand /\ c.interval \in {0, 2} /\ c.image \in Images(Few, 1)}

(* The slop of the first and of the further chunks, per pool.              *)
MCFirst == 0 :> 4 @@ 1 :> 9
MCExtra == 0 :> 0 @@ 1 :> 5

(* A row that a caller writes: all its samples differ.                     *)
MCValue == {[k \in 0..3 |-> <<v, k>>] : v \in {"v", "w"}}

(* One array of three rows, of samples or of blocks, that are one to a     *)
(* row, or of two samples that need no padding.                            *)
MCShapes ==
  [rows : {3}, width : {1}, maxaccess : {1, 2}, pre_zero : BOOLEAN, kind : {"s", "b"}]
    \cup [rows : {3}, width : {2}, maxaccess : {1, 2}, pre_zero : {TRUE}, kind : {"s"}]
    \cup [rows : {4}, width : {2}, maxaccess : {1}, pre_zero : {FALSE}, kind : {"s"}]

VARIABLE part
AnyPicture == Picture(1, 3, Gray, FALSE, FALSE, <<ScanOf(<<1>>, 0, 0)>>, "lines")
AnyCase == Case(1, Hand, 0, <<[i \in 1..3 |-> Kind(0, <<0, 0, 0, 0, 0>>)]>>)
Rests(name, rests) == part # name => rests
CodingInit ==
  /\ part \in {"encoder", "scripts", "progressive", "huffman", "pools", "arrays", "simd"}
  /\ Rests("encoder", pic = AnyPicture) /\ EncoderInit
  /\ \/ part = "scripts" /\ ScriptInit
     \/ part # "scripts" /\ num_components = 1 /\ scan_info = <<>>
  /\ \/ part = "progressive" /\ ProgInit
     \/ part # "progressive" /\ p = NothingSent(AnyCase) /\ coefs = ZeroImage(AnyCase.image)
  /\ \/ part = "huffman" /\ HuffInit
     \/ part # "huffman" /\ h = Word(32)
  /\ Rests("pools", limit = 60) /\ PoolInit
  /\ VAInit
  /\ Rests("simd", arch = "none" /\ op = [CHOOSE o \in Ops : TRUE EXCEPT !.fn = "idct_islow"]) /\ SimdInit

CodingNext ==
  /\ UNCHANGED part
  /\ \/ part = "encoder" /\ EncoderNext
     \/ part = "scripts" /\ ScriptNext
     \/ part = "progressive" /\ ProgNext
     \/ part = "huffman" /\ HuffNext
     \/ part = "pools" /\ PoolNext
     \/ part = "arrays" /\ VANext
     \/ part = "simd" /\ SimdNext
  /\ Rests("encoder", UNCHANGED encoderVars)
  /\ Rests("scripts", UNCHANGED scriptVars)
  /\ Rests("progressive", UNCHANGED progVars)
  /\ Rests("huffman", UNCHANGED huffVars)
  /\ Rests("pools", UNCHANGED poolVars)
  /\ Rests("arrays", UNCHANGED vaVars)
  /\ Rests("simd", UNCHANGED simdVars)
CodingSpec ==
  /\ CodingInit
  /\ [][CodingNext]_<<part, encoderVars, scriptVars, progVars, huffVars, poolVars, vaVars, simdVars>>
=============================================================================

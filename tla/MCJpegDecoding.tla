--------------------------- MODULE MCJpegDecoding ---------------------------
(* How libjpeg-turbo decodes: the states of the decompressor, the           *)
(* arithmetic of the transforms, the lossless transformation of the         *)
(* coefficients, and the way of the samples to output rows.  A behaviour is *)
(* one of a single part; the others rest as they began.                    *)
EXTENDS JpegDecoder, JpegDctCalls, JpegTransform, JpegOutput

(* The decompressor: sequential, multi-scan and progressive files, whole    *)
(* and cut short.                                                          *)
MCFiles ==
  {[multi |-> TRUE, progressive |-> TRUE, scans |-> <<"dc", "ac">>, cut |-> 6],
   [multi |-> TRUE, progressive |-> FALSE, scans |-> <<"dc", "ac">>, cut |-> 0],
   [multi |-> FALSE, progressive |-> FALSE, scans |-> <<"dc">>, cut |-> 3],
   [multi |-> FALSE, progressive |-> FALSE, scans |-> <<"dc", "dc">>, cut |-> 0],
   [multi |-> FALSE, progressive |-> FALSE, scans |-> <<>>, cut |-> 0]}

(* The arithmetic: all sizes and frequencies, few amplitudes.              *)
MCDctSizes == 1..16
MCFrequencies == 0..7
MCAmplitudes == {-1000, 13}
MCDcValues == {0, 300}
MCSteps == {1, 8}
Impulse(i, v) == [k \in 0..63 |-> IF k = i THEN v ELSE 255 - v]
MCPatterns ==
  {Impulse(i, v) : i \in {0, 7, 18, 36, 63}, v \in {0, 255}}
    \cup {[k \in 0..63 |-> v] : v \in {0, 100, 255}}
    \cup {[k \in 0..63 |-> IF (k + k \div 8) % 2 = 0 THEN 255 ELSE 0],
          [k \in 0..63 |-> IF k % 8 < 4 THEN 0 ELSE 255],
          [k \in 0..63 |-> 4 * k]}

(* The transformation: pictures of one to three units a side, in gray and   *)
(* in four samplings; every request, every crop at every edge.             *)
MCSizes == {1, 3, 4, 8}
MCSamplings == {<< <<1, 1>> >>, << <<2, 2>> >>,
                << <<2, 1>>, <<1, 1>>, <<1, 1>> >>, << <<2, 2>>, <<1, 1>>, <<1, 1>> >>,
                << <<1, 1>>, <<1, 2>>, <<1, 1>> >>}
MCFrames == [w : MCSizes, h : MCSizes, samp : MCSamplings]
Ts == {"none", "flip_h", "flip_v", "transpose", "transverse", "rot_90", "rot_180", "rot_270"}
Req(t, e, g, sp, c) == [transform |-> t, edge |-> e, gray |-> g, spec |-> sp, crop |-> c]
NoSpec == <<"?">>
Plain == {Req(t, e, g, NoSpec, <<0, 0, 0, 0>>) :
            t \in Ts, e \in {"any", "trim", "perfect"}, g \in BOOLEAN}
Crops == {Req(t, e, FALSE, sp, c) : t \in Ts, e \in {"any", "trim"},
            sp \in {<<"n", "x", "n", "+", "n", "+", "n">>, <<"-", "n", "+", "n">>,
                    <<"n", "f", "x", "n", "-", "n">>},
            c \in {<<4, 3, 2, 1>>, <<1, 3, 3, 0>>, <<3, 2, 0, 5>>}}
Pairs == {<<Req("flip_h", "any", FALSE, NoSpec, <<0, 0, 0, 0>>), r>> : r \in Plain}
MCSessions == {<<r>> : r \in Plain \cup Crops} \cup Pairs
RECURSIVE Words(_)
Words(n) == IF n = 0 THEN {<<>>}
            ELSE Words(n - 1) \cup {Append(u, t) : u \in {v \in Words(n - 1) : Len(v) = n - 1},
                                                   t \in {"n", "f", "x", "+", "-"}}
MCSpecs == Words(4) \cup {a \o <<t>> : a \in Language, t \in {"n", "f", "x", "+", "-"}} \cup Language

(* The way to the rows: one to three units of rows, every method, scaling   *)
(* and kind of quantizer.                                                  *)
MCRequests == {1, 2, 3, 40}
Pic(h, samp, num, fancy, q) ==
  [h |-> h, w |-> 20, samp |-> samp, num |-> num, denom |-> 8, fancy |-> fancy, quantize |-> q]
H2V2 == << <<2, 2>>, <<1, 1>>, <<1, 1>> >>
H2V1 == << <<2, 1>>, <<1, 1>>, <<1, 1>> >>
Gray == << <<1, 1>> >>
Mixed == << <<2, 2>>, <<2, 1>>, <<1, 2>> >>
MCPictures ==
  {Pic(h, H2V2, 8, TRUE, q) : h \in {1, 2, 15, 16, 17, 31, 33, 48, 50}, q \in {"none", "one", "two"}}
    \cup {Pic(h, samp, num, f, q) : h \in {3, 16, 21}, f \in BOOLEAN, q \in {"none", "one", "two"},
            num \in {1, 4, 8}, samp \in {H2V2, H2V1, Gray, Mixed}}
    \cup {Pic(40, << <<1, 4>>, <<1, 1>> >>, 8, TRUE, "none"), Pic(19, H2V2, 3, TRUE, "none"),
          Pic(9, Gray, 16, FALSE, "one")}

VARIABLE part
AnyFile == CHOOSE f \in Files : TRUE
DecodingInit ==
  /\ part \in {"decoder", "dct", "transform", "output"}
  /\ \/ part = "decoder"
     \/ part # "decoder" /\ file = AnyFile
  /\ DecoderInit /\ DctInit /\ TransformInit
  /\ \/ part = "output" /\ OutputInit
     \/ part # "output" /\ pic = Setup(Pic(9, Gray, 8, FALSE, "none")) /\ done = <<>>
                        /\ s = StartPass("pass_thru", Blank)
DecodingNext ==
  /\ UNCHANGED part
  /\ \/ part = "decoder" /\ DecoderNext /\ UNCHANGED <<dctVars, transformVars, outputVars>>
     \/ part = "dct" /\ DctNext /\ UNCHANGED <<decVars, transformVars, outputVars>>
     \/ part = "transform" /\ TransformNext /\ UNCHANGED <<decVars, dctVars, outputVars>>
     \/ part = "output" /\ OutputNext /\ UNCHANGED <<decVars, dctVars, transformVars>>
DecodingSpec ==
  /\ DecodingInit
  /\ [][DecodingNext]_<<part, decVars, dctVars, transformVars, outputVars>>
  /\ WF_decVars(part = "decoder" /\ Running)
=============================================================================

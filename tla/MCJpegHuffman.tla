---------------------------- MODULE MCJpegHuffman ----------------------------
(* Tables of up to five symbols; pictures of one or two components, some    *)
(* long enough for the fast decoder, some with many bits of ones, so that   *)
(* a block takes more bytes than BUFSIZE.                                   *)
EXTENDS JpegHuffman

MCFreqs == {f \in [0..4 -> {0, 1, 2, 5}] : \E s \in 0..4 : f[s] # 0} \cup {<<1, 1, 2, 3, 5>>, <<5, 8, 1, 2, 3>>, <<1, 2, 4, 8, 16>>, <<8, 5, 3, 1, 1>>}
MCBits == {b \in [1..CodeLimit -> 0..5] : SumOver(b, 1..CodeLimit) \in 1..6}
B(dc, a, b, c, d) == [k \in 0..DCTSIZE2 - 1 |-> CASE k = 0 -> dc [] k = 1 -> a [] k = 2 -> b
                                                  [] k = 5 -> c [] k = 7 -> d [] OTHER -> 0]
One(b) == <<b>>
Full(dc) == [k \in 0..DCTSIZE2 - 1 |-> IF k = 0 THEN dc ELSE 7]
Same(v) == [k \in 0..DCTSIZE2 - 1 |-> v]
Kinds == {B(0, 0, 0, 0, 0), B(3, 3, 0, 0, 0), B(-2, 1, 0, 0, -3), Full(7)}
MCCodedPictures ==
  {[units |-> [i \in 1..3 |-> One(b[i])], interval |-> n] : b \in [1..3 -> Kinds], n \in {0, 1, 2}}
  \cup {[units |-> <<<<b[1], b[2]>>, <<b[2], b[1]>>>>, interval |-> n] : b \in [1..2 -> Kinds], n \in {0, 1}}
  \cup {[units |-> [i \in 1..4 |-> One(Same(v[i]))], interval |-> 0] :
          v \in {<<15, 1, 2, 4>>, <<4, 15, 2, 1>>, <<1, 2, 4, 15>>}}
  \cup {[units |-> [i \in 1..5 |-> One(IF i < 4 THEN Full(i) ELSE b)], interval |-> 0] : b \in Kinds}
=============================================================================

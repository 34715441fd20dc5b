------------------------------- MODULE MCPes -------------------------------
(***************************************************************************)
(* PES packets of every class of stream id (audio, video, private, and the *)
(* two without a header), with every choice of timestamps and flags, times *)
(* at the edges of the groups of bits and above 33 bits, and data up to    *)
(* and past a limit of 24 bytes; the bytes of the data are all different.  *)
(***************************************************************************)
EXTENDS Pes

T == {<<0, 0>>, <<7, 2^30 - 1>>, <<2, 2^15>>, <<1, 2^15 - 1>>, <<9, 5>>}

P(id, align, other, pts, dts, n) ==
  [stream_id |-> id, data_alignment_indicator |-> align, other |-> other,
   pts_indicator |-> Len(pts), dts_indicator |-> Len(dts),
   pts |-> IF pts = <<>> THEN Zero ELSE pts[1],
   dts |-> IF dts = <<>> THEN Zero ELSE dts[1],
   data |-> [i \in 1..n |-> 100 + i]]

Timed == {<<t>> : t \in T}
C(b, e) == [base |-> b, ext |-> e]

MCFrames ==
  [pes : {P(id, 0, 0, pts, dts, n) :
            id \in {192, 224, 190}, pts \in {<<>>, <<<<2, 2^15>>>>},
            dts \in {<<>>, <<<<1, 2^15 - 1>>>>}, n \in {0, 1, 10, 11, 20, 21}},
   clock : {C(<<0, 300>>, 0)}]
  \cup
  [pes : {P(id, 1, other, pts, dts, 2) :
            id \in {189, 191, 239, 240}, other \in {0, 9},
            pts \in Timed \cup {<<>>}, dts \in Timed \cup {<<>>}},
   clock : {C(<<0, 300>>, 0)}]
  \cup
  [pes : {P(224, 0, 0, <<>>, <<>>, 1)},
   clock : {C(t, e) : t \in T, e \in {0, 1, 255, 256, 299}}]

=============================================================================

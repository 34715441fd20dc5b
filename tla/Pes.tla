-------------------------------- MODULE Pes --------------------------------
(***************************************************************************)
(* ts_pes and ts_pcr: a PES packet and the PCR that goes with it, written  *)
(* and read back, also when bytes of it were lost or repeated on the way.  *)
(*                                                                         *)
(* The PES header has a length, which the reader compares with the bytes   *)
(* there are: it is all that shows a fault.  Video packets too long for it *)
(* have length 0, and the ids 0xbe and 0xbf have no more header than that. *)
(***************************************************************************)
EXTENDS Bytestream, SequencesExt

CONSTANTS
  Frames,       \* the units that may be packed: a ts_pes and a PCR value
  MaxLength     \* 65536: what the length field does not hold

(* A value of 64 bits, by the bits from 30 up and those below.             *)
TimeType == Nat \X (0..(2^30 - 1))

(* other stands for scrambling_control, priority, copyright and            *)
(* original_or_copy, which are read and never written.                     *)
PesType ==
  [stream_id : Byte, data_alignment_indicator : 0..1, other : Nat,
   pts_indicator : 0..1, dts_indicator : 0..1,
   pts : TimeType, dts : TimeType, data : Seq(Byte)]

(* A PCR value in units of 27 MHz: a multiple of 300, and what is over.    *)
ClockType == [base : TimeType, ext : 0..299]

ASSUME PesAssumption ==
  /\ Frames \subseteq [pes : PesType, clock : ClockType]
  /\ MaxLength \in Nat \ {0} /\ MaxLength <= 65536

VARIABLES
  pes, clock,    \* what is packed
  bytes,         \* the unit's bytes
  intact,        \* history: how many of them, from the first, are as packed
  pcr,           \* the six bytes of the PCR
  phase,         \* "start", "packed", "sent", "done", or "refused" by
                 \* ts_pes_pack_stream
  build,         \* how the compiler took the shift in ts_pcr_unpack; one
                 \* of Builds once it has been called
  read,          \* the ts_pes read
  clock_read,    \* the PCR value read
  result         \* of ts_pes_pack_stream, then of ts_pes_unpack_stream

vars ==
  <<pes, clock, bytes, intact, pcr, phase, build, read, clock_read, result>>

(* bytestream_read_bits makes its mask as the int (1 << bits) - 1.  For 33 *)
(* bits that shift is undefined: a compiler that sees the constant makes   *)
(* the mask all ones, one that leaves the shift to the processor gets a    *)
(* mask of one bit.                                                        *)
Builds == {"folded", "shifted"}

Zero == <<0, 0>>
NoPes ==
  [stream_id |-> 0, data_alignment_indicator |-> 0, other |-> 0,
   pts_indicator |-> 0, dts_indicator |-> 0, pts |-> Zero, dts |-> Zero,
   data |-> <<>>]

Init ==
  /\ \E f \in Frames : pes = f.pes /\ clock = f.clock
  /\ bytes = <<>>
  /\ intact = 0
  /\ pcr = <<>>
  /\ phase = "start"
  /\ build = "none"
  /\ read = NoPes
  /\ clock_read = [base |-> Zero, ext |-> 0]
  /\ result = 0

-----------------------------------------------------------------------------
Headless(id) == id \in {190, 191}
Video(id) == id \in 224..239

(* ts_pes_ts_pack: 33 bits in groups of 3, 15 and 15, a marker behind each.*)
TimeBytes(t, pts, dts) ==
  <<WriteBits(pts, 8, 2, 1) + WriteBits(dts, 8, 3, 1) + WriteBits(t[1], 8, 4, 3) + 1>>
    \o Bytes16(2 * (t[2] \div 2^15) + 1)
    \o Bytes16(2 * (t[2] % 2^15) + 1)

\* Fault: the groups are joined without the shift between them.
ReadTimeUnshifted(s, at) ==
  <<ReadBits(Read8(s, at), 8, 4, 3),
    ReadBits(Read16(s, at + 1), 16, 0, 15) + ReadBits(Read16(s, at + 3), 16, 0, 15)>>

(* ts_pes_ts_unpack.                                                       *)
ReadTime(s, at) ==
  <<ReadBits(Read8(s, at), 8, 4, 3),
    ReadBits(Read16(s, at + 1), 16, 0, 15) * 2^15
      + ReadBits(Read16(s, at + 3), 16, 0, 15)>>

HeaderSize(p) == 3 + 5 * p.pts_indicator + 5 * p.dts_indicator

Header(p) ==
  Bytes16(2^15 + WriteBits(p.data_alignment_indicator, 16, 5, 1)
            + WriteBits(p.pts_indicator, 16, 8, 1)
            + WriteBits(p.dts_indicator, 16, 9, 1))
    \o <<HeaderSize(p) - 3>>
    \o (IF p.pts_indicator = 1 THEN TimeBytes(p.pts, 1, p.dts_indicator) ELSE <<>>)
    \o (IF p.dts_indicator = 1 THEN TimeBytes(p.dts, 0, 1) ELSE <<>>)

(* The length field, which counts the header for every id.                 *)
Length(p) ==
  LET n == HeaderSize(p) + Len(p.data) IN
    IF Video(p.stream_id) /\ n >= MaxLength THEN 0 ELSE n

Packed(p) ==
  <<0, 0, 1, p.stream_id>> \o Bytes16(Length(p))
    \o (IF Headless(p.stream_id) THEN <<>> ELSE Header(p))
    \o p.data

(* ts_pcr_pack: 33 bits of the base, 6 zero bits, 9 of the extension.      *)
PcrBytes(c) ==
  Bytes16((c.base[1] % 8) * 2^13 + (c.base[2] \div 2^17))
    \o Bytes16((c.base[2] \div 2) % 2^16)
    \o Bytes16((c.base[2] % 2) * 2^15 + (c.ext % 2^9))

\* Fault: the extension is nine bits from the wrong end.
ReadPcrHigh(b, how) ==
  [base |-> <<b[1] \div 2^5, (Word(b, 1) % 2^13) * 2^17 + Word(b, 3) * 2 + (b[5] \div 2^7)>>,
   ext |-> Word(b, 5) \div 2^7]

(* ts_pcr_unpack, of what ts_pcr_pack wrote.                               *)
ReadPcr(b, how) ==
  [base |-> IF how = "shifted" THEN <<0, b[5] \div 2^7>>
            ELSE <<b[1] \div 2^5,
                   (Word(b, 1) % 2^13) * 2^17 + Word(b, 3) * 2 + (b[5] \div 2^7)>>,
   ext |-> Word(b, 5) % 2^9]

-----------------------------------------------------------------------------
Pack ==
  /\ phase = "start"
  /\ pcr' = PcrBytes(clock)
  /\ IF Length(pes) >= MaxLength
       THEN /\ phase' = "refused"
            /\ result' = -1
            /\ UNCHANGED <<bytes, intact>>
       ELSE /\ phase' = "packed"
            /\ result' = 1
            /\ bytes' = Packed(pes)
            /\ intact' = Len(Packed(pes))
  /\ UNCHANGED <<pes, clock, build, read, clock_read>>

Arrive(b, n) ==
  /\ phase' = "sent"
  /\ bytes' = b
  /\ intact' = n
  /\ UNCHANGED <<pes, clock, pcr, build, read, clock_read, result>>

(* A packet of the unit behind the first was lost, or sent twice.          *)
Lose ==
  /\ phase = "packed"
  /\ \E i \in 7..Len(bytes) : \E j \in i..Len(bytes) :
       Arrive(SubSeq(bytes, 1, i - 1) \o SubSeq(bytes, j + 1, Len(bytes)), i - 1)

Repeat ==
  /\ phase = "packed"
  /\ \E i \in 7..Len(bytes) : \E j \in i..Len(bytes) :
       Arrive(SubSeq(bytes, 1, j) \o SubSeq(bytes, i, Len(bytes)), j)

(* The file ends in the first packet of the unit.                          *)
CutOff ==
  /\ phase = "packed"
  /\ \E n \in 0..5 : Arrive(SubSeq(bytes, 1, n), n)

\* Fault: the length is not compared.
LengthSoundAlways(id, len, s) == len # 0 \/ Video(id)

(* Length 0 is for video; any other is what is left.                       *)
LengthSound(id, len, s) ==
  /\ len # 0 \/ Video(id)
  /\ len = 0 \/ len = Len(s.rest)

(* The header length holds the timestamps, and is there.                   *)
HeaderSound(v, s) ==
  /\ ReadBits(v, 16, 0, 2) = 2
  /\ Read8(s, 2) >= 5 * (ReadBits(v, 16, 8, 1) + ReadBits(v, 16, 9, 1))
  /\ Skip(s, 3 + Read8(s, 2)).valid

(* What the header of a packet says; s is behind its length field.         *)
WithHeader(id, v, s) ==
  LET pts == ReadBits(v, 16, 8, 1)
      dts == ReadBits(v, 16, 9, 1)
  IN [stream_id |-> id, data_alignment_indicator |-> ReadBits(v, 16, 5, 1),
      other |-> ReadBits(v, 16, 2, 3) * 4 + ReadBits(v, 16, 6, 2),
      pts_indicator |-> pts, dts_indicator |-> dts,
      pts |-> IF pts = 1 THEN ReadTime(s, 3) ELSE Zero,
      dts |-> IF dts = 1 THEN ReadTime(s, 3 + 5 * pts) ELSE Zero,
      data |-> Skip(s, 3 + Read8(s, 2)).rest]

(* ts_pes_unpack_stream and ts_pcr_unpack.                                 *)
Unpack ==
  /\ phase \in {"packed", "sent"}
  /\ phase' = "done"
  /\ build' \in Builds
  /\ clock_read' = ReadPcr(pcr, build')
  /\ LET id == Read8(Open(bytes), 3)
         s == Skip(Open(bytes), 6)
         v == Read16(s, 0)
     IN IF /\ Read(Open(bytes), 0, 4) = <<0, 0, 1, id>>
           /\ LengthSound(id, Read16(Open(bytes), 4), s)
           /\ IF Headless(id) THEN s.valid ELSE HeaderSound(v, s)
          THEN /\ result' = 1
               /\ read' = IF Headless(id)
                            THEN [NoPes EXCEPT !.stream_id = id, !.data = s.rest]
                            ELSE WithHeader(id, v, s)
          ELSE /\ result' = -1
               /\ UNCHANGED read
  /\ UNCHANGED <<pes, clock, bytes, intact, pcr>>

Next == Pack \/ Lose \/ Repeat \/ CutOff \/ Unpack

Spec == Init /\ [][Next]_vars

-----------------------------------------------------------------------------
(* The low 33 bits of a time.                                              *)
Low33(t) == <<t[1] % 8, t[2]>>

(* What of a packet has a place in its bytes.                              *)
Carried(p) ==
  [p EXCEPT !.other = 0,
            !.pts = IF p.pts_indicator = 1 THEN Low33(p.pts) ELSE Zero,
            !.dts = IF p.dts_indicator = 1 THEN Low33(p.dts) ELSE Zero]

(* ts_pes_pack_stream and ts_pes_unpack_stream.  A packet whose header and *)
(* data come to MaxLength or more is refused unless it is video, and no    *)
(* other is.  What is packed is read back with its timestamps modulo 2^33  *)
(* and without the flags that are never written, except for the ids 0xbe   *)
(* and 0xbf: their length counts a header they do not have (ts_pes.c:94),  *)
(* and they are refused.                                                   *)
ReadsBack ==
  /\ phase # "start" =>
       (phase = "refused" <=>
          ~Video(pes.stream_id) /\ HeaderSize(pes) + Len(pes.data) >= MaxLength)
  /\ phase = "done" /\ bytes = Packed(pes) =>
       IF Headless(pes.stream_id) THEN result = -1
       ELSE result = 1 /\ read = Carried(pes)

(* ts_pes_unpack_stream, ts_pes.c:119-122.  A packet that did not arrive   *)
(* as it was packed, be it that bytes are missing or that some were sent   *)
(* twice, the last ones included, is refused, with two exceptions.  Video  *)
(* of length 0 is taken as it comes: its header is right when the fault    *)
(* lies behind it, and its data up to the fault.  And a packet of the ids  *)
(* 0xbe and 0xbf is taken when as many bytes were repeated as its length   *)
(* is wrong by.                                                            *)
DamageRefused ==
  phase = "done" /\ bytes # Packed(pes) /\ result = 1 =>
    \/ /\ Video(pes.stream_id) /\ Length(pes) = 0
       /\ intact >= 6 + HeaderSize(pes) =>
            /\ [read EXCEPT !.data = <<>>] = [Carried(pes) EXCEPT !.data = <<>>]
            /\ IsPrefix(SubSeq(pes.data, 1, intact - 6 - HeaderSize(pes)), read.data)
    \/ Headless(pes.stream_id) /\ Len(bytes) = Len(Packed(pes)) + HeaderSize(pes)

(* ts_pcr_pack and ts_pcr_unpack.  A PCR survives modulo 2^33 * 300; in a  *)
(* build that leaves the shift to the processor all that is left of its    *)
(* base is one bit, and it is right modulo 600.                            *)
PcrSurvives ==
  phase = "done" =>
    /\ clock_read.ext = clock.ext
    /\ clock_read.base = IF build = "folded" THEN Low33(clock.base)
                         ELSE <<0, clock.base[2] % 2>>

=============================================================================

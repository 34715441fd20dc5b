----------------------------- MODULE PacketLoad -----------------------------
(***************************************************************************)
(* ts_packets_load: a file read into memory and taken apart, packet by     *)
(* packet, by a cursor that moves over its bytes.                          *)
(*                                                                         *)
(* Nothing looks for the sync byte.  The cursor moves as far as a packet's *)
(* own fields say, so a packet without a payload whose adaptation field    *)
(* does not fill it leaves the cursor inside the packet, and from there on *)
(* any bytes are read as headers.  Lengths are counted, contents are not   *)
(* modelled: a frame is what the parser can read at a place.               *)
(***************************************************************************)
EXTENDS Naturals, Sequences, FiniteSets

CONSTANTS
  PacketSize,   \* 188
  Frames,       \* what may be in a file
  Tails,        \* numbers of bytes that may follow the last whole packet
  MaxFrames,    \* bound: packets in a file
  MaxBlind      \* bound: packets read from a place inside a packet

HeaderSize == 4

(* field and payload are the bits of adaptation_field_control, len is the  *)
(* field's length byte, fixed its flags byte and the PCR, OPCR and splice  *)
(* countdown these call for, private whether they call for private data,   *)
(* private_size the length byte of that.                                   *)
FrameType ==
  [field : BOOLEAN, payload : BOOLEAN, len : Nat, fixed : Nat \ {0},
   private : BOOLEAN, private_size : Nat]

(* The flags, the fixed fields and their length bytes are read without     *)
(* coming to the end of a packet.                                          *)
ASSUME LoadAssumption ==
  /\ PacketSize \in Nat
  /\ Frames \subseteq FrameType
  /\ \A f \in Frames : HeaderSize + 1 + f.fixed + 1 <= PacketSize
  /\ Tails \subseteq Nat /\ \A t \in Tails : t < PacketSize
  /\ MaxFrames \in Nat /\ MaxBlind \in Nat

VARIABLES
  file,     \* the packets of the file
  tail,     \* the bytes after them
  readable, \* whether it can be opened and read to its end
  begin,    \* the cursor
  valid,    \* whether the stream is; a read past the end destroys it
  list,     \* the packets made
  result    \* "reading", "running", what the call returned, or "aborted"

vars == <<file, tail, readable, begin, valid, list, result>>

(* from is the packet of the file a packet was read from, 0 when it was    *)
(* read from bytes inside one; size is payload_size.                       *)
LoadedType == [from : Nat, frame : FrameType, size : Nat]

TypeOK ==
  /\ file \in Seq(Frames)
  /\ tail \in Tails
  /\ readable \in BOOLEAN
  /\ begin \in 0..(PacketSize * Len(file) + tail)
  /\ valid \in BOOLEAN
  /\ list \in Seq(LoadedType)
  /\ result \in {"reading", "running", "count", "-1", "aborted"}

Init ==
  /\ file \in UNION {[1..n -> Frames] : n \in 0..MaxFrames}
  /\ tail \in Tails
  /\ readable \in BOOLEAN
  /\ begin = 0
  /\ valid = TRUE
  /\ list = <<>>
  /\ result = "reading"

-----------------------------------------------------------------------------
Total == PacketSize * Len(file) + tail

(* ts_packets_buffer_load, then bytestream_construct_buffer: the buffer of *)
(* an empty file has no data, so that its stream is not valid.             *)
ReadFile ==
  /\ result = "reading"
  /\ readable
  /\ valid' = (Total > 0)
  /\ result' = "running"
  /\ UNCHANGED <<file, tail, readable, begin, list>>

(* open or a read fails; what was read before is given up.                 *)
ReadFails ==
  /\ result = "reading"
  /\ ~readable
  /\ result' = "-1"
  /\ UNCHANGED <<file, tail, readable, begin, valid, list>>

(* bytestream_size; a destroyed stream has none.                           *)
Left == IF valid THEN Total - begin ELSE 0

Aligned == begin % PacketSize = 0

Number == begin \div PacketSize + 1

(* What the parser may find at the cursor.                                 *)
Here == IF Aligned THEN {file[Number]} ELSE Frames

(* What ts_adaptation_field_unpack takes after its length byte, as far as  *)
(* the flags say, and whether its private data are all there.              *)
Needed(f) == f.fixed + (IF f.private THEN 1 + f.private_size ELSE 0)

PrivateFits(f) ==
  f.private => HeaderSize + 1 + Needed(f) <= Left

FieldBytes(f) == 1 + f.len

(* The bytes of the packet before its payload.                             *)
Consumed(f) == HeaderSize + (IF f.field THEN FieldBytes(f) ELSE 0)

\* Fault: neither is what the flags call for.
FieldReadsAnyway(f) == f.field /\ f.len # 0 => Consumed(f) <= Left

(* The last read skips what the length byte leaves: a negative number is a *)
(* huge one, and a huge one, or one past the end, destroys the stream.     *)
FieldReads(f) ==
  f.field /\ f.len # 0 => Needed(f) <= f.len /\ Consumed(f) <= Left

FieldStops(f) == f.field /\ f.len # 0 /\ ~PrivateFits(f)

-----------------------------------------------------------------------------
Blind == {i \in 1..Len(list) : list[i].from = 0}

Running ==
  /\ result = "running"
  /\ Left >= PacketSize
  /\ Aligned \/ Cardinality(Blind) < MaxBlind

\* Fault: the payload is not skipped.
TakePacketHead(f) ==
  /\ Running
  /\ f \in Here
  /\ ~FieldStops(f) /\ FieldReads(f)
  /\ f.payload => Consumed(f) <= PacketSize
  /\ list' = Append(list, [from |-> IF Aligned THEN Number ELSE 0, frame |-> f,
                           size |-> IF f.payload THEN PacketSize - Consumed(f) ELSE 0])
  /\ begin' = begin + Consumed(f)
  /\ UNCHANGED <<file, tail, readable, valid, result>>

(* ts_packet_unpack reaches its end, with a payload or without.            *)
TakePacket(f) ==
  /\ Running
  /\ f \in Here
  /\ ~FieldStops(f) /\ FieldReads(f)
  /\ f.payload => Consumed(f) <= PacketSize
  /\ list' = Append(list, [from |-> IF Aligned THEN Number ELSE 0, frame |-> f,
                           size |-> IF f.payload THEN PacketSize - Consumed(f) ELSE 0])
  /\ begin' = begin + (IF f.payload THEN PacketSize ELSE Consumed(f))
  /\ UNCHANGED <<file, tail, readable, valid, result>>

(* Private data longer than the stream: -1, but the stream stays valid,    *)
(* and the packets so far are the result.                                  *)
StopAtPrivate(f) ==
  /\ Running
  /\ f \in Here
  /\ FieldStops(f)
  /\ result' = "count"
  /\ UNCHANGED <<file, tail, readable, begin, valid, list>>

(* The stream is destroyed: -1 from here to the caller.                    *)
BreakStream(f) ==
  /\ Running
  /\ f \in Here
  /\ ~FieldStops(f) /\ ~FieldReads(f)
  /\ valid' = FALSE
  /\ begin' = 0
  /\ result' = "-1"
  /\ UNCHANGED <<file, tail, readable, list>>

(* An adaptation field longer than the packet, and a payload after it: its *)
(* size wraps below zero, malloc has no room for that, and abort is called.*)
Abort(f) ==
  /\ Running
  /\ f \in Here
  /\ ~FieldStops(f) /\ FieldReads(f)
  /\ f.payload /\ Consumed(f) > PacketSize
  /\ result' = "aborted"
  /\ UNCHANGED <<file, tail, readable, begin, valid, list>>

\* Fault: bytes left over are an error.
LoadEndsWhole ==
  /\ result = "running"
  /\ Left < PacketSize
  /\ result' = IF valid /\ Left = 0 THEN "count" ELSE "-1"
  /\ UNCHANGED <<file, tail, readable, begin, valid, list>>

(* No byte left, or fewer than a packet: these are left unread.            *)
LoadEnds ==
  /\ result = "running"
  /\ Left < PacketSize
  /\ result' = IF valid THEN "count" ELSE "-1"
  /\ UNCHANGED <<file, tail, readable, begin, valid, list>>

Next ==
  \/ ReadFile \/ ReadFails
  \/ \E f \in Frames :
       TakePacket(f) \/ StopAtPrivate(f) \/ BreakStream(f) \/ Abort(f)
  \/ LoadEnds

Spec == Init /\ [][Next]_vars

-----------------------------------------------------------------------------
(* A packet that is well formed and fills its 188 bytes.                   *)
Sound(f) ==
  /\ f.field \/ f.payload
  /\ f.field /\ f.len # 0 => Needed(f) <= f.len
  /\ IF f.payload THEN Consumed(f) <= PacketSize ELSE Consumed(f) = PacketSize

SoundUpTo(n) == \A i \in 1..n : Sound(file[i])

(* ts_packets_unpack, ts_packets.c:130-145.  Up to the first packet that   *)
(* is not sound the n-th packet of the list is the n-th of the file, with  *)
(* the payload its fields leave; what comes after may be anything.         *)
SoundPrefixLoads ==
  \A n \in 1..Len(file) : SoundUpTo(n) =>
    /\ Len(list) >= n => list[n] =
         [from |-> n, frame |-> file[n],
          size |-> IF file[n].payload THEN PacketSize - Consumed(file[n]) ELSE 0]
    /\ result = "count" => Len(list) >= n

(* ts_packets_load, ts_packets.c:130, 137 and 147.  Whatever the file, a   *)
(* number is returned only when it was read to its end and is not empty.   *)
(* When all its packets are sound, and there may be none, the call does    *)
(* not take the process down, that number is the file's, and it fails,     *)
(* with nothing loaded, only when the file cannot be read or is empty.     *)
FailsForCause ==
  /\ result = "count" => readable /\ Total > 0
  /\ SoundUpTo(Len(file)) =>
       /\ result # "aborted"
       /\ result = "count" => Len(list) = Len(file)
       /\ result = "-1" => list = <<>> /\ (~readable \/ Total = 0)

(* A packet whose flags call for more than its field's length, or whose    *)
(* field leaves less than nothing for its payload.                         *)
BadField(f) ==
  \/ f.field /\ f.len # 0 /\ Needed(f) > f.len
  \/ f.payload /\ Consumed(f) > PacketSize

(* The private data of the n-th packet run past the end of the file.       *)
PrivatePastEnd(n) ==
  /\ file[n].private
  /\ PacketSize * (n - 1) + HeaderSize + 1 + Needed(file[n]) > Total

(* ts_adaptation_field_unpack, ts_adaptation_field.c:114-130, and          *)
(* ts_packet_unpack, ts_packet.c:94.  When the first packet that is not    *)
(* sound has such a field, neither it nor anything behind it is loaded.    *)
(* That passes for the end of the file only when the private data run past *)
(* the file's end, and takes the process down only when a payload has no   *)
(* room.                                                                   *)
NothingBehindBadField ==
  \A n \in 1..Len(file) : SoundUpTo(n - 1) /\ BadField(file[n]) =>
    /\ Len(list) < n
    /\ result = "count" => Len(list) = n - 1 /\ PrivatePastEnd(n)
    /\ result = "aborted" => file[n].payload /\ Consumed(file[n]) > PacketSize

=============================================================================

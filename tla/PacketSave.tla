----------------------------- MODULE PacketSave -----------------------------
(***************************************************************************)
(* ts_packets_save: the packets of a list laid out as bytes, and the bytes *)
(* written to a file.                                                      *)
(*                                                                         *)
(* ts_packet_pack stuffs a short packet with an adaptation field to 188    *)
(* bytes: the field has a size to fill, ts_adaptation_field_size says how  *)
(* much of it is taken, and the rest is stuffing.  For private data that   *)
(* is an encoder boundary point (EBP) that size is not what gets written,  *)
(* nor is it for private data of no bytes.  The file is opened without     *)
(* truncating it and written in as many writes as it takes; when one fails *)
(* the rest is left out, and ts_packets_save returns what it returns       *)
(* otherwise.                                                              *)
(***************************************************************************)
EXTENDS Integers, Sequences, FiniteSetsExt

CONSTANTS
  PacketSize,   \* 188
  Packets,      \* the packets that may be saved
  MaxPackets,   \* bound: packets in the list
  OldSizes,     \* sizes the file may have before; 0 also when there is none
  WriteSizes    \* bound: how many bytes a write may take, next to none and all

HeaderSize == 4

(* size is payload_size, field says whether adaptation_field_control asks  *)
(* for a field, fixed is the bytes of its flags, PCR, OPCR and splice      *)
(* countdown, private is transport_private_data_flag and ebp is            *)
(* ebp.marker, which ts_ebp_unpack sets on private data.                   *)
PacketType ==
  [size : Nat, field : BOOLEAN, fixed : Nat \ {0}, private : BOOLEAN,
   private_size : Nat, ebp : BOOLEAN]

FieldSize(p) ==
  1 + p.fixed + (IF p.private THEN p.private_size + 1 ELSE 0)
    + (IF p.ebp THEN 15 ELSE 0)

(* The bytes of the field as it was read, or as a unit's first packet has. *)
PlainSize(p) == 1 + p.fixed + (IF p.private THEN p.private_size + 1 ELSE 0)

Room(p) == PacketSize - HeaderSize - p.size

(* What ts_packet_unpack and ts_unit_pack make: an EBP is private data,    *)
(* and a packet with a field and a payload has room for the field, or one  *)
(* byte for the empty one.                                                 *)
ASSUME SaveAssumption ==
  /\ PacketSize \in Nat
  /\ Packets \subseteq PacketType
  /\ \A p \in Packets :
       /\ HeaderSize + p.size <= PacketSize
       /\ p.private_size > 0 \/ p.ebp => p.private
       /\ p.field /\ p.size > 0 => (PlainSize(p) <= Room(p) \/ Room(p) = 1)
       /\ p.private => p.field
       /\ ~p.field => p.fixed = 1
  /\ MaxPackets \in Nat
  /\ OldSizes \subseteq Nat /\ WriteSizes \subseteq Nat \ {0}

VARIABLES
  packets,   \* the list
  at,        \* the packet ts_packets_pack is at
  sizes,     \* the bytes each packet so far has taken
  phase,     \* "packing", "opening", "writing", "returned" or "exhausted"
  old,       \* the size the file had
  written,   \* how many of the new bytes are in it
  broken     \* whether opening it or a write failed

vars == <<packets, at, sizes, phase, old, written, broken>>

TypeOK ==
  /\ packets \in Seq(Packets)
  /\ at \in 1..(Len(packets) + 1)
  /\ sizes \in Seq(Nat)
  /\ phase \in {"packing", "opening", "writing", "returned", "exhausted"}
  /\ old \in OldSizes
  /\ written \in Nat
  /\ broken \in BOOLEAN

Init ==
  /\ packets \in UNION {[1..n -> Packets] : n \in 0..MaxPackets}
  /\ at = 1
  /\ sizes = <<>>
  /\ phase = "packing"
  /\ old \in OldSizes
  /\ written = 0
  /\ broken = FALSE

-----------------------------------------------------------------------------
(* ts_packet_size before packing decides whether there is a field.         *)
HasField(p) ==
  \/ p.field
  \/ HeaderSize + p.size < PacketSize

(* What ts_adaptation_field_pack writes, its length byte included, before  *)
(* the stuffing: an EBP of its own making, or the private data.            *)
FieldBody(p) ==
  1 + p.fixed + (IF p.ebp THEN 16
                 ELSE IF p.private_size > 0 THEN 1 + p.private_size ELSE 0)

\* Fault: the length byte is not counted.
StuffingOne(p) == Room(p) - FieldSize(p) + 1

Stuffing(p) == Room(p) - FieldSize(p)

FieldBytes(p) == IF Room(p) = 1 THEN 1 ELSE FieldBody(p) + Stuffing(p)

(* The stuffing is counted down from a number below zero.                  *)
Overfull(p) == HasField(p) /\ Room(p) # 1 /\ FieldSize(p) > Room(p)

PackPacket ==
  /\ phase = "packing"
  /\ at <= Len(packets)
  /\ LET p == packets[at] IN
       /\ ~Overfull(p)
       /\ sizes' = Append(sizes, HeaderSize + p.size
                                 + (IF HasField(p) THEN FieldBytes(p) ELSE 0))
  /\ at' = at + 1
  /\ UNCHANGED <<packets, phase, old, written, broken>>

(* It goes on until there is no memory for more, and the process ends.     *)
StuffForEver ==
  /\ phase = "packing"
  /\ at <= Len(packets)
  /\ Overfull(packets[at])
  /\ phase' = "exhausted"
  /\ UNCHANGED <<packets, at, sizes, old, written, broken>>

EndPack ==
  /\ phase = "packing"
  /\ at > Len(packets)
  /\ phase' = "opening"
  /\ UNCHANGED <<packets, at, sizes, old, written, broken>>

-----------------------------------------------------------------------------
BytesOf(s) == MapThenSumSet(LAMBDA i : s[i], 1..Len(s))

Bytes == BytesOf(sizes)

\* Fault: after a write that took less than it was given, the rest is left.
CloseShort ==
  /\ phase = "writing"
  /\ written > 0
  /\ phase' = "returned"
  /\ UNCHANGED <<packets, at, sizes, old, written, broken>>

(* open with O_CREAT and O_WRONLY.                                         *)
Open ==
  /\ phase = "opening"
  /\ phase' = "writing"
  /\ UNCHANGED <<packets, at, sizes, old, written, broken>>

OpenFails ==
  /\ phase = "opening"
  /\ phase' = "returned"
  /\ broken' = TRUE
  /\ UNCHANGED <<packets, at, sizes, old, written>>

(* A write that takes nothing is tried again, for ever if it stays so.     *)
Write(n) ==
  /\ phase = "writing"
  /\ written < Bytes
  /\ n \in 0..(Bytes - written)
  /\ written' = written + n
  /\ UNCHANGED <<packets, at, sizes, phase, old, broken>>

(* write returns -1: the loop ends, ts_packets_buffer_save returns -1, and *)
(* ts_packets_save, which does not look at it, the number of packets.      *)
WriteFails ==
  /\ phase = "writing"
  /\ written < Bytes
  /\ phase' = "returned"
  /\ broken' = TRUE
  /\ UNCHANGED <<packets, at, sizes, old, written>>

Close ==
  /\ phase = "writing"
  /\ written = Bytes
  /\ phase' = "returned"
  /\ UNCHANGED <<packets, at, sizes, old, written, broken>>

Next ==
  \/ PackPacket \/ StuffForEver \/ EndPack
  \/ Open \/ OpenFails
  \/ \E n \in WriteSizes \cup {0, Bytes - written} : Write(n)
  \/ WriteFails \/ Close

Spec == Init /\ [][Next]_vars

-----------------------------------------------------------------------------
(* ts_packet_pack, ts_packet.c:35-61, and ts_adaptation_field_size,        *)
(* ts_adaptation_field.c:27-32.  Every packet that was loaded or made from *)
(* a unit takes 188 bytes, so that the next begins in step, and packing    *)
(* ends: only private data that are an EBP or are empty break this, and a  *)
(* field longer than a packet, which is read when no payload follows it.   *)
PacketsInStep ==
  /\ \A i \in 1..Len(sizes) :
       \/ sizes[i] = PacketSize
       \/ packets[i].ebp
       \/ packets[i].private /\ packets[i].private_size = 0
  /\ phase = "exhausted" =>
       LET p == packets[at] IN
         p.ebp \/ (p.size = 0 /\ PlainSize(p) > Room(p))

FileSize == IF old > written THEN old ELSE written

(* ts_packets_buffer_save, ts_packets.c:44-57.  The file is the new bytes  *)
(* and nothing else exactly when all of them were written and it was not   *)
(* longer before: a failure leaves it cut off or with its old bytes, and a *)
(* longer file keeps its end even when nothing failed.                     *)
FileReplaced ==
  phase = "returned" =>
    (written = Bytes /\ FileSize = Bytes
       <=> (~broken \/ Bytes = 0) /\ old <= Bytes)

(* examples/remux_packets.c:30-32 takes any other result than -1 for a     *)
(* saved file: a save that fails must return -1, but returns the count of  *)
(* packets (ts_packets.c:190-195).                                         *)
Result == IF phase = "returned" THEN Len(packets) ELSE 0

FailureReported == phase = "returned" /\ broken => Result = -1

=============================================================================

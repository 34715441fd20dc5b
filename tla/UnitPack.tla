------------------------------ MODULE UnitPack ------------------------------
(***************************************************************************)
(* ts_units_pack and ts_unit_pack: units cut into transport packets.       *)
(*                                                                         *)
(* The first packet of a unit carries the start indicator and, when the    *)
(* unit has a random access point or a PCR, an adaptation field; payloads  *)
(* are as long as the packet allows.  A unit with no data gives no packet. *)
(* Bytes are counted, not modelled: a packet says which bytes of its unit  *)
(* it holds.                                                               *)
(***************************************************************************)
EXTENDS Naturals, Sequences

CONSTANTS
  PacketSize,   \* 188
  Units,        \* the units that may be packed
  MaxUnits      \* bound: units in a list

HeaderSize == 4

(* A unit; pcr is empty when pcr_flag is clear, size is the buffer's.      *)
UnitRecord == [pid : Nat, rai : BOOLEAN, pcr : SUBSET Nat, size : Nat]

(* Header, the two bytes every adaptation field has, a PCR, one byte.      *)
ASSUME PackAssumption ==
  /\ PacketSize \in Nat /\ PacketSize > HeaderSize + 2 + 6
  /\ Units \subseteq UnitRecord
  /\ MaxUnits \in Nat

VARIABLES
  queue,      \* the units to pack, in list order
  at,         \* the unit being packed
  base,       \* how many of its bytes are in packets
  count,      \* how many packets it has
  packets     \* the packets made

vars == <<queue, at, base, count, packets>>

PackedType ==
  [unit : Nat, pid : Nat, start : BOOLEAN, rai : BOOLEAN, pcr : SUBSET Nat,
   af : Nat, from : Nat, size : Nat]

TypeOK ==
  /\ queue \in Seq(Units)
  /\ at \in 1..(Len(queue) + 1)
  /\ base \in Nat
  /\ at <= Len(queue) => base <= queue[at].size
  /\ count \in Nat
  /\ packets \in Seq(PackedType)

Init ==
  /\ queue \in UNION {[1..n -> Units] : n \in 0..MaxUnits}
  /\ at = 1
  /\ base = 0
  /\ count = 0
  /\ packets = <<>>

-----------------------------------------------------------------------------
(* ts_adaptation_field_size of the field the first packet gets.            *)
FieldSize(u) == 2 + (IF u.pcr # {} THEN 6 ELSE 0)

HasField(u, first) == first /\ (u.rai \/ u.pcr # {})

\* Fault: the adaptation field is not counted.
RoomPlain(u, first) == PacketSize - HeaderSize

(* 188 - ts_packet_size before the payload is set.                         *)
Room(u, first) ==
  PacketSize - HeaderSize - (IF HasField(u, first) THEN FieldSize(u) ELSE 0)

Lesser(a, b) == IF a < b THEN a ELSE b

(* One turn of the loop of ts_unit_pack.                                   *)
PackPacket ==
  /\ at <= Len(queue)
  /\ LET u == queue[at]
         first == count = 0
         n == Lesser(Room(u, first), u.size - base)
     IN /\ base < u.size
        /\ packets' = Append(packets,
             [unit |-> at, pid |-> u.pid, start |-> first,
              rai |-> first /\ u.rai, pcr |-> IF first THEN u.pcr ELSE {},
              af |-> IF HasField(u, first) THEN FieldSize(u) ELSE 0,
              from |-> base, size |-> n])
        /\ base' = base + n
  /\ count' = count + 1
  /\ UNCHANGED <<queue, at>>

\* Fault: count is not reset for the next unit.
NextUnitCounting ==
  /\ at <= Len(queue)
  /\ base = queue[at].size
  /\ at' = at + 1
  /\ base' = 0
  /\ UNCHANGED <<queue, count, packets>>

(* The loop ends with no byte left, and ts_units_pack goes to the next.    *)
NextUnit ==
  /\ at <= Len(queue)
  /\ base = queue[at].size
  /\ at' = at + 1
  /\ base' = 0
  /\ count' = 0
  /\ UNCHANGED <<queue, packets>>

Next == PackPacket \/ NextUnit

Packed == at > Len(queue)

Spec == Init /\ [][Next]_vars

-----------------------------------------------------------------------------
(* ts_unit_pack, ts_unit.c:60.  Every packet has a payload, fits, and only *)
(* the last packet of a unit may leave room (which ts_packet_pack stuffs). *)
PacketsFit ==
  \A i \in 1..Len(packets) :
    LET p == packets[i] IN
      /\ p.size > 0
      /\ HeaderSize + p.af + p.size <= PacketSize
      /\ \/ HeaderSize + p.af + p.size = PacketSize
         \/ p.from + p.size = queue[p.unit].size

(* ts_unit_pack, ts_unit.c:37-68.  The packets of a list are the units'    *)
(* bytes in order: none skipped, none repeated, and a packet carries the   *)
(* start indicator, the random access flag and the PCR exactly when it     *)
(* holds the first byte of its unit.  A unit that is done is in packets to *)
(* its last byte; an empty one has none, and its flags go with it.         *)
PacketsCover ==
  /\ \A i \in 1..Len(packets) :
       LET p == packets[i]
           u == queue[p.unit]
       IN /\ p.unit \in 1..Len(queue)
          /\ p.pid = u.pid
          /\ p.start <=> p.from = 0
          /\ p.rai <=> (p.start /\ u.rai)
          /\ p.pcr = IF p.start THEN u.pcr ELSE {}
  /\ \A i \in 1..(Len(packets) - 1) :
       LET p == packets[i]
           q == packets[i + 1]
       IN \/ q.unit = p.unit /\ q.from = p.from + p.size
          \/ /\ q.unit > p.unit
             /\ q.from = 0
             /\ p.from + p.size = queue[p.unit].size
  /\ \A k \in 1..(at - 1) :
       LET own == {i \in 1..Len(packets) : packets[i].unit = k} IN
         IF queue[k].size = 0
           THEN own = {}
           ELSE \E i \in own : packets[i].from + packets[i].size = queue[k].size

=============================================================================

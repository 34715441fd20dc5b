------------------------- MODULE PacketSave_proofs -------------------------
(***************************************************************************)
(* Proofs about PacketSave: packets keep in step whatever they hold, but   *)
(* for the private data ts_adaptation_field_size miscounts, and what a     *)
(* save leaves in the file, for any list of packets, any file before it    *)
(* and any division of the bytes into writes.                              *)
(***************************************************************************)
EXTENDS PacketSave, SequenceTheorems, TLAPS

LEMMA PacketFacts ==
  ASSUME NEW p \in Packets
  PROVE  /\ p.size \in Nat /\ p.fixed \in Nat \ {0} /\ p.private_size \in Nat
         /\ p.field \in BOOLEAN /\ p.private \in BOOLEAN /\ p.ebp \in BOOLEAN
         /\ PacketSize \in Nat /\ HeaderSize = 4
         /\ HeaderSize + p.size <= PacketSize
         /\ Room(p) \in Nat /\ Room(p) = PacketSize - 4 - p.size
         /\ FieldSize(p) \in Nat /\ FieldBody(p) \in Nat /\ PlainSize(p) \in Nat
<1>1. p \in PacketType /\ PacketSize \in Nat /\ HeaderSize + p.size <= PacketSize
  BY SaveAssumption
<1>2. /\ p.size \in Nat /\ p.fixed \in Nat \ {0} /\ p.private_size \in Nat
      /\ p.field \in BOOLEAN /\ p.private \in BOOLEAN /\ p.ebp \in BOOLEAN
  BY <1>1 DEF PacketType
<1>3. Room(p) \in Nat /\ Room(p) = PacketSize - 4 - p.size
  BY <1>1, <1>2 DEF Room, HeaderSize
<1>4. FieldSize(p) \in Nat /\ FieldBody(p) \in Nat /\ PlainSize(p) \in Nat
  BY <1>2 DEF FieldSize, FieldBody, PlainSize
<1> QED BY <1>1, <1>2, <1>3, <1>4 DEF HeaderSize

(* What ts_packet_pack writes of one packet when packing it ends.          *)
PackedSize(p) ==
  HeaderSize + p.size + (IF HasField(p) THEN FieldBytes(p) ELSE 0)

LEMMA PackedSizeFacts ==
  ASSUME NEW p \in Packets, ~Overfull(p)
  PROVE  /\ PackedSize(p) \in Nat
         /\ \/ PackedSize(p) = PacketSize
            \/ p.ebp
            \/ p.private /\ p.private_size = 0
<1>1. /\ p.size \in Nat /\ p.fixed \in Nat \ {0} /\ p.private_size \in Nat
      /\ PacketSize \in Nat /\ HeaderSize = 4
      /\ HeaderSize + p.size <= PacketSize
      /\ Room(p) \in Nat /\ Room(p) = PacketSize - 4 - p.size
      /\ FieldSize(p) \in Nat /\ FieldBody(p) \in Nat
  BY PacketFacts
<1>2. CASE ~HasField(p)
  BY <1>1, <1>2 DEF PackedSize, HasField
<1>3. CASE HasField(p) /\ Room(p) = 1
  BY <1>1, <1>3 DEF PackedSize, FieldBytes
<1>4. CASE HasField(p) /\ Room(p) # 1
  <2>1. FieldSize(p) <= Room(p)
    BY <1>1, <1>4 DEF Overfull
  <2>2. PackedSize(p) = 4 + p.size + FieldBody(p) + (Room(p) - FieldSize(p))
    BY <1>1, <1>4 DEF PackedSize, FieldBytes, Stuffing
  <2>3. PackedSize(p) \in Nat
    BY <1>1, <2>1, <2>2
  <2>4. \/ FieldBody(p) = FieldSize(p)
        \/ p.ebp
        \/ p.private /\ p.private_size = 0
    <3>1. p.private_size > 0 => p.private
      BY SaveAssumption
    <3> QED BY <1>1, <3>1 DEF FieldBody, FieldSize
  <2>5. FieldBody(p) = FieldSize(p) => PackedSize(p) = PacketSize
    BY <1>1, <2>2
  <2> QED BY <2>3, <2>4, <2>5
<1> QED BY <1>2, <1>3, <1>4

(* The field that never ends is longer than the room the packet has.       *)
LEMMA OverfullFacts ==
  ASSUME NEW p \in Packets, Overfull(p)
  PROVE  p.ebp \/ (p.size = 0 /\ PlainSize(p) > Room(p))
<1>1. /\ p.size \in Nat /\ p.fixed \in Nat \ {0} /\ p.private_size \in Nat
      /\ PacketSize \in Nat /\ HeaderSize = 4
      /\ Room(p) \in Nat /\ Room(p) = PacketSize - 4 - p.size
      /\ FieldSize(p) \in Nat /\ PlainSize(p) \in Nat
  BY PacketFacts
<1>2. HasField(p) /\ Room(p) # 1 /\ FieldSize(p) > Room(p)
  BY DEF Overfull
<1>3. ~p.ebp => PlainSize(p) = FieldSize(p)
  BY <1>1 DEF PlainSize, FieldSize
<1>4. p.field /\ p.size > 0 => PlainSize(p) <= Room(p) \/ Room(p) = 1
  BY SaveAssumption
<1>5. ~p.field => p.fixed = 1 /\ ~p.private
  BY SaveAssumption
<1>6. ~p.field => PlainSize(p) = 2 /\ Room(p) >= 2
  BY <1>1, <1>2, <1>5 DEF PlainSize, HasField
<1> QED BY <1>1, <1>2, <1>3, <1>4, <1>6

-----------------------------------------------------------------------------
(* PacketsInStep is about packets at the positions of their sizes: with    *)
(* them, it is inductive.                                                  *)
SizesOfPackets ==
  /\ Len(sizes) = at - 1
  /\ \A i \in 1..Len(sizes) :
       \/ sizes[i] = PacketSize
       \/ packets[i].ebp
       \/ packets[i].private /\ packets[i].private_size = 0

ExhaustedAt ==
  phase = "exhausted" => at <= Len(packets) /\ Overfull(packets[at])

(* What is in the file: nothing before it is open, all of it when the loop *)
(* ends well, and not all when it does not.                                *)
WrittenSoFar ==
  /\ phase \in {"packing", "opening", "exhausted"} => written = 0 /\ ~broken
  /\ phase = "writing" => ~broken
  /\ phase = "returned" =>
       IF broken THEN written = 0 \/ (Bytes # 0 /\ written # Bytes)
                 ELSE written = Bytes

SaveInv == TypeOK /\ SizesOfPackets /\ ExhaustedAt /\ WrittenSoFar

LEMMA SaveInit == Init => SaveInv
<1> SUFFICES ASSUME Init PROVE SaveInv
  OBVIOUS
<1>1. packets \in Seq(Packets) /\ Len(packets) \in Nat
  <2>1. PICK n \in 0..MaxPackets : packets \in [1..n -> Packets]
    BY DEF Init
  <2>2. n \in Nat
    BY SaveAssumption
  <2> QED BY <2>1, <2>2
<1>2. /\ at = 1 /\ sizes = <<>> /\ phase = "packing" /\ old \in OldSizes
      /\ written = 0 /\ broken = FALSE
  BY DEF Init
<1>3. TypeOK
  <2>1. at \in 1..(Len(packets) + 1)
    BY <1>1, <1>2
  <2>2. sizes \in Seq(Nat)
    BY <1>2, EmptySeq
  <2> QED BY <1>1, <1>2, <2>1, <2>2 DEF TypeOK
<1>4. SizesOfPackets /\ ExhaustedAt /\ WrittenSoFar
  BY <1>2, EmptySeq DEF SizesOfPackets, ExhaustedAt, WrittenSoFar
<1> QED BY <1>3, <1>4 DEF SaveInv

LEMMA SavePackPacket ==
  ASSUME SaveInv, PackPacket
  PROVE  SaveInv'
<1>1. /\ TypeOK /\ SizesOfPackets /\ WrittenSoFar
      /\ Len(packets) \in Nat /\ Len(sizes) \in Nat
  BY LenProperties DEF SaveInv, TypeOK
<1>2. /\ phase = "packing" /\ at \in 1..Len(packets)
      /\ at' = at + 1
      /\ UNCHANGED <<packets, phase, old, written, broken>>
  BY <1>1 DEF PackPacket, TypeOK
<1>3. PICK p \in Packets : p = packets[at]
  BY <1>1, <1>2, ElementOfSeq DEF TypeOK
<1>4. ~Overfull(p) /\ sizes' = Append(sizes, PackedSize(p))
  BY <1>3 DEF PackPacket, PackedSize
<1>5. /\ PackedSize(p) \in Nat
      /\ \/ PackedSize(p) = PacketSize
         \/ p.ebp
         \/ p.private /\ p.private_size = 0
  BY <1>4, PackedSizeFacts
<1>6. /\ sizes' \in Seq(Nat)
      /\ Len(sizes') = Len(sizes) + 1
      /\ \A i \in 1..Len(sizes) : sizes'[i] = sizes[i]
      /\ sizes'[Len(sizes) + 1] = PackedSize(p)
  BY <1>1, <1>4, <1>5, AppendProperties DEF TypeOK
<1>7. TypeOK'
  BY <1>1, <1>2, <1>6 DEF TypeOK
<1>8. SizesOfPackets'
  <2>1. Len(sizes) + 1 = at /\ Len(sizes') = at' - 1
    BY <1>1, <1>2, <1>6 DEF SizesOfPackets
  <2>2. ASSUME NEW i \in 1..Len(sizes')
        PROVE  \/ sizes'[i] = PacketSize
               \/ packets[i].ebp
               \/ packets[i].private /\ packets[i].private_size = 0
    <3>1. CASE i \in 1..Len(sizes)
      BY <1>1, <1>6, <3>1 DEF SizesOfPackets
    <3>2. CASE i = Len(sizes) + 1
      BY <1>3, <1>5, <1>6, <2>1, <3>2
    <3> QED BY <1>1, <1>6, <3>1, <3>2
  <2> QED BY <1>2, <2>1, <2>2 DEF SizesOfPackets
<1>9. ExhaustedAt' /\ WrittenSoFar'
  BY <1>1, <1>2 DEF ExhaustedAt, WrittenSoFar
<1> QED BY <1>7, <1>8, <1>9 DEF SaveInv

(* The steps after packing leave the packets and their sizes.              *)
LEMMA SaveFile ==
  ASSUME SaveInv, UNCHANGED <<packets, at, sizes, old>>,
         phase' \in {"opening", "writing", "returned", "exhausted"},
         written' \in Nat, broken' \in BOOLEAN, ExhaustedAt', WrittenSoFar'
  PROVE  SaveInv'
<1>1. TypeOK'
  BY DEF SaveInv, TypeOK
<1>2. SizesOfPackets'
  BY DEF SaveInv, SizesOfPackets
<1> QED BY <1>1, <1>2 DEF SaveInv

LEMMA SaveStep == SaveInv /\ [Next]_vars => SaveInv'
<1> SUFFICES ASSUME SaveInv, [Next]_vars
             PROVE  SaveInv'
  OBVIOUS
<1>1. /\ written \in Nat /\ broken \in BOOLEAN /\ WrittenSoFar
  BY DEF SaveInv, TypeOK
<1>2. ASSUME sizes' = sizes PROVE Bytes' = Bytes
  BY <1>2 DEF Bytes
<1>3. CASE PackPacket
  BY <1>3, SavePackPacket
<1>4. CASE StuffForEver
  BY <1>1, <1>4, SaveFile DEF StuffForEver, ExhaustedAt, WrittenSoFar
<1>5. CASE EndPack
  BY <1>1, <1>5, SaveFile DEF EndPack, ExhaustedAt, WrittenSoFar
<1>6. CASE Open
  BY <1>1, <1>6, SaveFile DEF Open, ExhaustedAt, WrittenSoFar
<1>7. CASE OpenFails
  BY <1>1, <1>7, SaveFile DEF OpenFails, ExhaustedAt, WrittenSoFar
<1>8. ASSUME NEW n \in WriteSizes \cup {0, Bytes - written}, Write(n)
      PROVE  SaveInv'
  <2>1. /\ phase = "writing" /\ n \in 0..(Bytes - written)
        /\ written' = written + n
        /\ UNCHANGED <<packets, at, sizes, phase, old, broken>>
    BY <1>8 DEF Write
  <2>2. n \in Nat
    BY <2>1
  <2>3. written' \in Nat
    BY <1>1, <2>1, <2>2
  <2> QED BY <1>1, <2>1, <2>3, SaveFile DEF ExhaustedAt, WrittenSoFar
<1>9. CASE WriteFails
  <2>1. /\ phase = "writing" /\ written < Bytes
        /\ phase' = "returned" /\ broken' = TRUE
        /\ UNCHANGED <<packets, at, sizes, old, written>>
    BY <1>9 DEF WriteFails
  <2>2. written # Bytes /\ Bytes # 0
    BY <1>1, <2>1
  <2>3. WrittenSoFar'
    BY <1>2, <2>1, <2>2 DEF WrittenSoFar
  <2> QED BY <1>1, <2>1, <2>3, SaveFile DEF ExhaustedAt
<1>10. CASE Close
  <2>1. /\ phase = "writing" /\ written = Bytes /\ phase' = "returned"
        /\ UNCHANGED <<packets, at, sizes, old, written, broken>>
    BY <1>10 DEF Close
  <2>2. WrittenSoFar'
    BY <1>1, <1>2, <2>1 DEF WrittenSoFar
  <2> QED BY <1>1, <2>1, <2>2, SaveFile DEF ExhaustedAt
<1>11. CASE UNCHANGED vars
  <2>1. UNCHANGED <<packets, at, sizes, phase, old, written, broken>>
    BY <1>11 DEF vars
  <2>2. WrittenSoFar' /\ ExhaustedAt'
    BY <1>2, <2>1 DEF SaveInv, WrittenSoFar, ExhaustedAt
  <2> QED BY <2>1, <2>2 DEF SaveInv, TypeOK, SizesOfPackets
<1> QED BY <1>3, <1>4, <1>5, <1>6, <1>7, <1>8, <1>9, <1>10, <1>11 DEF Next

(* ts_packet_pack (ts_packet.c:35-61): every packet takes 188 bytes, and   *)
(* packing ends, for any packet size and any packets, but for private data *)
(* that are an EBP or empty and a field longer than a packet.              *)
THEOREM PacketsInStepAlways == Spec => []PacketsInStep
<1>1. SaveInv => PacketsInStep
  <2> SUFFICES ASSUME SaveInv PROVE PacketsInStep
    OBVIOUS
  <2>1. ASSUME phase = "exhausted"
        PROVE  /\ packets[at] \in Packets
               /\ Overfull(packets[at])
    <3>1. at \in 1..Len(packets)
      BY <2>1, LenProperties DEF SaveInv, TypeOK, ExhaustedAt
    <3> QED BY <2>1, <3>1, ElementOfSeq DEF SaveInv, TypeOK, ExhaustedAt
  <2> QED BY <2>1, OverfullFacts DEF SaveInv, SizesOfPackets, PacketsInStep
<1> QED BY <1>1, SaveInit, SaveStep, PTL DEF Spec

(* ts_packets_buffer_save (ts_packets.c:44-57): the file is the new bytes  *)
(* and no others exactly when no write failed and it was not longer        *)
(* before, however the bytes are divided into writes.                      *)
THEOREM FileReplacedAlways == Spec => []FileReplaced
<1>1. SaveInv => FileReplaced
  <2> SUFFICES ASSUME SaveInv, phase = "returned"
               PROVE  written = Bytes /\ FileSize = Bytes
                        <=> (~broken \/ Bytes = 0) /\ old <= Bytes
    BY DEF FileReplaced
  <2>1. /\ written \in Nat /\ old \in Nat /\ broken \in BOOLEAN
        /\ IF broken THEN written = 0 \/ (Bytes # 0 /\ written # Bytes)
                     ELSE written = Bytes
    BY SaveAssumption DEF SaveInv, TypeOK, WrittenSoFar
  <2>2. CASE ~broken
    BY <2>1, <2>2 DEF FileSize
  <2>3. CASE broken
    BY <2>1, <2>3 DEF FileSize
  <2> QED BY <2>2, <2>3
<1> QED BY <1>1, SaveInit, SaveStep, PTL DEF Spec

=============================================================================

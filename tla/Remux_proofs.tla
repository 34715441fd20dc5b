---------------------------- MODULE Remux_proofs ----------------------------
(***************************************************************************)
(* Proofs about UnitPack and Remux.  Packets fit in 188 bytes, and those   *)
(* of a list are its units' bytes in order, for any units and any packet   *)
(* size that holds a header, a PCR and a byte.  What ts_units_unpack makes *)
(* of them is, on every PID that nothing was lost or repeated on, what was *)
(* sent; on the others a unit begins with the first packet of one sent,    *)
(* and goes on into another only when the start of that one was lost.      *)
(***************************************************************************)
EXTENDS Remux, SequenceTheorems, TLAPS

LEMMA InitFacts == Init => queue \in Seq(Units) /\ TypeOK
<1> SUFFICES ASSUME Init PROVE queue \in Seq(Units) /\ TypeOK
  OBVIOUS
<1>1. PICK n \in 0..MaxUnits : queue \in [1..n -> Units]
  BY DEF Init
<1>2. n \in Nat
  BY PackAssumption
<1>3. queue \in Seq(Units) /\ Len(queue) \in Nat
  BY <1>1, <1>2
<1>4. /\ 1 \in 1..(Len(queue) + 1)
      /\ 1 <= Len(queue) => queue[1] \in UnitRecord
  BY <1>3, PackAssumption, ElementOfSeq
<1>5. 1 <= Len(queue) => 0 <= queue[1].size
  BY <1>4 DEF UnitRecord
<1> QED BY <1>3, <1>4, <1>5, EmptySeq DEF Init, TypeOK

(* The room for payload is at least one byte.                              *)
LEMMA RoomFacts ==
  ASSUME NEW u \in UnitRecord, NEW first \in BOOLEAN
  PROVE  /\ Room(u, first) \in Nat \ {0}
         /\ FieldSize(u) \in Nat
         /\ HeaderSize + (IF HasField(u, first) THEN FieldSize(u) ELSE 0)
              + Room(u, first) = PacketSize
BY PackAssumption DEF Room, FieldSize, HasField, HeaderSize, UnitRecord

LEMMA LesserFacts ==
  ASSUME NEW a \in Nat \ {0}, NEW b \in Nat \ {0}
  PROVE  /\ Lesser(a, b) \in Nat \ {0}
         /\ Lesser(a, b) <= a /\ Lesser(a, b) <= b
         /\ Lesser(a, b) = a \/ Lesser(a, b) = b
BY DEF Lesser

(* One turn of ts_unit_pack: the packet it adds.                           *)
LEMMA PackFacts ==
  ASSUME TypeOK, PackPacket
  PROVE  \E p \in PackedType :
           /\ packets' \in Seq(PackedType)
           /\ Len(packets') = Len(packets) + 1 /\ Len(packets) \in Nat
           /\ \A i \in 1..Len(packets) : packets'[i] = packets[i]
           /\ packets'[Len(packets) + 1] = p
           /\ at \in 1..Len(queue) /\ queue[at] \in UnitRecord
           /\ p.unit = at /\ p.pid = queue[at].pid
           /\ p.start = (count = 0)
           /\ p.rai = (count = 0 /\ queue[at].rai)
           /\ p.pcr = IF count = 0 THEN queue[at].pcr ELSE {}
           /\ p.from = base /\ p.size \in Nat \ {0}
           /\ base' = base + p.size /\ base' <= queue[at].size
           /\ HeaderSize + p.af + p.size <= PacketSize
           /\ HeaderSize + p.af + p.size = PacketSize \/ base' = queue[at].size
<1> DEFINE u == queue[at]
           first == count = 0
           n == Lesser(Room(u, first), u.size - base)
           p == [unit |-> at, pid |-> u.pid, start |-> first,
                 rai |-> first /\ u.rai, pcr |-> IF first THEN u.pcr ELSE {},
                 af |-> IF HasField(u, first) THEN FieldSize(u) ELSE 0,
                 from |-> base, size |-> n]
<1>1. /\ at \in 1..Len(queue) /\ Len(queue) \in Nat /\ base \in Nat
      /\ base < u.size /\ base' = base + n
      /\ packets' = Append(packets, p)
      /\ packets \in Seq(PackedType) /\ Len(packets) \in Nat
  <2>1. Len(queue) \in Nat /\ Len(packets) \in Nat
    BY LenProperties DEF TypeOK
  <2> QED BY <2>1 DEF PackPacket, TypeOK
<1>2. u \in UnitRecord
  BY <1>1, ElementOfSeq, PackAssumption DEF TypeOK
<1> HIDE DEF u
<1>3. u.size \in Nat /\ u.size - base \in Nat \ {0} /\ first \in BOOLEAN
  BY <1>1, <1>2 DEF UnitRecord
<1> HIDE DEF first
<1>4. /\ Room(u, first) \in Nat \ {0}
      /\ FieldSize(u) \in Nat
      /\ HeaderSize + (IF HasField(u, first) THEN FieldSize(u) ELSE 0)
           + Room(u, first) = PacketSize
  BY <1>2, <1>3, RoomFacts
<1>5. /\ n \in Nat \ {0}
      /\ n <= Room(u, first) /\ n <= u.size - base
      /\ n = Room(u, first) \/ n = u.size - base
  BY <1>3, <1>4, LesserFacts
<1> HIDE DEF n
<1>6. p \in PackedType
  <2>1. u.pid \in Nat /\ u.rai \in BOOLEAN /\ u.pcr \in SUBSET Nat
    BY <1>2 DEF UnitRecord
  <2> QED BY <2>1, <1>1, <1>3, <1>4, <1>5 DEF PackedType
<1>7. /\ p.unit = at /\ p.pid = u.pid /\ p.start = first
      /\ p.rai = (first /\ u.rai) /\ p.pcr = IF first THEN u.pcr ELSE {}
      /\ p.from = base /\ p.size = n
      /\ p.af = IF HasField(u, first) THEN FieldSize(u) ELSE 0
  OBVIOUS
<1> HIDE DEF p
<1>8. /\ packets' \in Seq(PackedType)
      /\ Len(packets') = Len(packets) + 1
      /\ \A i \in 1..Len(packets) : packets'[i] = packets[i]
      /\ packets'[Len(packets) + 1] = p
  BY <1>1, <1>6, AppendProperties
<1>9. PacketSize \in Nat /\ HeaderSize \in Nat
  BY PackAssumption DEF HeaderSize
<1>10. /\ base' <= u.size
       /\ HeaderSize + p.af + p.size <= PacketSize
       /\ HeaderSize + p.af + p.size = PacketSize \/ base' = u.size
  <2>1. p.af \in Nat /\ HeaderSize + p.af + Room(u, first) = PacketSize
    BY <1>4, <1>7
  <2>2. base' = base + n /\ n \in Nat /\ n <= Room(u, first) /\ n <= u.size - base
    BY <1>1, <1>5
  <2>3. base' <= u.size
    BY <2>2, <1>1, <1>3
  <2>4. HeaderSize + p.af + n <= PacketSize
    BY <2>1, <2>2, <1>4, <1>9
  <2>5. HeaderSize + p.af + n = PacketSize \/ base' = u.size
    <3>1. CASE n = Room(u, first)
      BY <2>1, <3>1
    <3>2. CASE n = u.size - base
      BY <2>2, <3>2, <1>1, <1>3
    <3> QED BY <3>1, <3>2, <1>5
  <2> QED BY <1>7, <2>3, <2>4, <2>5
<1> QED BY <1>1, <1>2, <1>5, <1>6, <1>7, <1>8, <1>10 DEF u, first

-----------------------------------------------------------------------------
(* The invariant: how the loop's count and base stand to the packets made. *)
Link ==
  /\ count = 0 <=> base = 0
  /\ \A i \in 1..Len(packets) :
       packets[i].unit <= at /\ (base = 0 => packets[i].unit < at)
  /\ Len(packets) > 0 =>
       LET l == packets[Len(packets)] IN
         IF base = 0 THEN l.from + l.size = queue[l.unit].size
                     ELSE l.unit = at /\ l.from + l.size = base
  /\ base # 0 => Len(packets) > 0

PackInv == TypeOK /\ PacketsFit /\ PacketsCover /\ Link

LEMMA PackInvInit == Init => PackInv
<1> SUFFICES ASSUME Init PROVE PackInv
  OBVIOUS
<1>1. TypeOK
  BY InitFacts
<1>2. Len(packets) = 0 /\ at = 1 /\ base = 0 /\ count = 0
  BY EmptySeq DEF Init
<1>3. PacketsFit /\ PacketsCover /\ Link
  BY <1>2 DEF PacketsFit, PacketsCover, Link
<1> QED BY <1>1, <1>3 DEF PackInv

LEMMA PackInvPackPacket ==
  ASSUME PackInv, PackPacket
  PROVE  PackInv'
<1> DEFINE L == Len(packets)
<1>1. TypeOK /\ PacketsFit /\ PacketsCover /\ Link
  BY DEF PackInv
<1>2. PICK p \in PackedType :
        /\ packets' \in Seq(PackedType)
        /\ Len(packets') = L + 1 /\ L \in Nat
        /\ \A i \in 1..L : packets'[i] = packets[i]
        /\ packets'[L + 1] = p
        /\ at \in 1..Len(queue) /\ queue[at] \in UnitRecord
        /\ p.unit = at /\ p.pid = queue[at].pid
        /\ p.start = (count = 0)
        /\ p.rai = (count = 0 /\ queue[at].rai)
        /\ p.pcr = IF count = 0 THEN queue[at].pcr ELSE {}
        /\ p.from = base /\ p.size \in Nat \ {0}
        /\ base' = base + p.size /\ base' <= queue[at].size
        /\ HeaderSize + p.af + p.size <= PacketSize
        /\ HeaderSize + p.af + p.size = PacketSize \/ base' = queue[at].size
  BY <1>1, PackFacts
<1>3. /\ queue' = queue /\ at' = at /\ count' = count + 1
      /\ base \in Nat /\ count \in Nat /\ at \in Nat
      /\ base' \in Nat \ {0}
  BY <1>1, <1>2 DEF PackPacket, TypeOK
<1> HIDE DEF L
<1>4. TypeOK'
  BY <1>1, <1>2, <1>3 DEF TypeOK
<1>5. \A i \in 1..(L + 1) : i \in 1..L \/ i = L + 1
  BY <1>2
<1>6. PacketsFit'
  <2>1. /\ p.size > 0
        /\ HeaderSize + p.af + p.size <= PacketSize
        /\ \/ HeaderSize + p.af + p.size = PacketSize
           \/ p.from + p.size = queue[p.unit].size
    BY <1>2
  <2>2. ASSUME NEW i \in 1..Len(packets')
        PROVE  LET q == packets'[i] IN
                 /\ q.size > 0
                 /\ HeaderSize + q.af + q.size <= PacketSize
                 /\ \/ HeaderSize + q.af + q.size = PacketSize
                    \/ q.from + q.size = queue[q.unit].size
    <3>1. CASE i \in 1..L
      BY <3>1, <1>1, <1>2 DEF PacketsFit, L
    <3>2. CASE i = L + 1
      BY <3>2, <2>1, <1>2
    <3> QED BY <1>2, <1>5, <3>1, <3>2
  <2> QED BY <2>2, <1>3 DEF PacketsFit
<1>7. PacketsCover'
  <2>1. ASSUME NEW i \in 1..Len(packets')
        PROVE  LET q == packets'[i]
                   u == queue[q.unit]
               IN /\ q.unit \in 1..Len(queue)
                  /\ q.pid = u.pid
                  /\ q.start <=> q.from = 0
                  /\ q.rai <=> (q.start /\ u.rai)
                  /\ q.pcr = IF q.start THEN u.pcr ELSE {}
    <3>1. CASE i \in 1..L
      BY <3>1, <1>1, <1>2 DEF PacketsCover, L
    <3>2. CASE i = L + 1
      <4>1. p.start <=> p.from = 0
        BY <1>1, <1>2 DEF Link
      <4>2. /\ p.unit \in 1..Len(queue) /\ p.unit = at
            /\ p.pid = queue[at].pid
        BY <1>2
      <4>3. /\ p.rai <=> (p.start /\ queue[at].rai)
            /\ p.pcr = IF p.start THEN queue[at].pcr ELSE {}
        BY <1>2
      <4>4. packets'[i] = p
        BY <3>2, <1>2
      <4> QED BY <4>1, <4>2, <4>3, <4>4, Zenon
    <3> QED BY <1>2, <1>5, <3>1, <3>2
  <2>2. ASSUME NEW i \in 1..(Len(packets') - 1)
        PROVE  LET r == packets'[i]
                   q == packets'[i + 1]
               IN \/ q.unit = r.unit /\ q.from = r.from + r.size
                  \/ /\ q.unit > r.unit
                     /\ q.from = 0
                     /\ r.from + r.size = queue[r.unit].size
    <3>1. i \in 1..L /\ packets'[i] = packets[i]
      BY <1>2
    <3>2. CASE i # L
      <4>1. i \in 1..(L - 1) /\ i + 1 \in 1..L
        BY <3>1, <3>2, <1>2
      <4>2. packets'[i + 1] = packets[i + 1]
        BY <4>1, <1>2
      <4> QED BY <3>1, <4>1, <4>2, <1>1 DEF PacketsCover, L
    <3>3. CASE i = L
      <4>1. packets'[i + 1] = p /\ packets'[i] = packets[L] /\ L > 0
        BY <3>1, <3>3, <1>2
      <4>2. CASE base = 0
        <5>1. packets[L].from + packets[L].size = queue[packets[L].unit].size
          BY <4>1, <4>2, <1>1 DEF Link, L
        <5>2. packets[L].unit < at
          BY <3>1, <3>3, <4>2, <1>1 DEF Link, L
        <5>3. p.unit = at /\ p.from = 0
          BY <4>2, <1>2
        <5>4. packets[L].unit \in Nat
          <6>1. L \in 1..Len(packets) /\ packets \in Seq(PackedType)
            BY <3>1, <3>3, <1>1 DEF TypeOK, L
          <6>2. packets[L] \in PackedType
            BY <6>1, ElementOfSeq
          <6> QED BY <6>2 DEF PackedType
        <5> QED BY <4>1, <5>1, <5>2, <5>3, <5>4, <1>3
      <4>3. CASE base # 0
        <5>1. packets[L].unit = at /\ packets[L].from + packets[L].size = base
          BY <4>1, <4>3, <1>1 DEF Link, L
        <5> QED BY <4>1, <5>1, <1>2
      <4> QED BY <4>2, <4>3
    <3> QED BY <3>2, <3>3
  <2>3. ASSUME NEW k \in 1..(at - 1)
        PROVE  LET own == {i \in 1..Len(packets') : packets'[i].unit = k} IN
                 IF queue[k].size = 0
                   THEN own = {}
                   ELSE \E i \in own :
                          packets'[i].from + packets'[i].size = queue[k].size
    <3> DEFINE old == {i \in 1..L : packets[i].unit = k}
               own == {i \in 1..Len(packets') : packets'[i].unit = k}
    <3>1. own = old
      <4>1. p.unit # k
        BY <1>2, <1>3
      <4> QED BY <4>1, <1>2, <1>5
    <3>2. IF queue[k].size = 0
            THEN old = {}
            ELSE \E i \in old : packets[i].from + packets[i].size = queue[k].size
      BY <1>1 DEF PacketsCover, L
    <3>3. \A i \in old : packets'[i] = packets[i]
      BY <1>2
    <3> QED BY <3>1, <3>2, <3>3
  <2>4. queue' = queue /\ at' = at
    BY <1>3
  <2> QED BY <2>1, <2>2, <2>3, <2>4, Zenon DEF PacketsCover
<1>8. Link'
  <2>1. count' # 0 /\ base' # 0
    BY <1>3
  <2>2. ASSUME NEW i \in 1..Len(packets')
        PROVE  packets'[i].unit <= at
    <3>1. CASE i \in 1..L
      BY <3>1, <1>1, <1>2 DEF Link, L
    <3>2. CASE i = L + 1
      BY <3>2, <1>2, <1>3
    <3> QED BY <1>2, <1>5, <3>1, <3>2
  <2>3. Len(packets') > 0 /\ packets'[Len(packets')] = p
    BY <1>2
  <2>4. p.unit = at /\ p.from + p.size = base'
    BY <1>2
  <2> QED BY <2>1, <2>2, <2>3, <2>4, <1>3 DEF Link
<1> QED BY <1>4, <1>6, <1>7, <1>8 DEF PackInv

LEMMA PackInvNextUnit ==
  ASSUME PackInv, NextUnit
  PROVE  PackInv'
<1> DEFINE L == Len(packets)
<1>1. /\ TypeOK /\ PacketsFit /\ PacketsCover /\ Link
      /\ Len(queue) \in Nat /\ L \in Nat
  BY LenProperties DEF PackInv, TypeOK
<1>2. /\ at \in 1..Len(queue) /\ base = queue[at].size /\ base \in Nat
      /\ at' = at + 1 /\ base' = 0 /\ count' = 0
      /\ queue' = queue /\ packets' = packets
  BY <1>1 DEF NextUnit, TypeOK
<1>3. \A i \in 1..L : packets[i] \in PackedType
  BY <1>1, ElementOfSeq DEF TypeOK
<1>4. TypeOK'
  <2>1. \A k \in 1..Len(queue) : queue[k].size \in Nat
    BY <1>1, ElementOfSeq, PackAssumption, SMTT(30) DEF TypeOK, UnitRecord
  <2>2. at + 1 <= Len(queue) => 0 <= queue[at + 1].size
    BY <2>1, <1>1, <1>2
  <2> QED BY <2>2, <1>1, <1>2 DEF TypeOK
<1>5. PacketsFit'
  BY <1>1, <1>2 DEF PacketsFit
<1>6. L > 0 => packets[L].from + packets[L].size = queue[packets[L].unit].size
  BY <1>1, <1>2 DEF Link
<1>7. PacketsCover'
  <2>1. ASSUME NEW k \in 1..((at + 1) - 1)
        PROVE  LET own == {i \in 1..Len(packets) : packets[i].unit = k} IN
                 IF queue[k].size = 0
                   THEN own = {}
                   ELSE \E i \in own :
                          packets[i].from + packets[i].size = queue[k].size
    <3>1. CASE k # at
      <4>1. k \in 1..(at - 1)
        BY <3>1, <1>2
      <4> QED BY <4>1, <1>1 DEF PacketsCover
    <3>2. CASE k = at /\ base = 0
      <4>1. \A i \in 1..L : packets[i].unit < at /\ packets[i].unit \in Nat
        BY <3>2, <1>1, <1>3 DEF Link, PackedType
      <4> QED BY <3>2, <4>1, <1>2
    <3>3. CASE k = at /\ base # 0
      <4>1. L \in 1..L /\ packets[L].unit = at /\ packets[L].from + packets[L].size = base
        BY <3>3, <1>1 DEF Link
      <4> QED BY <3>3, <4>1, <1>2
    <3> QED BY <3>1, <3>2, <3>3
  <2> QED BY <2>1, <1>1, <1>2 DEF PacketsCover
<1>8. Link'
  <2>1. \A i \in 1..L : packets[i].unit <= at + 1 /\ packets[i].unit < at + 1
    BY <1>1, <1>2, <1>3 DEF Link, PackedType
  <2> QED BY <2>1, <1>2, <1>6 DEF Link
<1> QED BY <1>4, <1>5, <1>7, <1>8 DEF PackInv

LEMMA PackInvStep == PackInv /\ [Next]_vars => PackInv'
<1>1. ASSUME PackInv, UNCHANGED vars PROVE PackInv'
  BY <1>1 DEF vars, PackInv, TypeOK, PacketsFit, PacketsCover, Link
<1> QED BY <1>1, PackInvPackPacket, PackInvNextUnit DEF Next

(* ts_unit_pack (ts_unit.c:60): no packet is longer than the packet size,  *)
(* and only the last of a unit is shorter, for every such size.            *)
THEOREM PacketsFitAlways == Spec => []PacketsFit
<1>1. PackInv => PacketsFit
  BY DEF PackInv
<1> QED BY <1>1, PackInvInit, PackInvStep, PTL DEF Spec

(* ts_unit_pack (ts_unit.c:37-68): the packets are the units' bytes in     *)
(* order and in full, for any list of units.                               *)
THEOREM PacketsCoverAlways == Spec => []PacketsCover
<1>1. PackInv => PacketsCover
  BY DEF PackInv
<1> QED BY <1>1, PackInvInit, PackInvStep, PTL DEF Spec

-----------------------------------------------------------------------------
(* The packets are in the order of their units, each has the packet that   *)
(* starts its unit at or before it, and none passes the end of its unit.   *)
UnitsInOrder ==
  \A i, j \in 1..Len(packets) : i < j => packets[i].unit <= packets[j].unit

StartBefore ==
  \A i \in 1..Len(packets) : \E s \in 1..i :
    packets[s].start /\ packets[s].unit = packets[i].unit

WithinUnit ==
  \A i \in 1..Len(packets) :
    packets[i].from + packets[i].size <= queue[packets[i].unit].size

SenderInv == PackInv /\ UnitsInOrder /\ StartBefore /\ WithinUnit

-----------------------------------------------------------------------------
WireType ==
  [pid : Nat, start : BOOLEAN, rai : BOOLEAN, pcr : SUBSET Nat, size : Nat]

RemuxTypeOK ==
  /\ got \in Seq(R!UnitType)
  /\ incomplete \in Seq(Nat \ {0})
  /\ calls \in Nat
  /\ fed \in Seq([packet : WireType, call : Nat])
  /\ sent \in [Pids -> Nat]
  /\ source \in Seq(Nat \ {0})
  /\ lost \in SUBSET (Nat \ {0})

(* What the channel knows of the packets, and the list of open units.      *)
InReach ==
  /\ Len(fed) = Len(source)
  /\ \A n \in 1..Len(source) : source[n] \in 1..Len(packets)
  /\ \A pid \in Pids : sent[pid] <= Len(packets)
  /\ \A pid \in Pids : sent[pid] # 0 => packets[sent[pid]].pid = pid
  /\ lost \subseteq 1..Len(packets)

OneOpen ==
  /\ \A i \in 1..Len(incomplete) : incomplete[i] \in 1..Len(got)
  /\ \A i, j \in 1..Len(incomplete) :
       got[incomplete[i]].pid = got[incomplete[j]].pid => i = j

(* The sent packet that piece a of unit g is a copy of.                    *)
Piece(g, a) == source[got[g].data[a]]

(* A unit received begins with the first packet of a unit, and its pieces  *)
(* are packets of its PID that were sent, none before its first.           *)
BegunAt(g) ==
  /\ got[g].pid \in Pids
  /\ Len(got[g].data) > 0
  /\ packets[Piece(g, 1)].start
  /\ \A a \in 1..Len(got[g].data) :
       /\ got[g].data[a] \in 1..Len(source)
       /\ packets[Piece(g, a)].pid = got[g].pid
       /\ Piece(g, 1) <= Piece(g, a)
       /\ Piece(g, a) <= sent[got[g].pid]

(* Every start of its PID sent after its first packet was lost.            *)
StartsLostAt(g) ==
  \A s \in 1..Len(packets) :
    /\ packets[s].start /\ packets[s].pid = got[g].pid
    /\ Piece(g, 1) < s /\ s <= sent[got[g].pid]
    => s \in lost

(* A piece of another unit than its first's is behind a start lost.        *)
GluedAt(g) ==
  \A a \in 1..Len(got[g].data) :
    packets[Piece(g, a)].unit # packets[Piece(g, 1)].unit =>
      \E s \in lost : /\ packets[s].unit = packets[Piece(g, a)].unit
                      /\ packets[s].start

(* GluedOnlyByLostStart is not inductive: what it needs is that no start   *)
(* that arrived lies between the pieces of a unit still open, since it     *)
(* would have closed the unit, the only open one of the PID.               *)
UnitsReceived ==
  /\ \A g \in 1..Len(got) : BegunAt(g) /\ GluedAt(g)
  /\ \A g \in 1..Len(got) : R!IsOpen(g) => StartsLostAt(g)

RemuxInv == SenderInv /\ RemuxTypeOK /\ InReach /\ OneOpen /\ UnitsReceived

-----------------------------------------------------------------------------
(* The sender: ts_units_pack starts each unit, and keeps their order.      *)
LEMMA PackedElements ==
  ASSUME TypeOK
  PROVE  /\ Len(packets) \in Nat
         /\ \A i \in 1..Len(packets) : packets[i] \in PackedType
BY LenProperties, ElementOfSeq DEF TypeOK

LEMMA SenderInit == Init => SenderInv
<1> SUFFICES ASSUME Init PROVE SenderInv
  OBVIOUS
<1>1. Len(packets) = 0
  BY EmptySeq DEF Init
<1> QED BY <1>1, PackInvInit DEF SenderInv, UnitsInOrder, StartBefore, WithinUnit

(* What ts_unit_pack does to packets that are made: nothing.               *)
Longer == /\ Len(packets) <= Len(packets') /\ Len(packets') \in Nat
          /\ \A i \in 1..Len(packets) : packets'[i] = packets[i]

LEMMA SenderPackPacket ==
  ASSUME SenderInv, PackPacket
  PROVE  SenderInv' /\ Longer
<1> DEFINE L == Len(packets)
<1>1. /\ PackInv /\ TypeOK /\ Link
      /\ UnitsInOrder /\ StartBefore /\ WithinUnit
  BY DEF SenderInv, PackInv
<1>2. PackInv'
  BY <1>1, PackInvPackPacket
<1>3. PICK p \in PackedType :
        /\ Len(packets') = L + 1 /\ L \in Nat
        /\ \A i \in 1..L : packets'[i] = packets[i]
        /\ packets'[L + 1] = p
        /\ p.unit = at /\ p.start = (count = 0)
        /\ p.from = base /\ base' = base + p.size /\ base' <= queue[at].size
  BY <1>1, PackFacts
<1>4. \A i \in 1..L : packets[i].unit <= at
  BY <1>1 DEF Link
<1>5. \A i \in 1..(L + 1) : i \in 1..L \/ i = L + 1
  BY <1>3
<1>6. count # 0 => L \in 1..L /\ packets[L].unit = at
  BY <1>1, <1>3 DEF Link
<1>7. at \in Nat
  BY <1>1, LenProperties DEF TypeOK
<1> HIDE DEF L
<1>8. UnitsInOrder'
  <2> SUFFICES ASSUME NEW i \in 1..(L + 1), NEW j \in 1..(L + 1), i < j
               PROVE  packets'[i].unit <= packets'[j].unit
    BY <1>3 DEF UnitsInOrder
  <2>1. i \in 1..L /\ packets'[i] = packets[i]
    BY <1>3
  <2>2. CASE j \in 1..L
    BY <1>1, <1>3, <2>1, <2>2 DEF UnitsInOrder, L
  <2>3. CASE j = L + 1
    BY <1>3, <1>4, <2>1, <2>3
  <2> QED BY <1>5, <2>2, <2>3
<1>9. StartBefore'
  <2> SUFFICES ASSUME NEW i \in 1..(L + 1)
               PROVE  \E s \in 1..i : /\ packets'[s].start
                                      /\ packets'[s].unit = packets'[i].unit
    BY <1>3 DEF StartBefore
  <2>1. ASSUME NEW j \in 1..L
        PROVE  \E s \in 1..j : packets'[s].start /\ packets'[s].unit = packets[j].unit
    <3>1. PICK s \in 1..j : packets[s].start /\ packets[s].unit = packets[j].unit
      BY <1>1 DEF StartBefore, L
    <3>2. s \in 1..L
      BY <1>3
    <3> QED BY <1>3, <3>1, <3>2
  <2>2. CASE i \in 1..L
    BY <1>3, <2>1, <2>2
  <2>3. CASE i = L + 1 /\ count = 0
    BY <1>3, <2>3
  <2>4. CASE i = L + 1 /\ count # 0
    <3>1. PICK s \in 1..L : packets'[s].start /\ packets'[s].unit = packets[L].unit
      BY <1>6, <2>1, <2>4
    <3>2. s \in 1..i
      BY <1>3, <2>4
    <3> QED BY <1>3, <1>6, <2>4, <3>1, <3>2
  <2> QED BY <1>5, <2>2, <2>3, <2>4
<1>10. WithinUnit'
  <2>1. queue' = queue
    BY DEF PackPacket
  <2>2. ASSUME NEW i \in 1..(L + 1)
        PROVE  packets'[i].from + packets'[i].size <= queue[packets'[i].unit].size
    <3>1. CASE i \in 1..L
      BY <1>1, <1>3, <3>1 DEF WithinUnit, L
    <3>2. CASE i = L + 1
      BY <1>3, <3>2
    <3> QED BY <1>5, <3>1, <3>2
  <2> QED BY <1>3, <2>1, <2>2 DEF WithinUnit
<1> QED BY <1>2, <1>3, <1>8, <1>9, <1>10 DEF SenderInv, Longer, L

LEMMA SenderStep == SenderInv /\ [Next]_vars => SenderInv' /\ Longer
<1> SUFFICES ASSUME SenderInv, [Next]_vars
             PROVE  SenderInv' /\ Longer
  OBVIOUS
<1>1. PackInv' /\ Len(packets) \in Nat
  BY PackInvStep, PackedElements DEF SenderInv, PackInv
<1>2. CASE PackPacket
  BY <1>2, SenderPackPacket
<1>3. CASE NextUnit \/ UNCHANGED vars
  <2>1. packets' = packets
    BY <1>3 DEF NextUnit, vars
  <2>2. UnitsInOrder' /\ StartBefore' /\ WithinUnit'
    <3>1. queue' = queue
      BY <1>3 DEF NextUnit, vars
    <3> QED BY <2>1, <3>1 DEF SenderInv, UnitsInOrder, StartBefore, WithinUnit
  <2> QED BY <1>1, <2>1, <2>2 DEF SenderInv, Longer
<1> QED BY <1>2, <1>3 DEF Next

-----------------------------------------------------------------------------
(* The receiver's list of open units.                                      *)
LEMMA RemoveAtFacts ==
  ASSUME NEW S, NEW s \in Seq(S), NEW i \in 1..Len(s)
  PROVE  /\ R!RemoveAt(s, i) \in Seq(S)
         /\ Len(R!RemoveAt(s, i)) = Len(s) - 1
         /\ \A j \in 1..(Len(s) - 1) :
              R!RemoveAt(s, i)[j] = IF j < i THEN s[j] ELSE s[j + 1]
<1> DEFINE L == SubSeq(s, 1, i - 1)
           T == SubSeq(s, i + 1, Len(s))
<1>1. Len(s) \in Nat /\ i \in Nat /\ \A j \in 1..Len(s) : s[j] \in S
  BY LenProperties, ElementOfSeq
<1>2. /\ L \in Seq(S) /\ Len(L) = i - 1
      /\ \A j \in 1..(i - 1) : L[j] = s[j]
  <2>1. \A j \in 1..(i - 1) : s[j] \in S
    BY <1>1
  <2> QED BY <1>1, <2>1, SubSeqProperties
<1>3. /\ T \in Seq(S) /\ Len(T) = Len(s) - i
      /\ \A j \in 1..(Len(s) - i) : T[j] = s[i + j]
  <2>1. \A j \in (i + 1)..Len(s) : s[j] \in S
    BY <1>1
  <2>2. /\ T \in Seq(S)
        /\ Len(T) = IF i + 1 <= Len(s) THEN Len(s) - (i + 1) + 1 ELSE 0
        /\ \A j \in 1..(Len(s) - (i + 1) + 1) : T[j] = s[(i + 1) + j - 1]
    BY <1>1, <2>1, SubSeqProperties
  <2> QED BY <1>1, <2>2
<1>4. /\ L \o T \in Seq(S)
      /\ Len(L \o T) = Len(L) + Len(T)
      /\ \A j \in 1..(Len(L) + Len(T)) :
           (L \o T)[j] = IF j <= Len(L) THEN L[j] ELSE T[j - Len(L)]
  BY <1>2, <1>3, ConcatProperties
<1>5. R!RemoveAt(s, i) = L \o T
  BY DEF R!RemoveAt
<1> HIDE DEF L, T
<1>6. ASSUME NEW j \in 1..(Len(s) - 1)
      PROVE  (L \o T)[j] = IF j < i THEN s[j] ELSE s[j + 1]
  <2>1. CASE j < i
    BY <2>1, <1>1, <1>2, <1>3, <1>4
  <2>2. CASE ~(j < i)
    <3>1. j - Len(L) \in 1..(Len(s) - i) /\ i + (j - Len(L)) = j + 1
      BY <2>2, <1>1, <1>2
    <3>2. j \in 1..(Len(L) + Len(T)) /\ ~(j <= Len(L))
      BY <2>2, <1>1, <1>2, <1>3
    <3>3. (L \o T)[j] = T[j - Len(L)] /\ T[j - Len(L)] = s[j + 1]
      BY <1>3, <1>4, <3>1, <3>2
    <3> QED BY <2>2, <3>3
  <2> QED BY <2>1, <2>2
<1>7. Len(L \o T) = Len(s) - 1
  BY <1>1, <1>2, <1>3, <1>4
<1> QED BY <1>4, <1>5, <1>6, <1>7

LEMMA FoundFacts ==
  ASSUME OneOpen, incomplete \in Seq(Nat \ {0}), NEW pid, R!Matches(pid) # {}
  PROVE  /\ R!Found(pid) \in 1..Len(incomplete)
         /\ got[incomplete[R!Found(pid)]].pid = pid
         /\ \A i \in 1..Len(incomplete) :
              got[incomplete[i]].pid = pid => i = R!Found(pid)
<1>1. \A i, j \in R!Matches(pid) : i = j
  BY DEF R!Matches, OneOpen
<1>2. PICK i \in R!Matches(pid) : TRUE
  OBVIOUS
<1>3. i \in Nat
  BY LenProperties DEF R!Matches
<1>4. \A j \in R!Matches(pid) : j <= i
  BY <1>1, <1>2, <1>3
<1>5. R!Found(pid) \in R!Matches(pid)
  BY <1>2, <1>4 DEF R!Found
<1> QED BY <1>1, <1>5 DEF R!Matches

(* The list after the open unit of the PID is erased, and the new one      *)
(* added: the others stay, and none is of the PID.                         *)
LEMMA ReopenFacts ==
  ASSUME OneOpen, incomplete \in Seq(Nat \ {0}), NEW pid,
         Len(got) \in Nat
  PROVE  \E r \in Seq(Nat \ {0}) :
           /\ R!Reopen(pid) \in Seq(Nat \ {0})
           /\ Len(r) \in Nat
           /\ Len(R!Reopen(pid)) = Len(r) + 1
           /\ \A i \in 1..Len(r) : R!Reopen(pid)[i] = r[i]
           /\ R!Reopen(pid)[Len(r) + 1] = Len(got) + 1
           /\ \A i \in 1..Len(r) :
                /\ R!IsOpen(r[i]) /\ r[i] \in 1..Len(got)
                /\ got[r[i]].pid # pid
           /\ \A i, j \in 1..Len(r) : got[r[i]].pid = got[r[j]].pid => i = j
<1> DEFINE r == IF R!Matches(pid) = {} THEN incomplete
                ELSE R!RemoveAt(incomplete, R!Found(pid))
           f == R!Found(pid)
<1>1. /\ Len(incomplete) \in Nat
      /\ \A i \in 1..Len(incomplete) : incomplete[i] \in 1..Len(got)
      /\ \A i, j \in 1..Len(incomplete) :
           got[incomplete[i]].pid = got[incomplete[j]].pid => i = j
  BY LenProperties DEF OneOpen
<1>2. R!Reopen(pid) = Append(r, Len(got) + 1)
  BY DEF R!Reopen
<1> SUFFICES /\ r \in Seq(Nat \ {0})
             /\ \A i \in 1..Len(r) :
                  /\ R!IsOpen(r[i]) /\ r[i] \in 1..Len(got)
                  /\ got[r[i]].pid # pid
             /\ \A i, j \in 1..Len(r) : got[r[i]].pid = got[r[j]].pid => i = j
  <2> HIDE DEF r
  <2>1. ASSUME r \in Seq(Nat \ {0})
        PROVE  /\ Append(r, Len(got) + 1) \in Seq(Nat \ {0})
               /\ Len(r) \in Nat
               /\ Len(Append(r, Len(got) + 1)) = Len(r) + 1
               /\ \A i \in 1..Len(r) : Append(r, Len(got) + 1)[i] = r[i]
               /\ Append(r, Len(got) + 1)[Len(r) + 1] = Len(got) + 1
    <3>1. Len(got) + 1 \in Nat \ {0}
      OBVIOUS
    <3> QED BY <2>1, <3>1, AppendProperties, LenProperties
  <2> QED BY <1>2, <2>1
<1>3. CASE R!Matches(pid) = {}
  <2>1. r = incomplete
    BY <1>3
  <2>2. \A i \in 1..Len(incomplete) : got[incomplete[i]].pid # pid
    BY <1>3 DEF R!Matches
  <2> QED BY <1>1, <2>1, <2>2 DEF R!IsOpen
<1>4. CASE R!Matches(pid) # {}
  <2>1. /\ f \in 1..Len(incomplete)
        /\ \A i \in 1..Len(incomplete) : got[incomplete[i]].pid = pid => i = f
        /\ got[incomplete[f]].pid = pid
    BY <1>4, FoundFacts
  <2>2. r = R!RemoveAt(incomplete, f)
    BY <1>4
  <2> HIDE DEF f, r
  <2>3. /\ r \in Seq(Nat \ {0})
        /\ Len(r) = Len(incomplete) - 1
        /\ \A j \in 1..(Len(incomplete) - 1) :
             r[j] = IF j < f THEN incomplete[j] ELSE incomplete[j + 1]
    BY <2>1, <2>2, RemoveAtFacts
  <2>4. ASSUME NEW i \in 1..Len(r)
        PROVE  \E a \in 1..Len(incomplete) :
                 r[i] = incomplete[a] /\ a = IF i < f THEN i ELSE i + 1
    <3>1. CASE i < f
      BY <1>1, <2>1, <2>3, <3>1
    <3>2. CASE ~(i < f)
      <4>1. i + 1 \in 1..Len(incomplete) /\ r[i] = incomplete[i + 1]
        BY <1>1, <2>1, <2>3, <3>2
      <4> QED BY <3>2, <4>1
    <3> QED BY <3>1, <3>2
  <2>5. ASSUME NEW i \in 1..Len(r)
        PROVE  /\ R!IsOpen(r[i]) /\ r[i] \in 1..Len(got)
               /\ got[r[i]].pid # pid
    <3>1. PICK a \in 1..Len(incomplete) :
            r[i] = incomplete[a] /\ a = IF i < f THEN i ELSE i + 1
      BY <2>4
    <3>2. a # f
      BY <1>1, <2>1, <2>3, <3>1, SMTT(30)
    <3> QED BY <1>1, <2>1, <3>1, <3>2 DEF R!IsOpen
  <2>6. ASSUME NEW i \in 1..Len(r), NEW j \in 1..Len(r),
               got[r[i]].pid = got[r[j]].pid
        PROVE  i = j
    <3>1. PICK a \in 1..Len(incomplete) :
            r[i] = incomplete[a] /\ a = IF i < f THEN i ELSE i + 1
      BY <2>4
    <3>2. PICK b \in 1..Len(incomplete) :
            r[j] = incomplete[b] /\ b = IF j < f THEN j ELSE j + 1
      BY <2>4
    <3>3. a = b
      BY <1>1, <2>6, <3>1, <3>2
    <3>4. i \in Nat /\ j \in Nat /\ f \in Nat
      BY <1>1, <2>1, <2>3
    <3> QED BY <3>1, <3>2, <3>3, <3>4
  <2> QED BY <2>3, <2>5, <2>6
<1> QED BY <1>3, <1>4

-----------------------------------------------------------------------------
(* A packet that reaches the receiver.                                     *)
LEMMA WireFacts ==
  ASSUME SenderInv, NEW i \in 1..Len(packets)
  PROVE  /\ OnWire(packets[i]) \in WireType
         /\ OnWire(packets[i]).pid = packets[i].pid
         /\ OnWire(packets[i]).start = packets[i].start
         /\ OnWire(packets[i]).rai = packets[i].rai
         /\ OnWire(packets[i]).pcr = packets[i].pcr
         /\ OnWire(packets[i]).size \in Nat \ {0}
<1>1. packets[i] \in PackedType
  BY PackedElements DEF SenderInv, PackInv
<1>2. packets[i].size > 0
  BY DEF SenderInv, PackInv, PacketsFit
<1> QED BY <1>1, <1>2 DEF OnWire, PackedType, WireType

LEMMA FeedFacts ==
  ASSUME RemuxTypeOK, NEW p \in WireType, R!Feed(p)
  PROVE  /\ fed' \in Seq([packet : WireType, call : Nat])
         /\ Len(fed') = Len(fed) + 1 /\ Len(fed) \in Nat
         /\ calls' = calls
<1>1. [packet |-> p, call |-> calls] \in [packet : WireType, call : Nat]
  BY DEF RemuxTypeOK
<1>2. fed \in Seq([packet : WireType, call : Nat])
  BY DEF RemuxTypeOK
<1>3. fed' = Append(fed, [packet |-> p, call |-> calls])
  BY DEF R!Feed
<1>4. calls' = calls
  BY DEF R!Feed
<1> QED BY <1>1, <1>2, <1>3, <1>4, AppendProperties, LenProperties

(* A unit opened with packet p, fed as number n.                           *)
LEMMA OpenFacts ==
  ASSUME RemuxTypeOK, NEW p \in WireType, p.size # 0, R!OpenUnit(p)
  PROVE  /\ got' \in Seq(R!UnitType)
         /\ Len(got') = Len(got) + 1 /\ Len(got) \in Nat
         /\ \A g \in 1..Len(got) : got'[g] = got[g]
         /\ got'[Len(got) + 1].pid = p.pid
         /\ got'[Len(got) + 1].rai = p.rai
         /\ got'[Len(got) + 1].pcr = p.pcr
         /\ got'[Len(got) + 1].data = <<Len(fed) + 1>>
<1> DEFINE u == R!NewUnit(p, Len(fed) + 1)
<1>1. Len(fed) \in Nat /\ got \in Seq(R!UnitType)
  BY LenProperties DEF RemuxTypeOK
<1>2. u = [pid |-> p.pid, rai |-> p.rai, pcr |-> p.pcr, data |-> <<Len(fed) + 1>>]
  BY DEF R!NewUnit, R!Payload
<1>3. <<Len(fed) + 1>> \in Seq(Nat \ {0})
  BY <1>1
<1>4. /\ u \in R!UnitType
      /\ u.pid = p.pid /\ u.rai = p.rai /\ u.pcr = p.pcr
      /\ u.data = <<Len(fed) + 1>>
  <2>1. PICK d : d = <<Len(fed) + 1>>
    OBVIOUS
  <2>2. d \in Seq(Nat \ {0})
    BY <1>3, <2>1
  <2>3. u = [pid |-> p.pid, rai |-> p.rai, pcr |-> p.pcr, data |-> d]
    BY <1>2, <2>1
  <2> HIDE DEF u
  <2>4. /\ u \in R!UnitType
        /\ u.pid = p.pid /\ u.rai = p.rai /\ u.pcr = p.pcr /\ u.data = d
    BY <2>2, <2>3 DEF R!UnitType, WireType
  <2> QED BY <2>1, <2>4
<1>5. got' = Append(got, u)
  BY DEF R!OpenUnit
<1> HIDE DEF u
<1> QED BY <1>1, <1>4, <1>5, AppendProperties, LenProperties

(* The open unit of the PID gets it.                                       *)
LEMMA ExtendFacts ==
  ASSUME RemuxTypeOK, OneOpen, NEW p \in WireType, p.size # 0, R!ExtendUnit(p)
  PROVE  /\ got' \in Seq(R!UnitType)
         /\ Len(got') = Len(got) /\ Len(got) \in Nat
         /\ \A g \in 1..Len(got) :
              /\ got'[g].pid = got[g].pid
              /\ got'[g].rai = got[g].rai /\ got'[g].pcr = got[g].pcr
         /\ \E k \in 1..Len(got) :
              /\ R!IsOpen(k) /\ got[k].pid = p.pid
              /\ \A g \in (1..Len(got)) \ {k} : got'[g] = got[g]
              /\ Len(got[k].data) \in Nat
              /\ Len(got'[k].data) = Len(got[k].data) + 1
              /\ \A a \in 1..Len(got[k].data) : got'[k].data[a] = got[k].data[a]
              /\ got'[k].data[Len(got[k].data) + 1] = Len(fed) + 1
<1> DEFINE k == incomplete[R!Found(p.pid)]
           d == got[k].data
           e == d \o R!Payload(p, Len(fed) + 1)
           u == [got[k] EXCEPT !.data = e]
<1>1. /\ Len(fed) \in Nat /\ Len(got) \in Nat
      /\ got \in Seq(R!UnitType)
      /\ incomplete \in Seq(Nat \ {0})
  BY LenProperties DEF RemuxTypeOK
<1>2. /\ R!Found(p.pid) \in 1..Len(incomplete)
      /\ got[k].pid = p.pid
  BY <1>1, FoundFacts DEF R!ExtendUnit
<1>3. k \in 1..Len(got) /\ R!IsOpen(k)
  BY <1>2 DEF OneOpen, R!IsOpen
<1>4. got' = [got EXCEPT ![k] = u]
  BY DEF R!ExtendUnit
<1>5. R!Payload(p, Len(fed) + 1) = <<Len(fed) + 1>>
  BY DEF R!Payload
<1> HIDE DEF k
<1>6. got[k] \in R!UnitType
  BY <1>1, <1>3, ElementOfSeq
<1>7. d \in Seq(Nat \ {0}) /\ Len(d) \in Nat
  BY <1>6, LenProperties DEF R!UnitType
<1>8. /\ e \in Seq(Nat \ {0})
      /\ Len(e) = Len(d) + 1
      /\ \A a \in 1..Len(d) : e[a] = d[a]
      /\ e[Len(d) + 1] = Len(fed) + 1
  <2>1. PICK w : w = R!Payload(p, Len(fed) + 1)
    OBVIOUS
  <2>2. w \in Seq(Nat \ {0}) /\ Len(w) = 1 /\ w[1] = Len(fed) + 1
    <3>1. PICK n \in Nat \ {0} : n = Len(fed) + 1
      BY <1>1
    <3>2. w = <<n>>
      BY <1>5, <2>1, <3>1
    <3> QED BY <3>1, <3>2
  <2>3. e = d \o w
    BY <2>1
  <2> HIDE DEF d, e
  <2>4. /\ e \in Seq(Nat \ {0})
        /\ Len(e) = Len(d) + 1
        /\ \A a \in 1..(Len(d) + 1) : e[a] = IF a <= Len(d) THEN d[a] ELSE w[a - Len(d)]
    <3>1. /\ d \o w \in Seq(Nat \ {0})
          /\ Len(d \o w) = Len(d) + Len(w)
          /\ \A a \in 1..(Len(d) + Len(w)) :
               (d \o w)[a] = IF a <= Len(d) THEN d[a] ELSE w[a - Len(d)]
      BY <1>7, <2>2, ConcatProperties
    <3> QED BY <2>2, <2>3, <3>1
  <2>5. /\ Len(d) + 1 \in 1..(Len(d) + 1)
        /\ ~(Len(d) + 1 <= Len(d)) /\ (Len(d) + 1) - Len(d) = 1
        /\ \A a \in 1..Len(d) : a \in 1..(Len(d) + 1) /\ a <= Len(d)
    BY <1>7
  <2>6. e[Len(d) + 1] = w[1]
    BY <2>4, <2>5
  <2> QED BY <2>2, <2>4, <2>5, <2>6
<1>9. /\ u \in R!UnitType /\ u.data = e /\ u.pid = got[k].pid
      /\ u.rai = got[k].rai /\ u.pcr = got[k].pcr
  <2> HIDE DEF e
  <2> QED BY <1>6, <1>8 DEF R!UnitType
<1> HIDE DEF u, e
<1>10. /\ got' \in Seq(R!UnitType)
       /\ Len(got') = Len(got)
       /\ \A g \in 1..Len(got) : got'[g] = IF g = k THEN u ELSE got[g]
  BY <1>1, <1>3, <1>4, <1>9, ExceptSeq
<1>11. got'[k].data = e /\ \A g \in (1..Len(got)) \ {k} : got'[g] = got[g]
  BY <1>3, <1>9, <1>10
<1>12. \A g \in 1..Len(got) :
         /\ got'[g].pid = got[g].pid
         /\ got'[g].rai = got[g].rai /\ got'[g].pcr = got[g].pcr
  BY <1>9, <1>10
<1> QED BY <1>1, <1>2, <1>3, <1>7, <1>8, <1>10, <1>11, <1>12

-----------------------------------------------------------------------------
(* Packet i of a PID arrives, for the first time or again: no packet of    *)
(* the PID is left between the latest one sent and it.                     *)
Arrives(pid, i) ==
  /\ packets[i].pid = pid
  /\ sent[pid] <= i
  /\ \A s \in 1..Len(packets) : s < i /\ packets[s].pid = pid => s <= sent[pid]
  /\ Receive(i)
  /\ sent' = [sent EXCEPT ![pid] = i]
  /\ UNCHANGED vars
  /\ lost' = lost

LEMMA Arrival ==
  ASSUME RemuxInv, NEW pid \in Pids, NEW i \in 1..Len(packets), Arrives(pid, i)
  PROVE  \E p \in WireType :
           /\ p.pid = pid /\ p.start = packets[i].start /\ p.size # 0
           /\ p.rai = packets[i].rai /\ p.pcr = packets[i].pcr
           /\ R!OpenUnit(p) \/ R!ExtendUnit(p) \/ R!DropPacket(p)
<1>1. PICK p \in WireType : p = OnWire(packets[i])
  BY WireFacts DEF RemuxInv
<1>2. /\ p.pid = pid /\ p.start = packets[i].start /\ p.size # 0
      /\ p.rai = packets[i].rai /\ p.pcr = packets[i].pcr
  BY <1>1, WireFacts DEF RemuxInv, Arrives
<1>3. R!OpenUnit(p) \/ R!ExtendUnit(p) \/ R!DropPacket(p)
  BY <1>1 DEF Arrives, Receive
<1> QED BY <1>2, <1>3

(* What the channel keeps of it.                                           *)
LEMMA ArrivalFacts ==
  ASSUME RemuxInv, NEW pid \in Pids, NEW i \in 1..Len(packets), Arrives(pid, i)
  PROVE  /\ SenderInv' /\ packets' = packets /\ Len(packets) \in Nat
         /\ lost' = lost
         /\ source' \in Seq(Nat \ {0})
         /\ Len(source') = Len(source) + 1 /\ Len(source) \in Nat
         /\ \A n \in 1..Len(source) : source'[n] = source[n]
         /\ source'[Len(source) + 1] = i
         /\ sent' \in [Pids -> Nat]
         /\ \A q \in Pids : sent'[q] = IF q = pid THEN i ELSE sent[q]
         /\ \A q \in Pids : sent[q] <= sent'[q] /\ sent[q] \in Nat
<1>1. Len(packets) \in Nat
  BY PackedElements DEF RemuxInv, SenderInv, PackInv
<1>2. i \in Nat \ {0}
  BY <1>1
<1>3. SenderInv' /\ packets' = packets
  <2>1. SenderInv'
    BY SenderStep DEF Arrives, RemuxInv
  <2> QED BY <2>1 DEF Arrives, vars
<1>4. /\ source' \in Seq(Nat \ {0})
      /\ Len(source') = Len(source) + 1 /\ Len(source) \in Nat
      /\ \A n \in 1..Len(source) : source'[n] = source[n]
      /\ source'[Len(source) + 1] = i
  <2>1. source' = Append(source, i) /\ source \in Seq(Nat \ {0})
    BY DEF Arrives, Receive, RemuxInv, RemuxTypeOK
  <2> QED BY <1>2, <2>1, AppendProperties, LenProperties
<1>5. /\ sent' \in [Pids -> Nat]
      /\ \A q \in Pids : sent'[q] = IF q = pid THEN i ELSE sent[q]
      /\ \A q \in Pids : sent[q] \in Nat
  BY <1>2 DEF Arrives, RemuxInv, RemuxTypeOK
<1>6. \A q \in Pids : sent[q] <= sent'[q]
  BY <1>5 DEF Arrives
<1> QED BY <1>1, <1>3, <1>4, <1>5, <1>6 DEF Arrives

LEMMA ReachKept ==
  ASSUME RemuxInv, NEW pid \in Pids, NEW i \in 1..Len(packets), Arrives(pid, i),
         NEW p \in WireType, R!Feed(p)
  PROVE  /\ InReach' /\ Len(fed) = Len(source)
         /\ fed' \in Seq([packet : WireType, call : Nat])
         /\ calls' \in Nat /\ lost' \in SUBSET (Nat \ {0})
<1>1. /\ packets' = packets /\ lost' = lost /\ Len(packets) \in Nat
      /\ Len(source') = Len(source) + 1 /\ Len(source) \in Nat
      /\ \A n \in 1..Len(source) : source'[n] = source[n]
      /\ source'[Len(source) + 1] = i
      /\ \A q \in Pids : sent'[q] = IF q = pid THEN i ELSE sent[q]
  BY ArrivalFacts
<1>2. RemuxTypeOK /\ InReach
  BY DEF RemuxInv
<1>3. /\ fed' \in Seq([packet : WireType, call : Nat])
      /\ Len(fed') = Len(fed) + 1
      /\ calls' = calls
  BY <1>2, FeedFacts
<1>4. Len(fed') = Len(source')
  BY <1>1, <1>2, <1>3 DEF InReach
<1>5. ASSUME NEW n \in 1..Len(source') PROVE source'[n] \in 1..Len(packets')
  <2>1. n \in 1..Len(source) \/ n = Len(source) + 1
    BY <1>1
  <2> QED BY <1>1, <1>2, <2>1 DEF InReach
<1>6. ASSUME NEW q \in Pids
      PROVE  sent'[q] <= Len(packets') /\ (sent'[q] # 0 => packets'[sent'[q]].pid = q)
  <2>1. CASE q = pid
    <3>1. packets[i].pid = pid
      BY DEF Arrives
    <3> QED BY <1>1, <2>1, <3>1
  <2>2. CASE q # pid
    BY <1>1, <1>2, <2>2 DEF InReach
  <2> QED BY <2>1, <2>2
<1>7. lost' \subseteq 1..Len(packets')
  BY <1>1, <1>2 DEF InReach
<1> QED BY <1>1, <1>2, <1>3, <1>4, <1>5, <1>6, <1>7 DEF InReach, RemuxTypeOK

(* A unit that does not get the packet.                                    *)
LEMMA UnitKept ==
  ASSUME RemuxInv, NEW pid \in Pids, NEW i \in 1..Len(packets), Arrives(pid, i),
         NEW g \in 1..Len(got), got'[g] = got[g]
  PROVE  /\ BegunAt(g)' /\ GluedAt(g)'
         /\ R!IsOpen(g) /\ got[g].pid # pid => StartsLostAt(g)'
<1>1. /\ packets' = packets /\ lost' = lost
      /\ Len(source') = Len(source) + 1 /\ Len(source) \in Nat
      /\ \A n \in 1..Len(source) : source'[n] = source[n]
      /\ \A q \in Pids : sent'[q] = IF q = pid THEN i ELSE sent[q]
      /\ \A q \in Pids : sent[q] <= sent'[q] /\ sent[q] \in Nat /\ sent'[q] \in Nat
  BY ArrivalFacts
<1>2. BegunAt(g) /\ GluedAt(g) /\ (R!IsOpen(g) => StartsLostAt(g))
  BY DEF RemuxInv, UnitsReceived
<1>3. PICK u : u = got[g]
  OBVIOUS
<1>4. Len(u.data) \in Nat
  <2>1. u \in R!UnitType
    BY <1>3, ElementOfSeq DEF RemuxInv, RemuxTypeOK
  <2> QED BY <2>1, LenProperties DEF R!UnitType
<1>5. ASSUME NEW a \in 1..Len(u.data)
      PROVE  /\ u.data[a] \in 1..Len(source)
             /\ Piece(g, a)' = source[u.data[a]]
             /\ Piece(g, a) = source[u.data[a]]
             /\ source[u.data[a]] \in Nat
  <2>1. u.data[a] \in 1..Len(source)
    BY <1>2, <1>3 DEF BegunAt
  <2>2. source[u.data[a]] \in Nat
    BY <2>1, ElementOfSeq DEF RemuxInv, RemuxTypeOK
  <2> QED BY <1>1, <1>3, <2>1, <2>2 DEF Piece
<1>6. 1 \in 1..Len(u.data) /\ u.pid \in Pids
  BY <1>2, <1>3, <1>4 DEF BegunAt
<1>7. BegunAt(g)'
  <2>1. ASSUME NEW a \in 1..Len(u.data)
        PROVE  /\ u.data[a] \in 1..Len(source')
               /\ packets[Piece(g, a)'].pid = u.pid
               /\ Piece(g, 1)' <= Piece(g, a)'
               /\ Piece(g, a)' <= sent'[u.pid]
    <3>1. /\ packets[Piece(g, a)].pid = u.pid
          /\ Piece(g, 1) <= Piece(g, a)
          /\ Piece(g, a) <= sent[u.pid]
      BY <1>2, <1>3 DEF BegunAt
    <3>2. Piece(g, a)' = Piece(g, a) /\ Piece(g, 1)' = Piece(g, 1)
      BY <1>5, <1>6
    <3>3. u.data[a] \in 1..Len(source')
      BY <1>1, <1>5
    <3>4. Piece(g, a) <= sent'[u.pid]
      <4>1. Piece(g, a) \in Nat /\ sent[u.pid] \in Nat /\ sent'[u.pid] \in Nat
        BY <1>1, <1>5, <1>6
      <4>2. sent[u.pid] <= sent'[u.pid]
        BY <1>1, <1>6
      <4> QED BY <3>1, <4>1, <4>2
    <3> QED BY <3>1, <3>2, <3>3, <3>4
  <2>2. packets[Piece(g, 1)'].start
    BY <1>2, <1>5, <1>6 DEF BegunAt
  <2> QED BY <1>1, <1>2, <1>3, <2>1, <2>2 DEF BegunAt
<1>8. GluedAt(g)'
  <2>1. \A a \in 1..Len(u.data) : Piece(g, a)' = Piece(g, a)
    BY <1>5
  <2>2. Piece(g, 1)' = Piece(g, 1)
    BY <1>6, <2>1
  <2> QED BY <1>1, <1>2, <1>3, <2>1, <2>2 DEF GluedAt
<1>9. ASSUME R!IsOpen(g), got[g].pid # pid PROVE StartsLostAt(g)'
  <2>1. Piece(g, 1)' = Piece(g, 1) /\ sent'[u.pid] = sent[u.pid]
    BY <1>1, <1>3, <1>5, <1>6, <1>9
  <2> QED BY <1>1, <1>2, <1>3, <1>9, <2>1 DEF StartsLostAt
<1> QED BY <1>7, <1>8, <1>9

LEMMA OpenUnitKeeps ==
  ASSUME RemuxInv, NEW pid \in Pids, NEW i \in 1..Len(packets), Arrives(pid, i),
         NEW p \in WireType, p.pid = pid, p.start = packets[i].start, p.size # 0,
         R!OpenUnit(p)
  PROVE  RemuxInv'
<1> PICK N \in Nat : N = Len(got) + 1
  BY LenProperties DEF RemuxInv, RemuxTypeOK
<1>1. /\ SenderInv' /\ packets' = packets /\ lost' = lost
      /\ Len(source') = Len(source) + 1 /\ Len(source) \in Nat
      /\ source' \in Seq(Nat \ {0}) /\ source'[Len(source) + 1] = i
      /\ sent' \in [Pids -> Nat] /\ sent'[pid] = i
  BY ArrivalFacts
<1>2. R!Feed(p) /\ p.start
  BY DEF R!OpenUnit
<1>3. /\ InReach' /\ Len(fed) = Len(source)
      /\ fed' \in Seq([packet : WireType, call : Nat])
      /\ calls' \in Nat /\ lost' \in SUBSET (Nat \ {0})
  BY <1>2, ReachKept
<1>4. /\ got' \in Seq(R!UnitType)
      /\ Len(got') = N /\ Len(got) \in Nat
      /\ \A g \in 1..Len(got) : got'[g] = got[g]
      /\ got'[N].pid = pid
      /\ got'[N].data = <<Len(source) + 1>>
  BY <1>3, OpenFacts DEF RemuxInv
<1>5. PICK r \in Seq(Nat \ {0}) :
        /\ R!Reopen(pid) \in Seq(Nat \ {0})
        /\ Len(r) \in Nat
        /\ Len(R!Reopen(pid)) = Len(r) + 1
        /\ \A k \in 1..Len(r) : R!Reopen(pid)[k] = r[k]
        /\ R!Reopen(pid)[Len(r) + 1] = Len(got) + 1
        /\ \A k \in 1..Len(r) :
             /\ R!IsOpen(r[k]) /\ r[k] \in 1..Len(got)
             /\ got[r[k]].pid # pid
        /\ \A k, l \in 1..Len(r) : got[r[k]].pid = got[r[l]].pid => k = l
  BY <1>4, ReopenFacts DEF RemuxInv, RemuxTypeOK
<1>6. /\ incomplete' \in Seq(Nat \ {0})
      /\ Len(incomplete') = Len(r) + 1
      /\ \A k \in 1..Len(r) : incomplete'[k] = r[k]
      /\ incomplete'[Len(r) + 1] = N
  <2>1. incomplete' = R!Reopen(pid)
    BY DEF R!OpenUnit
  <2> QED BY <1>5, <2>1
<1>7. RemuxTypeOK'
  BY <1>1, <1>3, <1>4, <1>6 DEF RemuxTypeOK
<1>8. N \in 1..N /\ N \notin 1..Len(got) /\ 1..N = (1..Len(got)) \cup {N}
  BY <1>4
<1>9. OneOpen'
  <2>1. \A k \in 1..Len(incomplete') : k \in 1..Len(r) \/ k = Len(r) + 1
    BY <1>5, <1>6
  <2>2. \A k \in 1..Len(incomplete') : incomplete'[k] \in 1..Len(got')
    BY <1>4, <1>5, <1>6, <1>8, <2>1
  <2>3. \A k \in 1..Len(r) : got'[incomplete'[k]] = got[r[k]]
    BY <1>4, <1>5, <1>6
  <2>4. ASSUME NEW k \in 1..Len(incomplete'), NEW l \in 1..Len(incomplete'),
               got'[incomplete'[k]].pid = got'[incomplete'[l]].pid
        PROVE  k = l
    <3>1. /\ \A j \in 1..Len(r) : got'[incomplete'[j]].pid # pid
          /\ got'[incomplete'[Len(r) + 1]].pid = pid
      BY <1>4, <1>5, <1>6, <2>3
    <3>2. CASE k \in 1..Len(r) /\ l \in 1..Len(r)
      BY <1>5, <2>3, <2>4, <3>2
    <3> QED BY <2>1, <2>4, <3>1, <3>2
  <2> QED BY <2>2, <2>4 DEF OneOpen
<1>10. \A g \in 1..Len(got) : R!IsOpen(g)' => R!IsOpen(g) /\ got[g].pid # pid
  <2> SUFFICES ASSUME NEW g \in 1..Len(got), NEW k \in 1..Len(incomplete'),
                      incomplete'[k] = g
               PROVE  R!IsOpen(g) /\ got[g].pid # pid
    BY DEF R!IsOpen
  <2>1. k \in 1..Len(r)
    BY <1>5, <1>6, <1>8
  <2> QED BY <1>5, <1>6, <2>1
<1>11. ASSUME NEW g \in 1..Len(got)
       PROVE  BegunAt(g)' /\ GluedAt(g)' /\ (R!IsOpen(g)' => StartsLostAt(g)')
  BY <1>4, <1>10, UnitKept
<1>12. BegunAt(N)' /\ GluedAt(N)' /\ StartsLostAt(N)'
  <2>1. PICK m \in Nat \ {0} : m = Len(source) + 1
    BY <1>1
  <2>2. PICK d : d = got'[N].data
    OBVIOUS
  <2>3. Len(d) = 1 /\ d[1] = m
    BY <1>4, <2>1, <2>2
  <2>4. Piece(N, 1)' = i /\ \A a \in 1..Len(d) : a = 1
    BY <1>1, <2>1, <2>2, <2>3 DEF Piece
  <2>5. packets[i].pid = pid /\ packets[i].start /\ i \in Nat
    BY <1>2 DEF Arrives
  <2>6. BegunAt(N)'
    BY <1>1, <1>4, <2>1, <2>2, <2>3, <2>4, <2>5 DEF BegunAt
  <2>7. GluedAt(N)'
    BY <2>2, <2>4 DEF GluedAt
  <2>8. StartsLostAt(N)'
    <3> SUFFICES ASSUME NEW s \in 1..Len(packets'), Piece(N, 1)' < s,
                        s <= sent'[got'[N].pid]
                 PROVE  FALSE
      BY DEF StartsLostAt
    <3>1. i < s /\ s <= i /\ s \in Nat
      BY <1>1, <1>4, <2>4
    <3> QED BY <2>5, <3>1
  <2> QED BY <2>6, <2>7, <2>8
<1>13. UnitsReceived'
  BY <1>4, <1>8, <1>11, <1>12 DEF UnitsReceived
<1> QED BY <1>1, <1>3, <1>7, <1>9, <1>13 DEF RemuxInv

LEMMA DropPacketKeeps ==
  ASSUME RemuxInv, NEW pid \in Pids, NEW i \in 1..Len(packets), Arrives(pid, i),
         NEW p \in WireType, p.pid = pid, R!DropPacket(p)
  PROVE  RemuxInv'
<1>1. /\ SenderInv' /\ packets' = packets
      /\ source' \in Seq(Nat \ {0})
      /\ sent' \in [Pids -> Nat]
  BY ArrivalFacts
<1>2. /\ R!Feed(p) /\ R!Matches(pid) = {}
      /\ got' = got /\ incomplete' = incomplete
  BY DEF R!DropPacket
<1>3. /\ InReach'
      /\ fed' \in Seq([packet : WireType, call : Nat])
      /\ calls' \in Nat /\ lost' \in SUBSET (Nat \ {0})
  BY <1>2, ReachKept
<1>4. RemuxTypeOK'
  BY <1>1, <1>2, <1>3 DEF RemuxTypeOK, RemuxInv
<1>5. OneOpen'
  BY <1>2 DEF OneOpen, RemuxInv
<1>6. ASSUME NEW g \in 1..Len(got)
      PROVE  /\ BegunAt(g)' /\ GluedAt(g)'
             /\ R!IsOpen(g)' => StartsLostAt(g)'
  <2>1. R!IsOpen(g)' => R!IsOpen(g) /\ got[g].pid # pid
    BY <1>2 DEF R!IsOpen, R!Matches
  <2> QED BY <1>2, <2>1, UnitKept
<1>7. UnitsReceived'
  BY <1>2, <1>6 DEF UnitsReceived
<1> QED BY <1>1, <1>3, <1>4, <1>5, <1>7 DEF RemuxInv

(* The start of the packet's unit is between the first piece of the open   *)
(* unit and it, when the two are of different units.                       *)
LEMMA StartBetween ==
  ASSUME SenderInv, NEW i \in 1..Len(packets), ~packets[i].start,
         NEW f \in 1..Len(packets), f <= i, packets[i].unit # packets[f].unit
  PROVE  \E s \in 1..Len(packets) :
           /\ f < s /\ s < i
           /\ packets[s].start /\ packets[s].unit = packets[i].unit
           /\ packets[s].pid = packets[i].pid
<1>1. /\ Len(packets) \in Nat
      /\ \A j \in 1..Len(packets) : packets[j].unit \in Nat
  BY PackedElements DEF SenderInv, PackInv, PackedType
<1>2. PICK s \in 1..i : packets[s].start /\ packets[s].unit = packets[i].unit
  BY DEF SenderInv, StartBefore
<1>3. s \in 1..Len(packets) /\ s < i
  BY <1>1, <1>2
<1>4. \A j \in 1..Len(packets) : packets[j].pid = queue[packets[j].unit].pid
  BY DEF SenderInv, PackInv, PacketsCover
<1>5. packets[s].pid = packets[i].pid
  BY <1>2, <1>3, <1>4
<1>6. \A j, k \in 1..Len(packets) : j < k => packets[j].unit <= packets[k].unit
  BY DEF SenderInv, UnitsInOrder
<1>7. s # f
  BY <1>2
<1>8. ~(s < f)
  <2>1. SUFFICES ASSUME s < f PROVE FALSE
    OBVIOUS
  <2>2. packets[s].unit <= packets[f].unit
    BY <1>3, <1>6, <2>1
  <2>3. f < i
    BY <1>1
  <2>4. packets[f].unit <= packets[i].unit
    BY <1>6, <2>3
  <2> QED BY <1>1, <1>2, <1>3, <2>2, <2>4
<1>9. f < s
  BY <1>1, <1>3, <1>7, <1>8
<1> QED BY <1>2, <1>3, <1>5, <1>9

LEMMA ExtendUnitKeeps ==
  ASSUME RemuxInv, NEW pid \in Pids, NEW i \in 1..Len(packets), Arrives(pid, i),
         NEW p \in WireType, p.pid = pid, p.start = packets[i].start, p.size # 0,
         R!ExtendUnit(p)
  PROVE  RemuxInv'
<1>1. /\ SenderInv' /\ packets' = packets /\ lost' = lost /\ Len(packets) \in Nat
      /\ Len(source') = Len(source) + 1 /\ Len(source) \in Nat
      /\ source' \in Seq(Nat \ {0}) /\ source'[Len(source) + 1] = i
      /\ \A n \in 1..Len(source) : source'[n] = source[n]
      /\ sent' \in [Pids -> Nat] /\ sent'[pid] = i
      /\ sent[pid] \in Nat
  BY ArrivalFacts
<1>2. R!Feed(p) /\ ~p.start /\ incomplete' = incomplete
  BY DEF R!ExtendUnit
<1>3. /\ InReach' /\ Len(fed) = Len(source)
      /\ fed' \in Seq([packet : WireType, call : Nat])
      /\ calls' \in Nat /\ lost' \in SUBSET (Nat \ {0})
  BY <1>2, ReachKept
<1>4. /\ got' \in Seq(R!UnitType)
      /\ Len(got') = Len(got) /\ Len(got) \in Nat
      /\ \A g \in 1..Len(got) : got'[g].pid = got[g].pid
  BY ExtendFacts DEF RemuxInv
<1>5. PICK k \in 1..Len(got) :
        /\ R!IsOpen(k) /\ got[k].pid = pid
        /\ \A g \in (1..Len(got)) \ {k} : got'[g] = got[g]
        /\ Len(got[k].data) \in Nat
        /\ Len(got'[k].data) = Len(got[k].data) + 1
        /\ \A a \in 1..Len(got[k].data) : got'[k].data[a] = got[k].data[a]
        /\ got'[k].data[Len(got[k].data) + 1] = Len(fed) + 1
  BY ExtendFacts DEF RemuxInv
<1>6. RemuxTypeOK'
  BY <1>1, <1>2, <1>3, <1>4 DEF RemuxTypeOK, RemuxInv
<1>7. OneOpen'
  <2>1. \A a \in 1..Len(incomplete) :
          incomplete[a] \in 1..Len(got) /\ got'[incomplete[a]].pid = got[incomplete[a]].pid
    BY <1>4 DEF OneOpen, RemuxInv
  <2>2. ASSUME NEW a \in 1..Len(incomplete), NEW b \in 1..Len(incomplete),
               got'[incomplete[a]].pid = got'[incomplete[b]].pid
        PROVE  a = b
    BY <2>1, <2>2, Zenon DEF OneOpen, RemuxInv
  <2>3. Len(got') = Len(got) /\ incomplete' = incomplete
    BY <1>2, <1>4
  <2> QED BY <2>1, <2>2, <2>3, Zenon DEF OneOpen
<1>8. \A g \in 1..Len(got) : R!IsOpen(g)' <=> R!IsOpen(g)
  BY <1>2 DEF R!IsOpen
<1>9. ASSUME NEW g \in (1..Len(got)) \ {k}
      PROVE  BegunAt(g)' /\ GluedAt(g)' /\ (R!IsOpen(g)' => StartsLostAt(g)')
  <2>1. R!IsOpen(g) => got[g].pid # pid
    <3> SUFFICES ASSUME NEW a \in 1..Len(incomplete), incomplete[a] = g,
                        got[g].pid = pid
                 PROVE  FALSE
      BY DEF R!IsOpen
    <3>1. PICK b \in 1..Len(incomplete) : incomplete[b] = k
      BY <1>5 DEF R!IsOpen
    <3>2. got[incomplete[a]].pid = got[incomplete[b]].pid
      BY <1>5, <3>1
    <3>3. a = b
      BY <3>2 DEF RemuxInv, OneOpen
    <3> QED BY <3>1, <3>3
  <2> QED BY <1>5, <1>8, <2>1, UnitKept
<1>10. BegunAt(k) /\ GluedAt(k) /\ StartsLostAt(k)
  BY <1>5 DEF RemuxInv, UnitsReceived
<1>11. PICK n \in Nat \ {0} : n = Len(got[k].data)
  BY <1>5, <1>10 DEF BegunAt
<1>12. PICK d, e : d = got[k].data /\ e = got'[k].data
  OBVIOUS
<1>13. /\ Len(d) = n /\ Len(e) = n + 1 /\ 1 \in 1..n
       /\ \A a \in 1..n : e[a] = d[a] /\ d[a] \in 1..Len(source)
       /\ e[n + 1] = Len(source) + 1
  BY <1>3, <1>5, <1>10, <1>11, <1>12 DEF BegunAt
<1>14. \A a \in 1..n : Piece(k, a)' = Piece(k, a)
  <2> SUFFICES ASSUME NEW a \in 1..n
               PROVE  source'[e[a]] = source[d[a]]
    BY <1>12 DEF Piece
  <2> QED BY <1>1, <1>13
<1>15. Piece(k, n + 1)' = i
  BY <1>1, <1>12, <1>13 DEF Piece
<1>16. PICK f \in 1..Len(packets) : f = Piece(k, 1)
  BY <1>12, <1>13 DEF Piece, RemuxInv, InReach
<1>17. Piece(k, 1)' = f /\ packets[f].start /\ f <= sent[pid]
  BY <1>5, <1>10, <1>11, <1>13, <1>14, <1>16 DEF BegunAt
<1>18. sent[pid] <= i /\ f <= i /\ f \in Nat /\ i \in Nat
  <2>1. sent[pid] <= i
    BY DEF Arrives
  <2> QED BY <1>1, <1>17, <2>1
<1>19. \A a \in 1..(n + 1) : a \in 1..n \/ a = n + 1
  OBVIOUS
<1>20. BegunAt(k)'
  <2>1. ASSUME NEW a \in 1..(n + 1)
        PROVE  /\ e[a] \in 1..Len(source')
               /\ packets'[Piece(k, a)'].pid = pid
               /\ Piece(k, 1)' <= Piece(k, a)'
               /\ Piece(k, a)' <= sent'[pid]
    <3>1. CASE a \in 1..n
      <4>1. /\ packets[Piece(k, a)].pid = pid
            /\ f <= Piece(k, a) /\ Piece(k, a) <= sent[pid]
        BY <1>5, <1>10, <1>11, <1>16, <3>1 DEF BegunAt
      <4>2. Piece(k, a) \in Nat
        <5>1. d[a] \in 1..Len(source)
          BY <1>13, <3>1
        <5> QED BY <1>12, <5>1, ElementOfSeq DEF Piece, RemuxInv, RemuxTypeOK
      <4>3. Piece(k, a) <= i
        BY <1>1, <1>18, <4>1, <4>2
      <4>4. e[a] \in 1..Len(source')
        <5>1. e[a] \in 1..Len(source)
          BY <1>13, <3>1
        <5> QED BY <1>1, <5>1
      <4>5. Piece(k, a)' = Piece(k, a)
        BY <1>14, <3>1
      <4> QED BY <1>1, <1>17, <4>1, <4>3, <4>4, <4>5
    <3>2. CASE a = n + 1
      <4>1. packets[i].pid = pid
        BY DEF Arrives
      <4>2. e[n + 1] \in 1..Len(source')
        <5>1. Len(source) + 1 \in 1..(Len(source) + 1)
          BY <1>1
        <5>2. e[n + 1] = Len(source) + 1 /\ Len(source') = Len(source) + 1
          BY <1>1, <1>13
        <5> QED BY <5>1, <5>2
      <4> QED BY <1>1, <1>15, <1>17, <1>18, <3>2, <4>1, <4>2
    <3> QED BY <1>19, <3>1, <3>2
  <2>2. got'[k].pid = pid
    BY <1>4, <1>5
  <2>3. Len(e) > 0
    <3>1. Len(e) = n + 1
      BY <1>13
    <3> QED BY <3>1
  <2>4. packets'[Piece(k, 1)'].start
    <3>1. packets' = packets /\ Piece(k, 1)' = f /\ packets[f].start
      BY <1>1, <1>17
    <3> QED BY <3>1
  <2> QED BY <1>12, <1>13, <2>1, <2>2, <2>3, <2>4 DEF BegunAt
<1>21. \A s \in 1..Len(packets) :
         packets[s].start /\ packets[s].pid = pid /\ f < s /\ s <= i => s \in lost
  <2> SUFFICES ASSUME NEW s \in 1..Len(packets), packets[s].start,
                      packets[s].pid = pid, f < s, s <= i
               PROVE  s \in lost
    OBVIOUS
  <2>1. s # i
    BY <1>2
  <2>2. s < i
    BY <1>1, <2>1
  <2>3. s <= sent[pid]
    BY <2>2 DEF Arrives
  <2> QED BY <1>5, <1>10, <1>16, <2>3 DEF StartsLostAt
<1>22. StartsLostAt(k)'
  BY <1>1, <1>4, <1>5, <1>17, <1>21, SMTT(30) DEF StartsLostAt
<1>23. GluedAt(k)'
  <2> SUFFICES ASSUME NEW a \in 1..(n + 1),
                      packets[Piece(k, a)'].unit # packets[f].unit
               PROVE  \E s \in lost : /\ packets[s].unit = packets[Piece(k, a)'].unit
                                      /\ packets[s].start
    BY <1>1, <1>12, <1>13, <1>17 DEF GluedAt
  <2>1. CASE a \in 1..n
    BY <1>10, <1>11, <1>14, <1>16, <2>1 DEF GluedAt
  <2>2. CASE a = n + 1
    <3>1. PICK s \in 1..Len(packets) :
            /\ f < s /\ s < i
            /\ packets[s].start /\ packets[s].unit = packets[i].unit
            /\ packets[s].pid = packets[i].pid
      BY <1>2, <1>15, <1>18, <2>2, StartBetween DEF RemuxInv
    <3>2. packets[i].pid = pid /\ s <= i
      BY <1>1, <3>1 DEF Arrives
    <3>3. s \in lost
      BY <1>21, <3>1, <3>2
    <3> QED BY <1>15, <2>2, <3>1, <3>3
  <2> QED BY <1>19, <2>1, <2>2
<1>24. UnitsReceived'
  BY <1>4, <1>9, <1>20, <1>22, <1>23 DEF UnitsReceived
<1> QED BY <1>1, <1>3, <1>6, <1>7, <1>24 DEF RemuxInv

LEMMA ArriveKeeps ==
  ASSUME RemuxInv, NEW pid \in Pids, NEW i \in 1..Len(packets), Arrives(pid, i)
  PROVE  RemuxInv'
<1>1. PICK p \in WireType :
        /\ p.pid = pid /\ p.start = packets[i].start /\ p.size # 0
        /\ R!OpenUnit(p) \/ R!ExtendUnit(p) \/ R!DropPacket(p)
  BY Arrival
<1> QED BY <1>1, OpenUnitKeeps, ExtendUnitKeeps, DropPacketKeeps

-----------------------------------------------------------------------------
LEMMA RemuxInvInit == RemuxInit => RemuxInv
<1> SUFFICES ASSUME RemuxInit PROVE RemuxInv
  OBVIOUS
<1>1. SenderInv /\ Len(packets) \in Nat
  BY SenderInit, PackedElements DEF RemuxInit, SenderInv, PackInv
<1>2. /\ got = <<>> /\ incomplete = <<>> /\ fed = <<>> /\ source = <<>>
      /\ calls = 0 /\ lost = {} /\ sent = [pid \in Pids |-> 0]
  BY DEF RemuxInit, R!Init
<1>3. RemuxTypeOK
  BY <1>2, EmptySeq DEF RemuxTypeOK
<1>4. InReach /\ OneOpen /\ UnitsReceived
  BY <1>1, <1>2, EmptySeq DEF InReach, OneOpen, UnitsReceived
<1> QED BY <1>1, <1>3, <1>4 DEF RemuxInv

(* A step that leaves the pieces as they are keeps what is known of them:  *)
(* packets may be added, and more of them be lost.                         *)
LEMMA PiecesKept ==
  ASSUME RemuxInv, Longer, UNCHANGED <<got, source>>,
         lost \subseteq lost', lost' \subseteq 1..Len(packets'),
         \A q \in Pids : sent'[q] \in Nat /\ sent[q] <= sent'[q],
         NEW g \in 1..Len(got)
  PROVE  BegunAt(g)' /\ GluedAt(g)'
<1>1. BegunAt(g) /\ GluedAt(g)
  BY DEF RemuxInv, UnitsReceived
<1>2. PICK u : u = got[g]
  OBVIOUS
<1>3. Len(u.data) \in Nat \ {0} /\ u.pid \in Pids
  <2>1. u \in R!UnitType
    BY <1>2, ElementOfSeq DEF RemuxInv, RemuxTypeOK
  <2>2. Len(u.data) \in Nat
    BY <2>1, LenProperties DEF R!UnitType
  <2> QED BY <1>1, <1>2, <2>2 DEF BegunAt
<1>4. \A a : Piece(g, a)' = Piece(g, a)
  BY DEF Piece
<1>5. \A a \in 1..Len(u.data) : Piece(g, a) \in 1..Len(packets)
  BY <1>1, <1>2 DEF BegunAt, Piece, RemuxInv, InReach
<1>6. \A a \in 1..Len(u.data) : packets'[Piece(g, a)] = packets[Piece(g, a)]
  BY <1>5 DEF Longer
<1>7. 1 \in 1..Len(u.data)
  BY <1>3
<1>8. BegunAt(g)'
  <2>1. ASSUME NEW a \in 1..Len(u.data)
        PROVE  Piece(g, a) <= sent'[u.pid]
    <3>1. Piece(g, a) <= sent[u.pid] /\ Piece(g, a) \in Nat
      BY <1>1, <1>2, <1>5 DEF BegunAt
    <3>2. sent[u.pid] \in Nat /\ sent'[u.pid] \in Nat /\ sent[u.pid] <= sent'[u.pid]
      BY <1>3 DEF RemuxInv, RemuxTypeOK
    <3> QED BY <3>1, <3>2
  <2> QED BY <1>1, <1>2, <1>4, <1>6, <1>7, <2>1 DEF BegunAt
<1>9. GluedAt(g)'
  <2>1. \A s \in lost : s \in lost' /\ packets'[s] = packets[s]
    BY DEF Longer, RemuxInv, InReach
  <2> QED BY <1>1, <1>2, <1>4, <1>6, <1>7, <2>1 DEF GluedAt
<1> QED BY <1>8, <1>9

(* ts_units_pack goes on before the packets are sent.                      *)
LEMMA PackKeeps ==
  ASSUME RemuxInv, Pack
  PROVE  RemuxInv'
<1>1. SenderInv' /\ Longer
  BY SenderStep DEF Pack, RemuxInv
<1>2. UNCHANGED <<got, incomplete, calls, calling, fed, opened,
                  sent, source, lost, repeated>>
  BY DEF Pack, receiver, channel
<1>3. RemuxTypeOK' /\ OneOpen'
  BY <1>2 DEF RemuxInv, RemuxTypeOK, OneOpen
<1>4. \A q \in Pids : sent[q] \in Nat
  BY DEF RemuxInv, RemuxTypeOK
<1>5. 1..Len(packets) \subseteq 1..Len(packets') /\ Len(packets) \in Nat
  <2>1. Len(packets) \in Nat
    BY PackedElements DEF RemuxInv, SenderInv, PackInv
  <2> QED BY <1>1, <2>1 DEF Longer
<1>6. InReach'
  <2>1. \A q \in Pids : sent[q] <= Len(packets')
    BY <1>1, <1>4, <1>5 DEF Longer, RemuxInv, InReach
  <2>2. \A q \in Pids : sent[q] # 0 => packets'[sent[q]].pid = q
    <3> SUFFICES ASSUME NEW q \in Pids, sent[q] # 0
                 PROVE  packets'[sent[q]].pid = q
      OBVIOUS
    <3>1. sent[q] \in 1..Len(packets) /\ packets[sent[q]].pid = q
      BY <1>4, <1>5 DEF RemuxInv, InReach
    <3> QED BY <1>1, <3>1 DEF Longer
  <2> QED BY <1>2, <1>5, <2>1, <2>2 DEF RemuxInv, InReach
<1>7. ASSUME NEW g \in 1..Len(got)
      PROVE  BegunAt(g)' /\ GluedAt(g)'
  <2>1. /\ lost \subseteq lost' /\ lost' \subseteq 1..Len(packets')
        /\ \A q \in Pids : sent'[q] \in Nat /\ sent[q] <= sent'[q]
    BY <1>2, <1>4, <1>5 DEF RemuxInv, InReach
  <2>2. UNCHANGED <<got, source>>
    BY <1>2
  <2> QED BY <1>1, <2>1, <2>2, PiecesKept
<1>8. ASSUME NEW g \in 1..Len(got), R!IsOpen(g)'
      PROVE  StartsLostAt(g)'
  <2>1. R!IsOpen(g)
    BY <1>2, <1>8 DEF R!IsOpen
  <2>2. StartsLostAt(g) /\ got[g].pid \in Pids
    BY <2>1 DEF RemuxInv, UnitsReceived, BegunAt
  <2>3. Piece(g, 1)' = Piece(g, 1)
    BY <1>2 DEF Piece
  <2>4. ASSUME NEW s \in 1..Len(packets'), s <= sent[got[g].pid]
        PROVE  s \in 1..Len(packets) /\ packets'[s] = packets[s]
    <3>1. sent[got[g].pid] <= Len(packets) /\ sent[got[g].pid] \in Nat
      BY <1>4, <2>2 DEF RemuxInv, InReach
    <3>2. s \in Nat
      BY <1>1 DEF Longer
    <3>3. s \in 1..Len(packets)
      BY <1>5, <2>4, <3>1, <3>2
    <3> QED BY <1>1, <3>3 DEF Longer
  <2> QED BY <1>2, <2>2, <2>3, <2>4 DEF StartsLostAt
<1>9. UnitsReceived'
  BY <1>2, <1>7, <1>8 DEF UnitsReceived
<1> QED BY <1>1, <1>3, <1>6, <1>9 DEF RemuxInv

(* Lose: a start lost may be one the open unit goes on behind.             *)
LEMMA LoseKeeps ==
  ASSUME RemuxInv, Lose
  PROVE  RemuxInv'
<1>0. PICK pid \in Pids : \E i \in Waiting(pid) :
        /\ IsNext(i, pid)
        /\ sent' = [sent EXCEPT ![pid] = i]
        /\ lost' = lost \cup {i}
        /\ UNCHANGED vars
        /\ UNCHANGED <<got, incomplete, calls, calling, fed, opened>>
        /\ UNCHANGED source
  BY DEF Lose, receiver
<1>1. PICK i \in Waiting(pid) :
        /\ IsNext(i, pid)
        /\ sent' = [sent EXCEPT ![pid] = i]
        /\ lost' = lost \cup {i}
        /\ UNCHANGED vars
        /\ UNCHANGED <<got, incomplete, calls, calling, fed, opened>>
        /\ UNCHANGED source
  BY <1>0
<1>2. Len(packets) \in Nat /\ \A q \in Pids : sent[q] \in Nat
  BY PackedElements DEF RemuxInv, RemuxTypeOK, SenderInv, PackInv
<1>3. /\ SenderInv' /\ packets' = packets /\ Longer
  <2>1. SenderInv' /\ Longer
    BY <1>1, SenderStep DEF RemuxInv
  <2>2. packets' = packets
    BY <1>1 DEF vars
  <2> QED BY <2>1, <2>2
<1>4. /\ i \in 1..Len(packets) /\ i \in Nat \ {0}
      /\ packets[i].pid = pid /\ sent[pid] < i
  <2>1. i \in (sent[pid] + 1)..Len(packets) /\ packets[i].pid = pid
    BY DEF Waiting
  <2> QED BY <1>2, <2>1
<1>5. /\ sent' \in [Pids -> Nat]
      /\ \A q \in Pids : sent'[q] = IF q = pid THEN i ELSE sent[q]
      /\ \A q \in Pids : sent'[q] \in Nat /\ sent[q] <= sent'[q]
  <2>1. /\ sent' \in [Pids -> Nat]
        /\ \A q \in Pids : sent'[q] = IF q = pid THEN i ELSE sent[q]
    BY <1>1, <1>4 DEF RemuxInv, RemuxTypeOK
  <2> QED BY <1>2, <1>4, <2>1
<1>6. RemuxTypeOK' /\ OneOpen'
  BY <1>1, <1>4, <1>5 DEF RemuxInv, RemuxTypeOK, OneOpen
<1>7. InReach'
  <2>1. lost' \subseteq 1..Len(packets)
    BY <1>1, <1>4 DEF RemuxInv, InReach
  <2>2. \A q \in Pids : /\ sent'[q] <= Len(packets)
                        /\ sent'[q] # 0 => packets[sent'[q]].pid = q
    BY <1>4, <1>5 DEF RemuxInv, InReach
  <2> QED BY <1>1, <1>3, <2>1, <2>2 DEF RemuxInv, InReach
<1>8. ASSUME NEW g \in 1..Len(got)
      PROVE  BegunAt(g)' /\ GluedAt(g)'
  <2>1. lost \subseteq lost' /\ lost' \subseteq 1..Len(packets')
    BY <1>1, <1>7 DEF InReach
  <2>2. UNCHANGED <<got, source>>
    BY <1>1
  <2> QED BY <1>3, <1>5, <2>1, <2>2, PiecesKept
<1>9. ASSUME NEW g \in 1..Len(got), R!IsOpen(g)'
      PROVE  StartsLostAt(g)'
  <2>1. R!IsOpen(g)
    BY <1>1, <1>9 DEF R!IsOpen
  <2>2. StartsLostAt(g) /\ got[g].pid \in Pids
    BY <2>1 DEF RemuxInv, UnitsReceived, BegunAt
  <2>3. Piece(g, 1)' = Piece(g, 1)
    BY <1>1 DEF Piece
  <2>4. ASSUME NEW s \in 1..Len(packets), packets[s].pid = got[g].pid,
               s <= sent'[got[g].pid]
        PROVE  s <= sent[got[g].pid] \/ s = i
    <3>1. CASE got[g].pid = pid
      <4>1. s < i => s \notin Waiting(pid)
        <5>1. \A j \in Waiting(pid) : i <= j
          BY <1>1 DEF IsNext
        <5> QED BY <1>2, <1>4, <5>1
      <4>2. s < i => s <= sent[pid]
        BY <1>2, <2>4, <3>1, <4>1 DEF Waiting
      <4>3. s <= i
        BY <1>5, <2>4, <3>1
      <4> QED BY <1>2, <1>4, <3>1, <4>2, <4>3
    <3>2. CASE got[g].pid # pid
      BY <1>5, <2>2, <2>4, <3>2
    <3> QED BY <3>1, <3>2
  <2> QED BY <1>1, <1>3, <2>2, <2>3, <2>4 DEF StartsLostAt
<1>10. UnitsReceived'
  BY <1>1, <1>8, <1>9 DEF UnitsReceived
<1> QED BY <1>3, <1>6, <1>7, <1>10 DEF RemuxInv

(* Begin and Finish empty the list; neither touches a unit.                *)
LEMMA ListEmptied ==
  ASSUME RemuxInv, UNCHANGED vars, UNCHANGED channel,
         UNCHANGED <<got, fed>>, calls' \in Nat,
         incomplete' = <<>> \/ incomplete' = incomplete
  PROVE  RemuxInv'
<1>1. SenderInv' /\ packets' = packets /\ Longer
  <2>1. SenderInv' /\ Longer
    BY SenderStep DEF RemuxInv
  <2>2. packets' = packets
    BY DEF vars
  <2> QED BY <2>1, <2>2
<1>2. UNCHANGED <<sent, source, lost>>
  BY DEF channel
<1>3. incomplete' \in Seq(Nat \ {0})
  BY EmptySeq DEF RemuxInv, RemuxTypeOK
<1>4. RemuxTypeOK'
  BY <1>2, <1>3 DEF RemuxInv, RemuxTypeOK
<1>5. InReach'
  BY <1>1, <1>2 DEF RemuxInv, InReach
<1>6. OneOpen'
  <2>1. CASE incomplete' = <<>>
    BY <2>1, EmptySeq DEF OneOpen
  <2>2. CASE incomplete' = incomplete
    BY <2>2 DEF RemuxInv, OneOpen
  <2> QED BY <2>1, <2>2
<1>7. \A g : R!IsOpen(g)' => R!IsOpen(g)
  <2>1. CASE incomplete' = <<>>
    BY <2>1, EmptySeq DEF R!IsOpen
  <2>2. CASE incomplete' = incomplete
    BY <2>2 DEF R!IsOpen
  <2> QED BY <2>1, <2>2
<1>8. UnitsReceived'
  <2>1. packets' = packets /\ got' = got /\ source' = source /\ sent' = sent
        /\ lost' = lost
    BY <1>1, <1>2
  <2>2. ASSUME NEW g \in 1..Len(got)
        PROVE  BegunAt(g)' /\ GluedAt(g)'
    <3>1. BegunAt(g) /\ GluedAt(g)
      BY DEF RemuxInv, UnitsReceived
    <3>2. BegunAt(g)'
      BY <2>1, <3>1, Zenon DEF BegunAt, Piece
    <3>3. GluedAt(g)'
      BY <2>1, <3>1, Zenon DEF GluedAt, Piece
    <3> QED BY <3>2, <3>3
  <2>3. ASSUME NEW g \in 1..Len(got), R!IsOpen(g)'
        PROVE  StartsLostAt(g)'
    <3>1. StartsLostAt(g)
      BY <1>7, <2>3 DEF RemuxInv, UnitsReceived
    <3> QED BY <2>1, <3>1, Zenon DEF StartsLostAt, Piece
  <2> QED BY <2>1, <2>2, <2>3, Zenon DEF UnitsReceived
<1> QED BY <1>1, <1>4, <1>5, <1>6, <1>8 DEF RemuxInv

LEMMA RemuxInvStep == RemuxInv /\ [RemuxNext]_remuxVars => RemuxInv'
<1> SUFFICES ASSUME RemuxInv, [RemuxNext]_remuxVars
             PROVE  RemuxInv'
  OBVIOUS
<1>1. /\ Len(packets) \in Nat
      /\ \A q \in Pids : sent[q] \in Nat
      /\ calls \in Nat
  BY PackedElements DEF RemuxInv, RemuxTypeOK, SenderInv, PackInv
<1>2. CASE Pack
  BY <1>2, PackKeeps
<1>3. CASE Begin
  <2>1. /\ UNCHANGED vars /\ UNCHANGED channel
        /\ UNCHANGED <<got, fed>> /\ calls' = calls + 1 /\ incomplete' = <<>>
    BY <1>3 DEF Begin, R!BeginUnpack
  <2> QED BY <1>1, <2>1, ListEmptied
<1>4. CASE Deliver
  <2>0. PICK pid \in Pids : \E i \in Waiting(pid) :
          /\ IsNext(i, pid)
          /\ Receive(i)
          /\ sent' = [sent EXCEPT ![pid] = i]
          /\ UNCHANGED vars /\ lost' = lost
    BY <1>4 DEF Deliver
  <2>1. PICK i \in Waiting(pid) :
          /\ IsNext(i, pid)
          /\ Receive(i)
          /\ sent' = [sent EXCEPT ![pid] = i]
          /\ UNCHANGED vars /\ lost' = lost
    BY <2>0
  <2>2. i \in (sent[pid] + 1)..Len(packets) /\ packets[i].pid = pid
    BY DEF Waiting
  <2>3. i \in 1..Len(packets) /\ sent[pid] <= i /\ i \in Nat
    BY <1>1, <2>2
  <2>4. ASSUME NEW s \in 1..Len(packets), s < i, packets[s].pid = pid
        PROVE  s <= sent[pid]
    <3>1. s \notin Waiting(pid)
      <4>1. \A j \in Waiting(pid) : i <= j
        BY <2>1 DEF IsNext
      <4> QED BY <1>1, <2>3, <2>4, <4>1
    <3> QED BY <1>1, <2>4, <3>1 DEF Waiting
  <2>5. Arrives(pid, i)
    BY <2>1, <2>2, <2>3, <2>4 DEF Arrives
  <2> QED BY <2>3, <2>5, ArriveKeeps
<1>5. CASE Lose
  BY <1>5, LoseKeeps
<1>6. CASE Repeat
  <2>1. PICK pid \in Pids :
          /\ sent[pid] # 0
          /\ Receive(sent[pid])
          /\ UNCHANGED vars /\ UNCHANGED <<sent, lost>>
    BY <1>6 DEF Repeat
  <2>2. PICK i : i = sent[pid]
    OBVIOUS
  <2>3. i \in 1..Len(packets) /\ packets[i].pid = pid
    BY <1>1, <2>1, <2>2 DEF RemuxInv, InReach
  <2>4. sent' = [sent EXCEPT ![pid] = i]
    BY <2>1, <2>2 DEF RemuxInv, RemuxTypeOK
  <2>5. Receive(i)
    BY <2>1, <2>2 DEF Receive
  <2>6. \A s \in 1..Len(packets) : s < i => s <= sent[pid]
    BY <1>1, <2>2
  <2>7. sent[pid] <= i
    BY <1>1, <2>2
  <2>8. Arrives(pid, i)
    BY <2>1, <2>3, <2>4, <2>5, <2>6, <2>7 DEF Arrives
  <2> QED BY <2>3, <2>8, ArriveKeeps
<1>7. CASE Finish
  <2>1. /\ UNCHANGED vars /\ UNCHANGED channel
        /\ UNCHANGED <<got, fed>> /\ calls' = calls /\ incomplete' = <<>>
    BY <1>7 DEF Finish, R!EndUnpack
  <2> QED BY <1>1, <2>1, ListEmptied
<1>8. CASE UNCHANGED remuxVars
  <2>1. /\ UNCHANGED vars /\ UNCHANGED channel
        /\ UNCHANGED <<got, fed>> /\ calls' = calls /\ incomplete' = incomplete
    BY <1>8 DEF remuxVars, receiver
  <2> QED BY <1>1, <2>1, ListEmptied
<1> QED BY <1>2, <1>3, <1>4, <1>5, <1>6, <1>7, <1>8 DEF RemuxNext

(* ts_units_unpack reads no continuity counter (ts_units.c:64-95): over    *)
(* any channel that loses and repeats packets, any number of them, a unit  *)
(* received begins with the first packet of a unit sent, and holds bytes   *)
(* of another one only when the start of that one was lost.                *)
THEOREM GluedOnlyByLostStartAlways == RemuxSpec => []GluedOnlyByLostStart
<1>1. RemuxInv => GluedOnlyByLostStart
  <2> SUFFICES ASSUME RemuxInv, NEW g \in 1..Len(got)
               PROVE  LET s == Pieces(got[g]) IN
                        /\ Len(s) > 0 /\ s[1].start
                        /\ \A a \in 1..Len(s) :
                             s[a].unit # s[1].unit =>
                               \E i \in lost : /\ packets[i].unit = s[a].unit
                                               /\ packets[i].start
    BY DEF GluedOnlyByLostStart
  <2>1. BegunAt(g) /\ GluedAt(g)
    BY DEF RemuxInv, UnitsReceived
  <2>2. PICK n \in Nat \ {0} : n = Len(got[g].data)
    <3>1. got[g] \in R!UnitType
      BY ElementOfSeq DEF RemuxInv, RemuxTypeOK
    <3>2. Len(got[g].data) \in Nat
      BY <3>1, LenProperties DEF R!UnitType
    <3> QED BY <2>1, <3>2 DEF BegunAt
  <2>3. PICK s : s = [a \in 1..n |-> packets[Piece(g, a)]]
    OBVIOUS
  <2>4. Pieces(got[g]) = s
    BY <2>2, <2>3 DEF Pieces, Piece
  <2>5. Len(s) = n /\ \A a \in 1..n : s[a] = packets[Piece(g, a)]
    BY <2>2, <2>3
  <2>6. 1 \in 1..n /\ n > 0
    BY <2>2
  <2>7. s[1].start
    BY <2>1, <2>5, <2>6 DEF BegunAt
  <2> QED BY <2>1, <2>2, <2>4, <2>5, <2>6, <2>7 DEF GluedAt
<1> QED BY <1>1, RemuxInvInit, RemuxInvStep, PTL DEF RemuxSpec

-----------------------------------------------------------------------------
(* No packet of the PID was lost or sent twice.                            *)
Clean(pid) == \A i \in lost \cup repeated : packets[i].pid # pid

EndsUnit(i) == packets[i].from + packets[i].size = queue[packets[i].unit].size

LastPiece(g) == Piece(g, Len(got[g].data))

(* The pieces of a unit are packets of one unit, one after the other, and  *)
(* its flags are those of the first.                                       *)
GrownAt(g) ==
  /\ \A a \in 1..Len(got[g].data) :
       packets[Piece(g, a)].unit = packets[Piece(g, 1)].unit
  /\ \A a \in 1..(Len(got[g].data) - 1) : Piece(g, a + 1) = Piece(g, a) + 1
  /\ got[g].rai = packets[Piece(g, 1)].rai
  /\ got[g].pcr = packets[Piece(g, 1)].pcr

(* A unit that has not got its last packet waits for it: it has the latest *)
(* of its PID, and is open while the call runs.                            *)
WholeAt(g) ==
  \/ EndsUnit(LastPiece(g))
  \/ LastPiece(g) = sent[got[g].pid] /\ (calling => R!IsOpen(g))

(* What was sent of a clean PID is in units: there is one for each start,  *)
(* in order, and the latest packet ends one of them.                       *)
FlowWhole(pid) ==
  /\ \A g \in 1..Len(got) : got[g].pid = pid => GrownAt(g) /\ WholeAt(g)
  /\ \A g, h \in 1..Len(got) :
       g < h /\ got[g].pid = pid /\ got[h].pid = pid =>
         Piece(g, 1) < Piece(h, 1)
  /\ \A s \in 1..Len(packets) :
       packets[s].start /\ packets[s].pid = pid /\ s <= sent[pid] =>
         \E g \in 1..Len(got) : got[g].pid = pid /\ Piece(g, 1) = s
  /\ sent[pid] # 0 =>
       \E g \in 1..Len(got) : got[g].pid = pid /\ LastPiece(g) = sent[pid]

(* One call, made when the packets are, that takes them all.               *)
OneCall ==
  /\ calling \in BOOLEAN
  /\ calling => calls = 1
  /\ calls = 0 => Len(got) = 0 /\ \A pid \in Pids : sent[pid] = 0
  /\ calls # 0 => Packed
  /\ Received => Drained

FlowInv == RemuxInv /\ OneCall /\ \A pid \in Pids : Clean(pid) => FlowWhole(pid)

-----------------------------------------------------------------------------
(* The sender's packets of a unit are next to each other.                  *)
LEMMA PacketFacts ==
  ASSUME SenderInv
  PROVE  /\ Len(packets) \in Nat
         /\ \A i \in 1..Len(packets) :
              /\ packets[i].unit \in Nat /\ packets[i].from \in Nat
              /\ packets[i].size \in Nat \ {0}
              /\ queue[packets[i].unit].size \in Nat
              /\ packets[i].unit \in 1..Len(queue)
              /\ packets[i].pid = queue[packets[i].unit].pid
              /\ packets[i].start <=> packets[i].from = 0
<1>1. PackInv /\ TypeOK
  BY DEF SenderInv, PackInv
<1>2. Len(packets) \in Nat /\ \A i \in 1..Len(packets) : packets[i] \in PackedType
  BY <1>1, PackedElements
<1>3. ASSUME NEW i \in 1..Len(packets)
      PROVE  /\ packets[i].unit \in 1..Len(queue)
             /\ packets[i].pid = queue[packets[i].unit].pid
             /\ packets[i].start <=> packets[i].from = 0
             /\ packets[i].size > 0
  BY <1>1 DEF PackInv, PacketsCover, PacketsFit
<1>4. ASSUME NEW i \in 1..Len(packets)
      PROVE  queue[packets[i].unit].size \in Nat
  <2>1. queue[packets[i].unit] \in Units
    BY <1>1, <1>3, ElementOfSeq DEF TypeOK
  <2> QED BY <2>1, PackAssumption DEF UnitRecord
<1>5. ASSUME NEW i \in 1..Len(packets)
      PROVE  /\ packets[i].unit \in Nat /\ packets[i].from \in Nat
             /\ packets[i].size \in Nat \ {0}
  BY <1>2, <1>3 DEF PackedType
<1> QED BY <1>2, <1>3, <1>4, <1>5

LEMMA NextPacket ==
  ASSUME SenderInv, NEW i \in 1..Len(packets), i + 1 \in 1..Len(packets)
  PROVE  \/ /\ packets[i + 1].unit = packets[i].unit
            /\ packets[i + 1].from = packets[i].from + packets[i].size
            /\ ~packets[i + 1].start
         \/ packets[i + 1].unit > packets[i].unit /\ EndsUnit(i)
<1>1. i \in 1..(Len(packets) - 1)
  BY PacketFacts
<1>2. PacketsCover
  BY DEF SenderInv, PackInv
<1>3. CASE /\ packets[i + 1].unit = packets[i].unit
           /\ packets[i + 1].from = packets[i].from + packets[i].size
  <2>1. packets[i].from + packets[i].size # 0
    BY PacketFacts
  <2> QED BY <1>3, <2>1, PacketFacts
<1>4. CASE /\ packets[i + 1].unit > packets[i].unit
           /\ packets[i].from + packets[i].size = queue[packets[i].unit].size
  BY <1>4 DEF EndsUnit
<1> QED BY <1>1, <1>2, <1>3, <1>4 DEF PacketsCover

(* A packet that starts a unit is of another one than those before it.     *)
LEMMA StartIsFirst ==
  ASSUME SenderInv, NEW i \in 1..Len(packets), NEW j \in 1..Len(packets),
         i < j, packets[j].start
  PROVE  packets[i].unit < packets[j].unit
<1>1. Len(packets) \in Nat /\ i \in Nat /\ j \in Nat
  BY PacketFacts
<1>2. PICK k \in 1..Len(packets) : k + 1 = j /\ i <= k
  <2>1. j - 1 \in 1..Len(packets) /\ (j - 1) + 1 = j /\ i <= j - 1
    BY <1>1
  <2> QED BY <2>1
<1>3. packets[j].unit > packets[k].unit
  BY <1>2, NextPacket
<1>4. packets[i].unit <= packets[k].unit
  <2>1. CASE i = k
    BY <2>1, PacketFacts
  <2>2. CASE i # k
    <3>1. i < k
      BY <1>1, <1>2, <2>2
    <3> QED BY <3>1 DEF SenderInv, UnitsInOrder
  <2> QED BY <2>1, <2>2
<1>5. packets[i].unit \in Nat /\ packets[j].unit \in Nat /\ packets[k].unit \in Nat
  BY PacketFacts
<1> QED BY <1>3, <1>4, <1>5

(* When all is packed, a packet that does not end its unit has a next one. *)
LEMMA UnitGoesOn ==
  ASSUME SenderInv, Packed, NEW i \in 1..Len(packets), ~EndsUnit(i)
  PROVE  /\ i + 1 \in 1..Len(packets)
         /\ packets[i + 1].unit = packets[i].unit
         /\ packets[i + 1].pid = packets[i].pid
         /\ ~packets[i + 1].start
<1>1. Len(packets) \in Nat /\ i \in Nat
  BY PacketFacts
<1> PICK k : k = packets[i].unit
  OBVIOUS
<1>2. k \in 1..Len(queue) /\ queue[k].size \in Nat /\ k \in Nat
  BY PacketFacts
<1>3. queue[k].size # 0
  <2>1. packets[i].from + packets[i].size <= queue[k].size
    BY DEF SenderInv, WithinUnit
  <2> QED BY <1>2, <2>1, PacketFacts
<1>4. k \in 1..(at - 1)
  <2>1. at \in Nat /\ Len(queue) \in Nat /\ at > Len(queue)
    BY LenProperties DEF SenderInv, PackInv, TypeOK, Packed
  <2> QED BY <1>2, <2>1
<1>5. PICK j \in 1..Len(packets) :
        packets[j].unit = k /\ packets[j].from + packets[j].size = queue[k].size
  BY <1>3, <1>4 DEF SenderInv, PackInv, PacketsCover
<1>6. EndsUnit(j) /\ j # i
  BY <1>5 DEF EndsUnit
<1>7. \A a, b \in 1..Len(packets) : a < b => packets[a].unit <= packets[b].unit
  BY DEF SenderInv, UnitsInOrder
<1>8. ~(j < i)
  <2> SUFFICES ASSUME j < i PROVE FALSE
    OBVIOUS
  <2>1. j + 1 \in 1..Len(packets) /\ j + 1 <= i /\ j < j + 1
    BY <1>1
  <2>2. packets[j + 1].unit = k
    <3>1. k <= packets[j + 1].unit
      BY <1>5, <1>7, <2>1
    <3>2. packets[j + 1].unit <= k
      <4>1. CASE j + 1 = i
        BY <1>2, <4>1
      <4>2. CASE j + 1 # i
        <5>1. j + 1 < i
          BY <1>1, <2>1, <4>2
        <5> QED BY <1>7, <2>1, <5>1
      <4> QED BY <4>1, <4>2
    <3>3. packets[j + 1].unit \in Nat
      BY <2>1, PacketFacts
    <3> QED BY <1>2, <3>1, <3>2, <3>3
  <2>3. packets[j + 1].from = queue[k].size
    BY <1>2, <1>5, <2>1, <2>2, NextPacket
  <2>4. packets[j + 1].from + packets[j + 1].size <= queue[k].size
    BY <2>1, <2>2 DEF SenderInv, WithinUnit
  <2>5. packets[j + 1].size \in Nat \ {0}
    BY <2>1, PacketFacts
  <2> QED BY <1>2, <2>3, <2>4, <2>5
<1>9. i < j /\ i + 1 \in 1..Len(packets) /\ i < i + 1 /\ i + 1 <= j
  BY <1>1, <1>6, <1>8
<1>10. packets[i + 1].unit = k
  <2>1. k <= packets[i + 1].unit
    BY <1>7, <1>9
  <2>2. packets[i + 1].unit <= k
    <3>1. CASE i + 1 = j
      BY <1>2, <1>5, <3>1
    <3>2. CASE i + 1 # j
      <4>1. i + 1 < j
        BY <1>1, <1>9, <3>2
      <4> QED BY <1>5, <1>7, <1>9, <4>1
    <3> QED BY <3>1, <3>2
  <2>3. packets[i + 1].unit \in Nat
    BY <1>9, PacketFacts
  <2> QED BY <1>2, <2>1, <2>2, <2>3
<1>11. ~packets[i + 1].start
  BY <1>2, <1>9, <1>10, NextPacket
<1>12. packets[i + 1].pid = packets[i].pid
  BY <1>9, <1>10, PacketFacts
<1> QED BY <1>9, <1>10, <1>11, <1>12

(* A packet that starts no unit has the one before it in its own.          *)
LEMMA UnitWentOn ==
  ASSUME SenderInv, NEW i \in 1..Len(packets), ~packets[i].start
  PROVE  \E j \in 1..Len(packets) :
           /\ j + 1 = i
           /\ packets[j].unit = packets[i].unit
           /\ packets[j].pid = packets[i].pid
           /\ ~EndsUnit(j)
<1>1. Len(packets) \in Nat /\ i \in Nat
  BY PacketFacts
<1>2. PICK s \in 1..i : packets[s].start /\ packets[s].unit = packets[i].unit
  BY DEF SenderInv, StartBefore
<1>3. s < i /\ s \in 1..Len(packets)
  BY <1>1, <1>2
<1>4. PICK j \in 1..Len(packets) : j + 1 = i /\ s <= j
  <2>1. i - 1 \in 1..Len(packets) /\ (i - 1) + 1 = i /\ s <= i - 1
    BY <1>1, <1>3
  <2> QED BY <2>1
<1>5. packets[s].unit <= packets[j].unit
  <2>1. CASE s = j
    BY <2>1, PacketFacts
  <2>2. CASE s # j
    <3>1. s < j
      BY <1>1, <1>3, <1>4, <2>2
    <3> QED BY <1>3, <3>1 DEF SenderInv, UnitsInOrder
  <2> QED BY <2>1, <2>2
<1>6. packets[j].unit \in Nat /\ packets[i].unit \in Nat
  BY PacketFacts
<1>7. /\ packets[i].unit = packets[j].unit
      /\ packets[i].from = packets[j].from + packets[j].size
  BY <1>2, <1>4, <1>5, <1>6, NextPacket
<1>8. packets[j].pid = packets[i].pid
  BY <1>7, PacketFacts
<1>9. ~EndsUnit(j)
  <2>1. packets[i].from + packets[i].size <= queue[packets[i].unit].size
    BY DEF SenderInv, WithinUnit
  <2>2. packets[i].size \in Nat \ {0} /\ packets[i].from \in Nat
    BY PacketFacts
  <2>3. queue[packets[i].unit].size \in Nat
    BY PacketFacts
  <2> QED BY <1>7, <2>1, <2>2, <2>3 DEF EndsUnit
<1> QED BY <1>4, <1>7, <1>8, <1>9

-----------------------------------------------------------------------------
(* The pieces of a unit that gets no packet stay what they are.            *)
LEMMA PieceSame ==
  ASSUME RemuxInv, \A n \in 1..Len(source) : source'[n] = source[n],
         NEW g \in 1..Len(got), got'[g] = got[g]
  PROVE  /\ Len(got[g].data) \in Nat \ {0}
         /\ \A a \in 1..Len(got[g].data) :
              Piece(g, a)' = Piece(g, a) /\ Piece(g, a) \in 1..Len(packets)
         /\ LastPiece(g)' = LastPiece(g) /\ LastPiece(g) \in 1..Len(packets)
         /\ got[g].pid \in Pids
         /\ packets[LastPiece(g)].pid = got[g].pid
<1> PICK u : u = got[g]
  OBVIOUS
<1>1. BegunAt(g)
  BY DEF RemuxInv, UnitsReceived
<1>2. u \in R!UnitType
  BY ElementOfSeq DEF RemuxInv, RemuxTypeOK
<1>3. Len(u.data) \in Nat
  BY <1>2, LenProperties DEF R!UnitType
<1>4. Len(u.data) \in Nat \ {0} /\ u.pid \in Pids
  BY <1>1, <1>3 DEF BegunAt
<1>5. ASSUME NEW a \in 1..Len(u.data)
      PROVE  Piece(g, a)' = Piece(g, a) /\ Piece(g, a) \in 1..Len(packets)
  <2>1. u.data[a] \in 1..Len(source)
    BY <1>1 DEF BegunAt
  <2> QED BY <2>1 DEF Piece, RemuxInv, InReach
<1>6. Len(u.data) \in 1..Len(u.data)
  BY <1>4
<1>7. LastPiece(g)' = LastPiece(g) /\ LastPiece(g) \in 1..Len(packets)
  <2>1. LastPiece(g) = source[u.data[Len(u.data)]]
    BY DEF LastPiece, Piece
  <2>2. LastPiece(g)' = source'[u.data[Len(u.data)]]
    BY DEF LastPiece, Piece
  <2>3. u.data[Len(u.data)] \in 1..Len(source)
    BY <1>1, <1>6 DEF BegunAt
  <2> QED BY <2>1, <2>2, <2>3 DEF RemuxInv, InReach
<1>8. packets[LastPiece(g)].pid = u.pid
  BY <1>1, <1>6 DEF BegunAt, LastPiece
<1> QED BY <1>4, <1>5, <1>7, <1>8

LEMMA GrownKept ==
  ASSUME RemuxInv, \A n \in 1..Len(source) : source'[n] = source[n],
         NEW g \in 1..Len(got), got'[g] = got[g], packets' = packets, GrownAt(g)
  PROVE  GrownAt(g)'
<1> PICK n \in Nat \ {0} : n = Len(got[g].data)
  BY PieceSame
<1>1. \A a \in 1..n : Piece(g, a)' = Piece(g, a)
  BY PieceSame
<1>2. 1 \in 1..n /\ \A a \in 1..(n - 1) : a \in 1..n /\ a + 1 \in 1..n
  OBVIOUS
<1>3. /\ \A a \in 1..n : packets[Piece(g, a)].unit = packets[Piece(g, 1)].unit
      /\ \A a \in 1..(n - 1) : Piece(g, a + 1) = Piece(g, a) + 1
      /\ got[g].rai = packets[Piece(g, 1)].rai
      /\ got[g].pcr = packets[Piece(g, 1)].pcr
  BY DEF GrownAt
<1>4. Piece(g, 1)' = Piece(g, 1)
  BY <1>1, <1>2
<1>5. \A a \in 1..n : packets'[Piece(g, a)'].unit = packets'[Piece(g, 1)'].unit
  BY <1>1, <1>3, <1>4
<1>6. \A a \in 1..(n - 1) : Piece(g, a + 1)' = Piece(g, a)' + 1
  BY <1>1, <1>2, <1>3
<1> QED BY <1>3, <1>4, <1>5, <1>6 DEF GrownAt

(* A step that neither sends on the PID nor touches its units.             *)
LEMMA FlowKept ==
  ASSUME RemuxInv, NEW q \in Pids, FlowWhole(q),
         packets' = packets, queue' = queue, sent'[q] = sent[q],
         \A n \in 1..Len(source) : source'[n] = source[n],
         calling' => calling,
         \A g \in 1..Len(got) : got[g].pid = q =>
           /\ g \in 1..Len(got') /\ got'[g] = got[g]
           /\ calling' /\ R!IsOpen(g) => R!IsOpen(g)',
         \A g \in 1..Len(got') : got'[g].pid = q =>
           g \in 1..Len(got) /\ got'[g] = got[g]
  PROVE  FlowWhole(q)'
<1> DEFINE Ours == {g \in 1..Len(got) : got[g].pid = q}
<1>1. \A g \in 1..Len(got') : got'[g].pid = q <=> g \in Ours
  OBVIOUS
<1>2. \A g \in Ours : g \in 1..Len(got') /\ got'[g] = got[g] /\ got'[g].pid = q
  OBVIOUS
<1>3. ASSUME NEW g \in Ours
      PROVE  Piece(g, 1)' = Piece(g, 1) /\ LastPiece(g)' = LastPiece(g)
  <2>1. Len(got[g].data) \in Nat \ {0}
    BY <1>2, PieceSame
  <2>2. 1 \in 1..Len(got[g].data)
    BY <2>1
  <2> QED BY <1>2, <2>2, PieceSame
<1>4. ASSUME NEW g \in Ours
      PROVE  GrownAt(g)' /\ WholeAt(g)'
  <2>1. GrownAt(g) /\ WholeAt(g)
    BY DEF FlowWhole
  <2>2. GrownAt(g)'
    BY <1>2, <2>1, GrownKept
  <2>3. got'[g].pid = q
    BY <1>2
  <2>4. CASE EndsUnit(LastPiece(g))
    BY <1>3, <2>2, <2>4 DEF WholeAt, EndsUnit
  <2>5. CASE LastPiece(g) = sent[got[g].pid] /\ (calling => R!IsOpen(g))
    BY <1>3, <2>2, <2>3, <2>5 DEF WholeAt
  <2> QED BY <2>1, <2>2, <2>4, <2>5 DEF WholeAt
<1>5. \A g, h \in Ours : g < h => Piece(g, 1) < Piece(h, 1)
  BY DEF FlowWhole
<1>6. \A s \in 1..Len(packets) :
        packets[s].start /\ packets[s].pid = q /\ s <= sent[q] =>
          \E g \in Ours : Piece(g, 1) = s
  BY DEF FlowWhole
<1>7. sent[q] # 0 => \E g \in Ours : LastPiece(g) = sent[q]
  BY DEF FlowWhole
<1> HIDE DEF Ours
<1>8. \A g, h \in Ours : g < h => Piece(g, 1)' < Piece(h, 1)'
  BY <1>3, <1>5
<1>9. \A s \in 1..Len(packets) :
        packets[s].start /\ packets[s].pid = q /\ s <= sent[q] =>
          \E g \in Ours : Piece(g, 1)' = s
  BY <1>3, <1>6
<1>10. sent[q] # 0 => \E g \in Ours : LastPiece(g)' = sent[q]
  BY <1>3, <1>7
<1> QED BY <1>1, <1>2, <1>4, <1>8, <1>9, <1>10 DEF FlowWhole

-----------------------------------------------------------------------------
(* The next packet of a PID arrives that has lost none.                    *)
Advances(pid, i) == Arrives(pid, i) /\ sent[pid] < i /\ calling

LEMMA OpenIsOne ==
  ASSUME RemuxInv, NEW g \in 1..Len(got), NEW h \in 1..Len(got),
         R!IsOpen(g), R!IsOpen(h), got[g].pid = got[h].pid
  PROVE  g = h
<1>1. PICK a \in 1..Len(incomplete) : incomplete[a] = g
  BY DEF R!IsOpen
<1>2. PICK b \in 1..Len(incomplete) : incomplete[b] = h
  BY DEF R!IsOpen
<1> QED BY <1>1, <1>2 DEF RemuxInv, OneOpen

LEMMA LastIsSent ==
  ASSUME RemuxInv, NEW g \in 1..Len(got)
  PROVE  LastPiece(g) \in 1..Len(packets) /\ packets[LastPiece(g)].pid = got[g].pid
<1>1. BegunAt(g) /\ got[g] \in R!UnitType
  BY ElementOfSeq DEF RemuxInv, RemuxTypeOK, UnitsReceived
<1>2. Len(got[g].data) \in Nat
  BY <1>1, LenProperties DEF R!UnitType
<1>3. Len(got[g].data) \in 1..Len(got[g].data)
  BY <1>1, <1>2 DEF BegunAt
<1>4. got[g].data[Len(got[g].data)] \in 1..Len(source)
  BY <1>1, <1>3 DEF BegunAt
<1>5. LastPiece(g) \in 1..Len(packets)
  BY <1>4 DEF LastPiece, Piece, RemuxInv, InReach
<1> QED BY <1>1, <1>3, <1>5 DEF BegunAt, LastPiece

(* It starts a unit: those before it are whole.                            *)
LEMMA ClosedAreWhole ==
  ASSUME RemuxInv, Packed, NEW pid \in Pids, NEW i \in 1..Len(packets),
         Advances(pid, i), FlowWhole(pid), packets[i].start,
         NEW g \in 1..Len(got), got[g].pid = pid
  PROVE  EndsUnit(LastPiece(g))
<1> SUFFICES ASSUME ~EndsUnit(LastPiece(g)) PROVE FALSE
  OBVIOUS
<1>1. LastPiece(g) = sent[pid]
  BY DEF FlowWhole, WholeAt
<1>2. PICK s \in 1..Len(packets) : s = LastPiece(g) /\ packets[s].pid = pid
  BY LastIsSent
<1>3. s + 1 \in 1..Len(packets) /\ packets[s + 1].pid = pid /\ ~packets[s + 1].start
  BY <1>2, UnitGoesOn DEF RemuxInv
<1>4. s < i /\ s \in Nat /\ i \in Nat
  BY <1>1, <1>2, PacketFacts DEF Advances, RemuxInv
<1>5. s + 1 # i
  BY <1>3
<1>6. s + 1 < i
  BY <1>4, <1>5
<1>7. s + 1 <= s
  BY <1>1, <1>2, <1>3, <1>6 DEF Advances, Arrives
<1> QED BY <1>4, <1>7

(* It goes on with one: that one is open, and waits for it.                *)
LEMMA OpenWaits ==
  ASSUME RemuxInv, NEW pid \in Pids, NEW i \in 1..Len(packets),
         Advances(pid, i), FlowWhole(pid), ~packets[i].start
  PROVE  \E g \in 1..Len(got) :
           /\ R!IsOpen(g) /\ got[g].pid = pid
           /\ LastPiece(g) = sent[pid] /\ sent[pid] + 1 = i
           /\ packets[LastPiece(g)].unit = packets[i].unit
<1>1. PICK j \in 1..Len(packets) :
        /\ j + 1 = i
        /\ packets[j].unit = packets[i].unit
        /\ packets[j].pid = packets[i].pid
        /\ ~EndsUnit(j)
  BY UnitWentOn DEF RemuxInv
<1>2. j \in Nat /\ i \in Nat /\ j # 0 /\ j < i /\ sent[pid] \in Nat
  BY <1>1, PacketFacts DEF RemuxInv, RemuxTypeOK
<1>3. packets[i].pid = pid /\ sent[pid] < i
  BY DEF Advances, Arrives
<1>4. j <= sent[pid]
  BY <1>1, <1>2, <1>3 DEF Advances, Arrives
<1>5. j = sent[pid]
  BY <1>1, <1>2, <1>3, <1>4
<1>6. PICK g \in 1..Len(got) : got[g].pid = pid /\ LastPiece(g) = sent[pid]
  BY <1>2, <1>5 DEF FlowWhole
<1>7. R!IsOpen(g)
  BY <1>1, <1>5, <1>6 DEF FlowWhole, WholeAt, Advances
<1> QED BY <1>1, <1>5, <1>6, <1>7

LEMMA NewIsOpen ==
  ASSUME OneOpen, RemuxTypeOK, NEW p, R!OpenUnit(p)
  PROVE  \E k \in 1..Len(incomplete') : incomplete'[k] = Len(got) + 1
<1>1. incomplete \in Seq(Nat \ {0}) /\ Len(got) \in Nat
  BY LenProperties DEF RemuxTypeOK
<1>2. incomplete' = R!Reopen(p.pid)
  BY DEF R!OpenUnit
<1>3. PICK r \in Seq(Nat \ {0}) :
        /\ R!Reopen(p.pid) \in Seq(Nat \ {0})
        /\ Len(r) \in Nat
        /\ Len(R!Reopen(p.pid)) = Len(r) + 1
        /\ \A i \in 1..Len(r) : R!Reopen(p.pid)[i] = r[i]
        /\ R!Reopen(p.pid)[Len(r) + 1] = Len(got) + 1
        /\ \A i \in 1..Len(r) :
             /\ R!IsOpen(r[i]) /\ r[i] \in 1..Len(got)
             /\ got[r[i]].pid # p.pid
        /\ \A i, j \in 1..Len(r) : got[r[i]].pid = got[r[j]].pid => i = j
  BY <1>1, ReopenFacts
<1>4. Len(r) + 1 \in 1..Len(incomplete')
  BY <1>2, <1>3
<1> QED BY <1>2, <1>3, <1>4

LEMMA FlowOpened ==
  ASSUME RemuxInv, Packed, NEW pid \in Pids, NEW i \in 1..Len(packets),
         Advances(pid, i), FlowWhole(pid), queue' = queue,
         NEW p \in WireType, p.pid = pid, p.start = packets[i].start,
         p.rai = packets[i].rai, p.pcr = packets[i].pcr, p.size # 0,
         R!OpenUnit(p)
  PROVE  FlowWhole(pid)'
<1> PICK N \in Nat : N = Len(got) + 1
  BY LenProperties DEF RemuxInv, RemuxTypeOK
<1>1. /\ packets' = packets /\ i \in Nat
      /\ source'[Len(source) + 1] = i
      /\ \A n \in 1..Len(source) : source'[n] = source[n]
      /\ sent'[pid] = i /\ sent[pid] \in Nat /\ sent[pid] < i
  <2>1. Arrives(pid, i) /\ sent[pid] < i
    BY DEF Advances
  <2> QED BY <2>1, ArrivalFacts
<1>2. Len(fed) = Len(source) /\ Len(got) \in Nat /\ Len(source) \in Nat
  BY LenProperties DEF RemuxInv, RemuxTypeOK, InReach
<1>3. /\ Len(got') = N
      /\ \A g \in 1..Len(got) : got'[g] = got[g]
      /\ got'[N].pid = pid
      /\ got'[N].rai = packets[i].rai /\ got'[N].pcr = packets[i].pcr
      /\ got'[N].data = <<Len(source) + 1>>
  BY <1>2, OpenFacts DEF RemuxInv
<1>4. 1..N = (1..Len(got)) \cup {N} /\ N \notin 1..Len(got) /\ N \in 1..N
      /\ \A g \in 1..Len(got) : g < N /\ g \in 1..N
  BY <1>2
<1>5. packets[i].start /\ packets[i].pid = pid
  BY DEF R!OpenUnit, Advances, Arrives
<1>6. ASSUME NEW g \in 1..Len(got), got[g].pid = pid
      PROVE  /\ GrownAt(g)' /\ WholeAt(g)'
             /\ Piece(g, 1)' = Piece(g, 1) /\ Piece(g, 1) < i
  <2>1. GrownAt(g)
    BY <1>6 DEF FlowWhole
  <2>2. GrownAt(g)'
    BY <1>1, <1>3, <2>1, GrownKept
  <2>3. EndsUnit(LastPiece(g))
    BY <1>5, <1>6, ClosedAreWhole
  <2>4. LastPiece(g)' = LastPiece(g)
    BY <1>1, <1>3, PieceSame
  <2>5. WholeAt(g)'
    BY <1>1, <2>3, <2>4 DEF WholeAt, EndsUnit
  <2>6. Len(got[g].data) \in Nat \ {0}
    BY <1>1, <1>3, PieceSame
  <2>7. 1 \in 1..Len(got[g].data)
    BY <2>6
  <2>8. Piece(g, 1)' = Piece(g, 1) /\ Piece(g, 1) \in 1..Len(packets)
    BY <1>1, <1>3, <2>7, PieceSame
  <2>9. Piece(g, 1) <= sent[pid]
    BY <1>6, <2>7 DEF RemuxInv, UnitsReceived, BegunAt
  <2> QED BY <1>1, <2>2, <2>5, <2>8, <2>9
<1>7. /\ Piece(N, 1)' = i /\ LastPiece(N)' = i
      /\ GrownAt(N)' /\ WholeAt(N)'
  <2>1. PICK m \in Nat : m = Len(source) + 1
    BY <1>2
  <2>2. PICK d : d = got'[N].data
    OBVIOUS
  <2>3. Len(d) = 1 /\ d[1] = m
    BY <1>3, <2>1, <2>2
  <2>4. Piece(N, 1)' = i
    BY <1>1, <2>1, <2>2, <2>3 DEF Piece
  <2>5. LastPiece(N)' = i
    BY <1>1, <2>1, <2>2, <2>3 DEF LastPiece, Piece
  <2>6. R!IsOpen(N)'
    <3>1. PICK k \in 1..Len(incomplete') : incomplete'[k] = Len(got) + 1
      BY NewIsOpen DEF RemuxInv
    <3> QED BY <3>1 DEF R!IsOpen
  <2>7. \A a \in 1..Len(d) : a = 1
    BY <2>3
  <2>8. GrownAt(N)'
    BY <1>1, <1>3, <2>2, <2>3, <2>4, <2>7 DEF GrownAt
  <2>9. WholeAt(N)'
    BY <1>1, <1>3, <2>5, <2>6 DEF WholeAt
  <2> QED BY <2>4, <2>5, <2>8, <2>9
<1>8. \A g \in 1..N : got'[g].pid = pid => GrownAt(g)' /\ WholeAt(g)'
  BY <1>3, <1>4, <1>6, <1>7
<1>9. \A g, h \in 1..N :
        g < h /\ got'[g].pid = pid /\ got'[h].pid = pid =>
          Piece(g, 1)' < Piece(h, 1)'
  <2> SUFFICES ASSUME NEW g \in 1..N, NEW h \in 1..N, g < h,
                      got'[g].pid = pid, got'[h].pid = pid
               PROVE  Piece(g, 1)' < Piece(h, 1)'
    OBVIOUS
  <2>1. g \in 1..Len(got) /\ got[g].pid = pid
    <3>1. g # N
      BY <1>4
    <3> QED BY <1>3, <1>4, <3>1
  <2>2. CASE h = N
    BY <1>6, <1>7, <2>1, <2>2
  <2>3. CASE h \in 1..Len(got)
    <3>1. got[h].pid = pid
      BY <1>3, <2>3
    <3>2. Piece(g, 1) < Piece(h, 1)
      BY <2>1, <2>3, <3>1 DEF FlowWhole
    <3> QED BY <1>6, <2>1, <2>3, <3>1, <3>2
  <2> QED BY <1>4, <2>2, <2>3
<1>10. \A s \in 1..Len(packets) :
         packets[s].start /\ packets[s].pid = pid /\ s <= i =>
           \E g \in 1..N : got'[g].pid = pid /\ Piece(g, 1)' = s
  <2> SUFFICES ASSUME NEW s \in 1..Len(packets), packets[s].start,
                      packets[s].pid = pid, s <= i
               PROVE  \E g \in 1..N : got'[g].pid = pid /\ Piece(g, 1)' = s
    OBVIOUS
  <2>1. CASE s = i
    BY <1>3, <1>4, <1>7, <2>1
  <2>2. CASE s # i
    <3>1. s < i
      BY <1>1, <2>2, PacketFacts DEF RemuxInv
    <3>2. s <= sent[pid]
      BY <3>1 DEF Advances, Arrives
    <3>3. PICK g \in 1..Len(got) : got[g].pid = pid /\ Piece(g, 1) = s
      BY <3>2 DEF FlowWhole
    <3> QED BY <1>3, <1>4, <1>6, <3>3
  <2> QED BY <2>1, <2>2
<1>11. \E g \in 1..N : got'[g].pid = pid /\ LastPiece(g)' = i
  BY <1>3, <1>4, <1>7
<1> QED BY <1>1, <1>3, <1>8, <1>9, <1>10, <1>11 DEF FlowWhole

LEMMA FlowExtended ==
  ASSUME RemuxInv, NEW pid \in Pids, NEW i \in 1..Len(packets),
         Advances(pid, i), FlowWhole(pid), queue' = queue,
         NEW p \in WireType, p.pid = pid, p.start = packets[i].start, p.size # 0,
         R!ExtendUnit(p)
  PROVE  FlowWhole(pid)'
<1>1. /\ packets' = packets /\ i \in Nat /\ Len(source) \in Nat
      /\ source'[Len(source) + 1] = i
      /\ \A n \in 1..Len(source) : source'[n] = source[n]
      /\ sent'[pid] = i /\ sent[pid] \in Nat /\ sent[pid] < i
  <2>1. Arrives(pid, i) /\ sent[pid] < i
    BY DEF Advances
  <2> QED BY <2>1, ArrivalFacts
<1>2. Len(fed) = Len(source) /\ ~packets[i].start /\ incomplete' = incomplete
  BY DEF RemuxInv, InReach, R!ExtendUnit
<1>3. /\ Len(got') = Len(got) /\ Len(got) \in Nat
      /\ \A g \in 1..Len(got) :
           /\ got'[g].pid = got[g].pid
           /\ got'[g].rai = got[g].rai /\ got'[g].pcr = got[g].pcr
  BY ExtendFacts DEF RemuxInv
<1>4. PICK k \in 1..Len(got) :
        /\ R!IsOpen(k) /\ got[k].pid = pid
        /\ \A g \in (1..Len(got)) \ {k} : got'[g] = got[g]
        /\ Len(got[k].data) \in Nat
        /\ Len(got'[k].data) = Len(got[k].data) + 1
        /\ \A a \in 1..Len(got[k].data) : got'[k].data[a] = got[k].data[a]
        /\ got'[k].data[Len(got[k].data) + 1] = Len(fed) + 1
  BY ExtendFacts DEF RemuxInv
<1>5. /\ LastPiece(k) = sent[pid] /\ sent[pid] + 1 = i
      /\ packets[LastPiece(k)].unit = packets[i].unit
  <2>1. PICK g \in 1..Len(got) :
          /\ R!IsOpen(g) /\ got[g].pid = pid
          /\ LastPiece(g) = sent[pid] /\ sent[pid] + 1 = i
          /\ packets[LastPiece(g)].unit = packets[i].unit
    BY <1>2, OpenWaits
  <2>2. g = k
    BY <1>4, <2>1, OpenIsOne
  <2> QED BY <2>1, <2>2
<1>6. BegunAt(k) /\ GrownAt(k)
  BY <1>4 DEF RemuxInv, UnitsReceived, FlowWhole
<1>7. PICK n \in Nat \ {0} : n = Len(got[k].data)
  BY <1>4, <1>6 DEF BegunAt
<1>8. PICK e : e = got'[k].data
  OBVIOUS
<1>9. /\ Len(e) = n + 1 /\ 1 \in 1..n /\ n \in 1..n
      /\ \A a \in 1..n : e[a] = got[k].data[a] /\ e[a] \in 1..Len(source)
      /\ e[n + 1] = Len(source) + 1
  BY <1>2, <1>4, <1>6, <1>7, <1>8, SMTT(30) DEF BegunAt
<1>10. \A a \in 1..n : Piece(k, a)' = Piece(k, a)
  BY <1>1, <1>8, <1>9 DEF Piece
<1>11. Piece(k, n + 1)' = i /\ Piece(k, n) = LastPiece(k)
  BY <1>1, <1>7, <1>8, <1>9 DEF Piece, LastPiece
<1>12. LastPiece(k)' = i
  BY <1>1, <1>8, <1>9 DEF Piece, LastPiece
<1>13. \A a \in 1..(n + 1) : a \in 1..n \/ a = n + 1
  OBVIOUS
<1>14. Piece(k, 1)' = Piece(k, 1)
  BY <1>9, <1>10
<1>15. GrownAt(k)'
  <2>1. ASSUME NEW a \in 1..(n + 1)
        PROVE  packets[Piece(k, a)'].unit = packets[Piece(k, 1)].unit
    <3>1. CASE a \in 1..n
      BY <1>6, <1>7, <1>10, <3>1 DEF GrownAt
    <3>2. CASE a = n + 1
      <4>1. packets[Piece(k, n)].unit = packets[Piece(k, 1)].unit
        BY <1>6, <1>7, <1>9 DEF GrownAt
      <4> QED BY <1>5, <1>11, <3>2, <4>1
    <3> QED BY <1>13, <3>1, <3>2
  <2>2. ASSUME NEW a \in 1..n
        PROVE  Piece(k, a + 1)' = Piece(k, a)' + 1
    <3>1. CASE a = n
      <4>1. Piece(k, n)' = LastPiece(k)
        BY <1>9, <1>10, <1>11
      <4> QED BY <1>5, <1>11, <3>1, <4>1
    <3>2. CASE a # n
      <4>1. a \in 1..(n - 1) /\ a + 1 \in 1..n
        BY <3>2
      <4>2. Piece(k, a + 1) = Piece(k, a) + 1
        BY <1>6, <1>7, <4>1 DEF GrownAt
      <4> QED BY <1>10, <4>1, <4>2
    <3> QED BY <3>1, <3>2
  <2>3. /\ got'[k].rai = packets[Piece(k, 1)].rai
        /\ got'[k].pcr = packets[Piece(k, 1)].pcr
    BY <1>3, <1>6 DEF GrownAt
  <2>4. Len(got'[k].data) = n + 1 /\ (n + 1) - 1 = n
    BY <1>8, <1>9
  <2> QED BY <1>1, <1>14, <2>1, <2>2, <2>3, <2>4 DEF GrownAt
<1>16. WholeAt(k)'
  <2>1. R!IsOpen(k)'
    BY <1>2, <1>4 DEF R!IsOpen
  <2>2. LastPiece(k)' = sent'[got'[k].pid]
    BY <1>1, <1>3, <1>4, <1>12
  <2> QED BY <2>1, <2>2 DEF WholeAt
<1>17. ASSUME NEW g \in (1..Len(got)) \ {k}, got[g].pid = pid
       PROVE  GrownAt(g)' /\ WholeAt(g)' /\ Piece(g, 1)' = Piece(g, 1)
  <2>1. GrownAt(g) /\ WholeAt(g) /\ got'[g] = got[g]
    BY <1>4, <1>17 DEF FlowWhole
  <2>2. GrownAt(g)'
    BY <1>1, <2>1, GrownKept
  <2>3. EndsUnit(LastPiece(g))
    <3>1. ~R!IsOpen(g)
      BY <1>4, <1>17, OpenIsOne
    <3> QED BY <2>1, <3>1 DEF WholeAt, Advances
  <2>4. LastPiece(g)' = LastPiece(g)
    BY <1>1, <2>1, PieceSame
  <2>5. WholeAt(g)'
    BY <1>1, <2>3, <2>4 DEF WholeAt, EndsUnit
  <2>6. Len(got[g].data) \in Nat \ {0}
    BY <1>1, <2>1, PieceSame
  <2>7. 1 \in 1..Len(got[g].data)
    BY <2>6
  <2>8. Piece(g, 1)' = Piece(g, 1)
    BY <1>1, <2>1, <2>7, PieceSame
  <2> QED BY <2>2, <2>5, <2>8
<1>18. \A g \in 1..Len(got) : got[g].pid = pid =>
         GrownAt(g)' /\ WholeAt(g)' /\ Piece(g, 1)' = Piece(g, 1)
  BY <1>14, <1>15, <1>16, <1>17
<1>19. \A s \in 1..Len(packets) :
         packets[s].start /\ packets[s].pid = pid /\ s <= i =>
           \E g \in 1..Len(got) : got[g].pid = pid /\ Piece(g, 1)' = s
  <2> SUFFICES ASSUME NEW s \in 1..Len(packets), packets[s].start,
                      packets[s].pid = pid, s <= i
               PROVE  \E g \in 1..Len(got) : got[g].pid = pid /\ Piece(g, 1)' = s
    OBVIOUS
  <2>1. s # i
    BY <1>2
  <2>2. s < i
    BY <1>1, <2>1, PacketFacts DEF RemuxInv
  <2>3. s <= sent[pid]
    BY <2>2 DEF Advances, Arrives
  <2>4. PICK g \in 1..Len(got) : got[g].pid = pid /\ Piece(g, 1) = s
    BY <2>3 DEF FlowWhole
  <2> QED BY <1>18, <2>4
<1>20. \A g, h \in 1..Len(got) :
         g < h /\ got[g].pid = pid /\ got[h].pid = pid =>
           Piece(g, 1)' < Piece(h, 1)'
  <2>1. \A g, h \in 1..Len(got) :
          g < h /\ got[g].pid = pid /\ got[h].pid = pid =>
            Piece(g, 1) < Piece(h, 1)
    BY DEF FlowWhole
  <2> QED BY <1>18, <2>1
<1>21. \A g \in 1..Len(got) : got'[g].pid = pid <=> got[g].pid = pid
  BY <1>3
<1>22. \E g \in 1..Len(got) : got[g].pid = pid /\ LastPiece(g)' = i
  BY <1>4, <1>12
<1>23. /\ \A g \in 1..Len(got') : got'[g].pid = pid => GrownAt(g)' /\ WholeAt(g)'
       /\ \A g, h \in 1..Len(got') :
            g < h /\ got'[g].pid = pid /\ got'[h].pid = pid =>
              Piece(g, 1)' < Piece(h, 1)'
  BY <1>3, <1>18, <1>20, <1>21
<1>24. /\ \A s \in 1..Len(packets') :
            packets'[s].start /\ packets'[s].pid = pid /\ s <= sent'[pid] =>
              \E g \in 1..Len(got') : got'[g].pid = pid /\ Piece(g, 1)' = s
       /\ \E g \in 1..Len(got') : got'[g].pid = pid /\ LastPiece(g)' = sent'[pid]
  BY <1>1, <1>3, <1>19, <1>21, <1>22
<1> QED BY <1>23, <1>24 DEF FlowWhole

LEMMA FlowAdvances ==
  ASSUME RemuxInv, Packed, NEW pid \in Pids, NEW i \in 1..Len(packets),
         Advances(pid, i), FlowWhole(pid), queue' = queue
  PROVE  FlowWhole(pid)'
<1>1. PICK p \in WireType :
        /\ p.pid = pid /\ p.start = packets[i].start /\ p.size # 0
        /\ p.rai = packets[i].rai /\ p.pcr = packets[i].pcr
        /\ R!OpenUnit(p) \/ R!ExtendUnit(p) \/ R!DropPacket(p)
  BY Arrival DEF Advances
<1>2. CASE R!OpenUnit(p)
  BY <1>1, <1>2, FlowOpened
<1>3. CASE R!ExtendUnit(p)
  BY <1>1, <1>3, FlowExtended
<1>4. CASE R!DropPacket(p)
  <2>1. ~packets[i].start /\ R!Matches(pid) = {}
    BY <1>1, <1>4 DEF R!DropPacket
  <2>2. PICK g \in 1..Len(got) : R!IsOpen(g) /\ got[g].pid = pid
    BY <2>1, OpenWaits
  <2>3. R!Matches(pid) # {}
    BY <2>2 DEF R!IsOpen, R!Matches
  <2> QED BY <2>1, <2>3
<1> QED BY <1>1, <1>2, <1>3, <1>4

-----------------------------------------------------------------------------
(* What arrives on one PID changes no unit of another, nor closes it.      *)
LEMMA OthersStayOpen ==
  ASSUME OneOpen, incomplete \in Seq(Nat \ {0}), NEW pid,
         Len(got) \in Nat, NEW a \in 1..Len(incomplete),
         got[incomplete[a]].pid # pid
  PROVE  \E k \in 1..Len(R!Reopen(pid)) : R!Reopen(pid)[k] = incomplete[a]
<1> DEFINE r == IF R!Matches(pid) = {} THEN incomplete
                ELSE R!RemoveAt(incomplete, R!Found(pid))
<1>1. R!Reopen(pid) = Append(r, Len(got) + 1) /\ Len(incomplete) \in Nat
  BY LenProperties DEF R!Reopen
<1>2. r \in Seq(Nat \ {0}) /\ \E k \in 1..Len(r) : r[k] = incomplete[a]
  <2>1. CASE R!Matches(pid) = {}
    BY <2>1
  <2>2. CASE R!Matches(pid) # {}
    <3> PICK f \in 1..Len(incomplete) :
          f = R!Found(pid) /\ got[incomplete[f]].pid = pid
      BY <2>2, FoundFacts
    <3>1. r = R!RemoveAt(incomplete, f)
      BY <2>2
    <3> HIDE DEF r
    <3>2. /\ r \in Seq(Nat \ {0})
          /\ Len(r) = Len(incomplete) - 1
          /\ \A j \in 1..(Len(incomplete) - 1) :
               r[j] = IF j < f THEN incomplete[j] ELSE incomplete[j + 1]
      BY <3>1, RemoveAtFacts
    <3>3. a # f
      OBVIOUS
    <3>4. CASE a < f
      <4>1. a \in 1..(Len(incomplete) - 1)
        BY <1>1, <3>4
      <4> QED BY <3>2, <3>4, <4>1
    <3>5. CASE ~(a < f)
      <4>1. a - 1 \in 1..(Len(incomplete) - 1) /\ ~(a - 1 < f) /\ (a - 1) + 1 = a
        BY <1>1, <3>3, <3>5
      <4>2. r[a - 1] = incomplete[a]
        BY <3>2, <4>1
      <4> QED BY <3>2, <4>1, <4>2
    <3> QED BY <3>2, <3>4, <3>5
  <2> QED BY <2>1, <2>2
<1> HIDE DEF r
<1>3. PICK k \in 1..Len(r) : r[k] = incomplete[a]
  BY <1>2
<1>4. PICK m \in Nat \ {0} : m = Len(got) + 1
  OBVIOUS
<1>5. Len(Append(r, m)) = Len(r) + 1 /\ Len(r) \in Nat /\ Append(r, m)[k] = r[k]
  BY <1>2, <1>3, <1>4, AppendProperties, LenProperties
<1>6. k \in 1..(Len(r) + 1)
  BY <1>5
<1> QED BY <1>1, <1>3, <1>4, <1>5, <1>6

LEMMA OthersKept ==
  ASSUME RemuxInv, NEW pid \in Pids, NEW i \in 1..Len(packets), Arrives(pid, i),
         NEW q \in Pids, q # pid
  PROVE  /\ calls' = calls /\ calling' = calling
         /\ \A g \in 1..Len(got) : got[g].pid = q =>
              /\ g \in 1..Len(got') /\ got'[g] = got[g]
              /\ R!IsOpen(g) => R!IsOpen(g)'
         /\ \A g \in 1..Len(got') : got'[g].pid = q =>
              g \in 1..Len(got) /\ got'[g] = got[g]
<1>1. PICK p \in WireType :
        /\ p.pid = pid /\ p.start = packets[i].start /\ p.size # 0
        /\ p.rai = packets[i].rai /\ p.pcr = packets[i].pcr
        /\ R!OpenUnit(p) \/ R!ExtendUnit(p) \/ R!DropPacket(p)
  BY Arrival
<1>2. calls' = calls /\ calling' = calling
  BY <1>1 DEF R!OpenUnit, R!ExtendUnit, R!DropPacket, R!Feed
<1>3. /\ RemuxTypeOK /\ OneOpen /\ incomplete \in Seq(Nat \ {0})
      /\ Len(got) \in Nat
  BY LenProperties DEF RemuxInv, RemuxTypeOK
<1>4. CASE R!OpenUnit(p)
  <2>1. /\ Len(got') = Len(got) + 1
        /\ \A g \in 1..Len(got) : got'[g] = got[g]
        /\ got'[Len(got) + 1].pid = pid
    BY <1>1, <1>3, <1>4, OpenFacts
  <2>2. \A g \in 1..Len(got') : g \in 1..Len(got) \/ g = Len(got) + 1
    BY <1>3, <2>1
  <2>3. \A g \in 1..Len(got) : g \in 1..Len(got')
    BY <1>3, <2>1
  <2>4. ASSUME NEW g \in 1..Len(got), got[g].pid = q, R!IsOpen(g)
        PROVE  R!IsOpen(g)'
    <3>1. PICK a \in 1..Len(incomplete) : incomplete[a] = g
      BY <2>4 DEF R!IsOpen
    <3>2. incomplete' = R!Reopen(pid)
      BY <1>1, <1>4 DEF R!OpenUnit
    <3>3. got[incomplete[a]].pid # pid
      BY <2>4, <3>1
    <3>4. PICK k \in 1..Len(R!Reopen(pid)) : R!Reopen(pid)[k] = incomplete[a]
      BY <1>3, <3>3, OthersStayOpen
    <3> QED BY <3>1, <3>2, <3>4 DEF R!IsOpen
  <2> QED BY <1>2, <2>1, <2>2, <2>3, <2>4
<1>5. CASE R!ExtendUnit(p)
  <2>1. /\ Len(got') = Len(got)
        /\ \A g \in 1..Len(got) : got'[g].pid = got[g].pid
        /\ \E k \in 1..Len(got) :
             /\ got[k].pid = pid
             /\ \A g \in (1..Len(got)) \ {k} : got'[g] = got[g]
    BY <1>1, <1>3, <1>5, ExtendFacts
  <2>2. incomplete' = incomplete
    BY <1>5 DEF R!ExtendUnit
  <2>3. \A g \in 1..Len(got) : got[g].pid = q => got'[g] = got[g]
    BY <2>1
  <2> QED BY <1>2, <2>1, <2>2, <2>3 DEF R!IsOpen
<1>6. CASE R!DropPacket(p)
  BY <1>2, <1>6 DEF R!DropPacket, R!IsOpen
<1> QED BY <1>1, <1>4, <1>5, <1>6

LEMMA FlowArrives ==
  ASSUME RemuxInv, NEW pid \in Pids, NEW i \in 1..Len(packets), Arrives(pid, i),
         NEW q \in Pids, q # pid, FlowWhole(q)
  PROVE  FlowWhole(q)'
<1>1. /\ calls' = calls /\ calling' = calling
      /\ \A g \in 1..Len(got) : got[g].pid = q =>
           /\ g \in 1..Len(got') /\ got'[g] = got[g]
           /\ R!IsOpen(g) => R!IsOpen(g)'
      /\ \A g \in 1..Len(got') : got'[g].pid = q =>
           g \in 1..Len(got) /\ got'[g] = got[g]
  BY OthersKept
<1>2. /\ packets' = packets /\ sent'[q] = sent[q]
      /\ \A n \in 1..Len(source) : source'[n] = source[n]
  BY ArrivalFacts
<1>3. queue' = queue
  BY DEF Arrives, vars
<1> QED BY <1>1, <1>2, <1>3, FlowKept

(* The next packet that waits is one that advances its PID.                *)
LEMMA NextAdvances ==
  ASSUME SenderInv, RemuxTypeOK, NEW pid \in Pids, NEW i \in Waiting(pid),
         IsNext(i, pid), Receive(i), calling,
         sent' = [sent EXCEPT ![pid] = i], UNCHANGED vars, lost' = lost
  PROVE  i \in 1..Len(packets) /\ Advances(pid, i)
<1>1. Len(packets) \in Nat /\ sent[pid] \in Nat
  BY PacketFacts DEF RemuxTypeOK
<1>2. i \in (sent[pid] + 1)..Len(packets) /\ packets[i].pid = pid
  BY DEF Waiting
<1>3. i \in 1..Len(packets) /\ sent[pid] < i /\ sent[pid] <= i /\ i \in Nat
  BY <1>1, <1>2
<1>4. ASSUME NEW s \in 1..Len(packets), s < i, packets[s].pid = pid
      PROVE  s <= sent[pid]
  <2>1. s \notin Waiting(pid)
    <3>1. \A j \in Waiting(pid) : i <= j
      BY DEF IsNext
    <3> QED BY <1>1, <1>3, <1>4, <3>1
  <2> QED BY <1>1, <1>4, <2>1 DEF Waiting
<1> QED BY <1>2, <1>3, <1>4 DEF Advances, Arrives

-----------------------------------------------------------------------------
LEMMA NothingYet ==
  ASSUME NEW pid \in Pids, Len(got) = 0, sent[pid] = 0, Len(packets) \in Nat
  PROVE  FlowWhole(pid)
<1>1. \A s \in 1..Len(packets) : ~(s <= sent[pid])
  OBVIOUS
<1> QED BY <1>1 DEF FlowWhole

LEMMA FlowInvInit == RemuxInit => FlowInv
<1> SUFFICES ASSUME RemuxInit PROVE FlowInv
  OBVIOUS
<1>1. RemuxInv /\ Len(packets) \in Nat
  BY RemuxInvInit, PacketFacts DEF RemuxInv
<1>2. /\ got = <<>> /\ calls = 0 /\ calling = FALSE
      /\ \A pid \in Pids : sent[pid] = 0
  BY DEF RemuxInit, R!Init
<1>3. Len(got) = 0
  BY <1>2
<1>4. OneCall
  <2>1. calls # 1
    BY <1>2
  <2>2. calling \in BOOLEAN /\ ~calling
    BY <1>2
  <2> QED BY <1>2, <1>3, <2>1, <2>2 DEF OneCall, Received
<1> QED BY <1>1, <1>2, <1>3, <1>4, NothingYet DEF FlowInv

(* Where a step leaves the units of every clean PID alone.                 *)
LEMMA AllKept ==
  ASSUME FlowInv, UNCHANGED vars, UNCHANGED <<got, source, sent, lost, repeated>>,
         calling' => calling /\ incomplete' = incomplete,
         NEW q \in Pids, Clean(q)'
  PROVE  FlowWhole(q)'
<1>1. packets' = packets /\ queue' = queue
  BY DEF vars
<1>2. FlowWhole(q)
  BY <1>1 DEF FlowInv, Clean
<1>3. \A g : calling' /\ R!IsOpen(g) => R!IsOpen(g)'
  BY DEF R!IsOpen
<1> QED BY <1>1, <1>2, <1>3, FlowKept DEF FlowInv

LEMMA FlowInvStep == FlowInv /\ [RemuxNext]_remuxVars => FlowInv'
<1> SUFFICES ASSUME FlowInv, [RemuxNext]_remuxVars
             PROVE  FlowInv'
  OBVIOUS
<1>1. RemuxInv /\ OneCall /\ RemuxInv'
  BY RemuxInvStep DEF FlowInv
<1>2. /\ Len(packets) \in Nat /\ Len(packets') \in Nat /\ calls \in Nat
      /\ sent \in [Pids -> Nat]
  BY <1>1, PackedElements DEF RemuxInv, RemuxTypeOK, SenderInv, PackInv
<1> SUFFICES OneCall' /\ \A q \in Pids : Clean(q)' => FlowWhole(q)'
  BY <1>1 DEF FlowInv
<1>3. CASE Pack
  <2>1. UNCHANGED <<got, calls, calling, sent>>
    BY <1>3 DEF Pack, receiver, channel
  <2>2. ~Packed
    <3>1. at \in Nat /\ Len(queue) \in Nat
      BY <1>1, LenProperties DEF RemuxInv, SenderInv, PackInv, TypeOK
    <3>2. at <= Len(queue)
      BY <1>3 DEF Pack, Next, PackPacket, NextUnit
    <3> QED BY <3>1, <3>2 DEF Packed
  <2>3. calls = 0 /\ Len(got) = 0 /\ \A q \in Pids : sent[q] = 0
    BY <1>1, <2>2 DEF OneCall
  <2>4. OneCall'
    BY <1>1, <2>1, <2>3 DEF OneCall, Received
  <2>5. ASSUME NEW q \in Pids PROVE FlowWhole(q)'
    <3>1. Len(got') = 0 /\ sent'[q] = 0
      BY <2>1, <2>3
    <3>2. \A s \in 1..Len(packets') : ~(s <= sent'[q])
      BY <1>2, <3>1
    <3> QED BY <3>1, <3>2 DEF FlowWhole
  <2> QED BY <2>4, <2>5
<1>4. CASE Begin
  <2>1. /\ Packed /\ calls < 1 /\ ~calling
        /\ calls' = calls + 1 /\ calling' = TRUE /\ got' = got
        /\ UNCHANGED vars /\ UNCHANGED channel
    BY <1>4 DEF Begin, R!BeginUnpack
  <2>2. calls = 0 /\ calls' = 1 /\ Packed'
    BY <1>2, <2>1 DEF Packed, vars
  <2>3. Len(got) = 0 /\ \A q \in Pids : sent[q] = 0
    BY <1>1, <2>2 DEF OneCall
  <2>4. OneCall'
    BY <2>1, <2>2 DEF OneCall, Received
  <2>5. ASSUME NEW q \in Pids PROVE FlowWhole(q)'
    <3>1. Len(got') = 0 /\ sent'[q] = 0
      BY <2>1, <2>3 DEF channel
    <3>2. \A s \in 1..Len(packets') : ~(s <= sent'[q])
      BY <1>2, <3>1
    <3> QED BY <3>1, <3>2 DEF FlowWhole
  <2> QED BY <2>4, <2>5
<1>5. CASE Deliver
  <2>0. PICK pid \in Pids : \E i \in Waiting(pid) :
          /\ IsNext(i, pid)
          /\ Receive(i)
          /\ sent' = [sent EXCEPT ![pid] = i]
          /\ UNCHANGED vars /\ UNCHANGED <<lost, repeated>> /\ calling
    BY <1>5 DEF Deliver
  <2>1. PICK i \in Waiting(pid) :
          /\ IsNext(i, pid)
          /\ Receive(i)
          /\ sent' = [sent EXCEPT ![pid] = i]
          /\ UNCHANGED vars /\ UNCHANGED <<lost, repeated>> /\ calling
    BY <2>0
  <2>2. i \in 1..Len(packets) /\ Advances(pid, i)
    BY <1>1, <2>1, NextAdvances DEF RemuxInv
  <2>3. Arrives(pid, i) /\ Packed /\ calls = 1
    BY <1>1, <2>2, <2>1 DEF Advances, OneCall
  <2>4. packets' = packets /\ queue' = queue /\ Packed'
    BY <2>1, <2>3 DEF vars, Packed
  <2>5. ASSUME NEW q \in Pids, Clean(q)' PROVE FlowWhole(q)'
    <3>1. FlowWhole(q)
      BY <2>1, <2>4, <2>5 DEF FlowInv, Clean
    <3>2. CASE q = pid
      BY <1>1, <2>2, <2>3, <2>4, <3>1, <3>2, FlowAdvances
    <3>3. CASE q # pid
      BY <1>1, <2>2, <2>3, <3>1, <3>3, FlowArrives
    <3> QED BY <3>2, <3>3
  <2>6. calls' = 1 /\ calling' = TRUE
    <3>1. PICK p : R!OpenUnit(p) \/ R!ExtendUnit(p) \/ R!DropPacket(p)
      BY <2>1 DEF Receive
    <3> QED BY <1>1, <2>3, <3>1
            DEF R!OpenUnit, R!ExtendUnit, R!DropPacket, R!Feed, OneCall
  <2>7. OneCall'
    BY <2>4, <2>6 DEF OneCall, Received
  <2> QED BY <2>5, <2>7
<1>6. CASE Lose
  <2>0. PICK pid \in Pids : \E i \in Waiting(pid) :
          /\ sent' = [sent EXCEPT ![pid] = i]
          /\ lost' = lost \cup {i}
          /\ UNCHANGED vars /\ UNCHANGED receiver /\ UNCHANGED <<source, repeated>>
    BY <1>6 DEF Lose
  <2>1. PICK i \in Waiting(pid) :
          /\ sent' = [sent EXCEPT ![pid] = i]
          /\ lost' = lost \cup {i}
          /\ UNCHANGED vars /\ UNCHANGED receiver /\ UNCHANGED <<source, repeated>>
    BY <2>0
  <2>2. /\ packets' = packets /\ queue' = queue /\ packets[i].pid = pid
        /\ UNCHANGED <<got, incomplete, calls, calling>>
    BY <2>1 DEF vars, receiver, Waiting
  <2>3. ASSUME NEW q \in Pids, Clean(q)' PROVE FlowWhole(q)'
    <3>1. q # pid
      BY <2>1, <2>2, <2>3 DEF Clean
    <3>2. FlowWhole(q)
      BY <2>1, <2>2, <2>3 DEF FlowInv, Clean
    <3>3. sent'[q] = sent[q]
      BY <1>2, <2>1, <3>1
    <3>4. \A g : R!IsOpen(g)' <=> R!IsOpen(g)
      BY <2>2 DEF R!IsOpen
    <3> QED BY <1>1, <2>1, <2>2, <3>2, <3>3, <3>4, FlowKept
  <2>4. calling /\ Packed'
    BY <1>1, <1>6, <2>1 DEF Lose, OneCall, Packed, vars
  <2>5. OneCall'
    BY <1>1, <2>2, <2>4 DEF OneCall, Received
  <2> QED BY <2>3, <2>5
<1>7. CASE Repeat
  <2>1. PICK pid \in Pids :
          /\ calling /\ sent[pid] # 0
          /\ Receive(sent[pid])
          /\ repeated' = repeated \cup {sent[pid]}
          /\ UNCHANGED vars /\ UNCHANGED <<sent, lost>>
    BY <1>7 DEF Repeat
  <2>2. PICK i : i = sent[pid]
    OBVIOUS
  <2>3. i \in 1..Len(packets) /\ packets[i].pid = pid
    BY <1>1, <1>2, <2>1, <2>2 DEF RemuxInv, InReach
  <2>4. Arrives(pid, i)
    <3>1. sent' = [sent EXCEPT ![pid] = i]
      BY <1>2, <2>1, <2>2
    <3>2. Receive(i)
      BY <2>1, <2>2 DEF Receive
    <3>3. \A s \in 1..Len(packets) : s < i => s <= sent[pid]
      BY <1>2, <2>2
    <3>4. sent[pid] <= i
      BY <1>2, <2>2
    <3> QED BY <2>1, <2>3, <3>1, <3>2, <3>3, <3>4 DEF Arrives
  <2>5. packets' = packets
    BY <2>1 DEF vars
  <2>6. ASSUME NEW q \in Pids, Clean(q)' PROVE FlowWhole(q)'
    <3>1. q # pid
      BY <2>1, <2>2, <2>3, <2>5, <2>6 DEF Clean
    <3>2. FlowWhole(q)
      BY <2>1, <2>5, <2>6 DEF FlowInv, Clean
    <3> QED BY <1>1, <2>3, <2>4, <3>1, <3>2, FlowArrives
  <2>7. calls' = calls /\ calling' = calling
    <3>1. PICK p : R!OpenUnit(p) \/ R!ExtendUnit(p) \/ R!DropPacket(p)
      BY <2>1 DEF Receive
    <3> QED BY <3>1 DEF R!OpenUnit, R!ExtendUnit, R!DropPacket, R!Feed
  <2>8. OneCall'
    <3>1. calling /\ calls = 1 /\ Packed /\ Packed'
      BY <1>1, <2>1 DEF OneCall, Packed, vars
    <3> QED BY <2>7, <3>1 DEF OneCall, Received
  <2> QED BY <2>6, <2>8
<1>8. CASE Finish
  <2>1. /\ Drained /\ calling /\ calling' = FALSE
        /\ UNCHANGED vars /\ UNCHANGED channel
        /\ got' = got /\ calls' = calls
    BY <1>8 DEF Finish, R!EndUnpack
  <2>2. \A q \in Pids : Clean(q)' => FlowWhole(q)'
    BY <2>1, AllKept DEF channel
  <2>3. Drained'
    BY <2>1 DEF Drained, Waiting, vars, channel
  <2>4. calls' = 1 /\ Packed'
    BY <1>1, <2>1 DEF OneCall, Packed, vars
  <2>5. calls' # 0
    BY <2>4
  <2>6. OneCall'
    BY <2>1, <2>3, <2>4, <2>5 DEF OneCall
  <2> QED BY <2>2, <2>6
<1>9. CASE UNCHANGED remuxVars
  <2>1. UNCHANGED vars /\ UNCHANGED receiver /\ UNCHANGED channel
    BY <1>9 DEF remuxVars
  <2>2. \A q \in Pids : Clean(q)' => FlowWhole(q)'
    BY <2>1, AllKept DEF receiver, channel
  <2>3. /\ UNCHANGED <<at, queue, packets, sent>>
        /\ UNCHANGED <<calls, calling, got>>
    BY <2>1 DEF vars, receiver, channel
  <2>4. (Drained' <=> Drained) /\ (Packed' <=> Packed)
    BY <2>3 DEF Drained, Waiting, Packed
  <2>5. /\ calling' \in BOOLEAN
        /\ calling' => calls' = 1
        /\ calls' # 0 => Packed'
        /\ Received' => Drained'
    BY <1>1, <2>3, <2>4 DEF OneCall, Received
  <2>6. calls' = 0 => Len(got') = 0 /\ \A pid \in Pids : sent'[pid] = 0
    BY <1>1, <2>3 DEF OneCall
  <2>7. OneCall'
    BY <2>5, <2>6 DEF OneCall
  <2> QED BY <2>2, <2>7
<1> QED BY <1>3, <1>4, <1>5, <1>6, <1>7, <1>8, <1>9 DEF RemuxNext

-----------------------------------------------------------------------------
(* The packets of a unit received that has its last one are those of a     *)
(* unit sent, from its first byte to its last.                             *)
LEMMA CopyFacts ==
  ASSUME FlowInv, NEW g \in 1..Len(got), GrownAt(g), EndsUnit(LastPiece(g))
  PROVE  /\ Piece(g, 1) \in 1..Len(packets) /\ packets[Piece(g, 1)].start
         /\ packets[Piece(g, 1)].pid = got[g].pid
         /\ Origin(got[g]) = packets[Piece(g, 1)].unit
         /\ IsCopy(got[g], Origin(got[g]))
<1>0. RemuxInv /\ SenderInv
  BY DEF FlowInv, RemuxInv
<1>1. BegunAt(g) /\ got[g] \in R!UnitType
  BY <1>0, ElementOfSeq DEF RemuxInv, RemuxTypeOK, UnitsReceived
<1>2. Len(got[g].data) \in Nat
  BY <1>1, LenProperties DEF R!UnitType
<1>3. PICK n \in Nat \ {0} : n = Len(got[g].data)
  BY <1>1, <1>2 DEF BegunAt
<1>4. 1 \in 1..n /\ n \in 1..n /\ \A a \in 1..(n - 1) : a \in 1..n /\ a + 1 \in 1..n
  OBVIOUS
<1>5. \A a \in 1..n : /\ Piece(g, a) \in 1..Len(packets)
                      /\ packets[Piece(g, a)].pid = got[g].pid
  <2> SUFFICES ASSUME NEW a \in 1..n
               PROVE  /\ Piece(g, a) \in 1..Len(packets)
                      /\ packets[Piece(g, a)].pid = got[g].pid
    OBVIOUS
  <2>1. got[g].data[a] \in 1..Len(source)
    BY <1>1, <1>3 DEF BegunAt
  <2> QED BY <1>0, <1>1, <1>3, <2>1 DEF BegunAt, Piece, RemuxInv, InReach
<1>6. PICK f \in 1..Len(packets) : f = Piece(g, 1)
  BY <1>4, <1>5
<1>7. packets[f].start /\ packets[f].pid = got[g].pid
  BY <1>1, <1>4, <1>5, <1>6 DEF BegunAt
<1>8. PICK s : s = [a \in 1..n |-> packets[Piece(g, a)]]
  OBVIOUS
<1>9. Pieces(got[g]) = s
  BY <1>3, <1>8 DEF Pieces, Piece
<1>10. Len(s) = n /\ \A a \in 1..n : s[a] = packets[Piece(g, a)]
  BY <1>8
<1>11. PICK k : k = packets[f].unit
  OBVIOUS
<1>12. Origin(got[g]) = k
  BY <1>4, <1>6, <1>9, <1>10, <1>11 DEF Origin
<1>13. \A a \in 1..n : s[a].unit = k
  BY <1>3, <1>6, <1>10, <1>11 DEF GrownAt
<1>14. s[1].from = 0
  BY <1>0, <1>4, <1>6, <1>7, <1>10, PacketFacts
<1>15. ASSUME NEW a \in 1..(n - 1)
       PROVE  s[a + 1].from = s[a].from + s[a].size
  <2>1. PICK i \in 1..Len(packets) : i = Piece(g, a)
    BY <1>4, <1>5
  <2>2. Piece(g, a + 1) = i + 1
    BY <1>3, <2>1 DEF GrownAt
  <2>3. i + 1 \in 1..Len(packets) /\ s[a] = packets[i] /\ s[a + 1] = packets[i + 1]
    BY <1>4, <1>5, <1>10, <2>1, <2>2
  <2>4. packets[i + 1].unit = packets[i].unit
    BY <1>4, <1>13, <2>3
  <2>5. packets[i].unit \in Nat
    BY <1>0, PacketFacts
  <2> QED BY <1>0, <2>3, <2>4, <2>5, NextPacket
<1>16. s[n].from + s[n].size = queue[k].size
  <2>1. LastPiece(g) = Piece(g, n)
    BY <1>3 DEF LastPiece
  <2>2. s[n] = packets[LastPiece(g)] /\ s[n].unit = k
    BY <1>4, <1>10, <1>13, <2>1
  <2> QED BY <2>2 DEF EndsUnit
<1>17. /\ got[g].pid = queue[k].pid
       /\ got[g].rai = queue[k].rai /\ got[g].pcr = queue[k].pcr
  <2>1. got[g].rai = packets[f].rai /\ got[g].pcr = packets[f].pcr
    BY <1>6 DEF GrownAt
  <2>2. /\ packets[f].rai <=> (packets[f].start /\ queue[k].rai)
        /\ packets[f].pcr = IF packets[f].start THEN queue[k].pcr ELSE {}
        /\ packets[f].pid = queue[k].pid
    BY <1>0, <1>11 DEF SenderInv, PackInv, PacketsCover
  <2>3. packets[f].rai \in BOOLEAN /\ queue[k].rai \in BOOLEAN
    <3>1. packets[f] \in PackedType /\ k \in 1..Len(queue) /\ queue \in Seq(Units)
      BY <1>0, <1>11, PackedElements, PacketFacts DEF SenderInv, PackInv, TypeOK
    <3>2. queue[k] \in UnitRecord
      BY <3>1, ElementOfSeq, PackAssumption
    <3> QED BY <3>1, <3>2 DEF PackedType, UnitRecord
  <2> QED BY <1>7, <2>1, <2>2, <2>3
<1>18. IsCopy(got[g], k)
  BY <1>9, <1>10, <1>13, <1>14, <1>15, <1>16, <1>17 DEF IsCopy
<1> QED BY <1>6, <1>7, <1>11, <1>12, <1>18

LEMMA CleanArrives ==
  ASSUME FlowInv, Received, NEW pid \in Pids, Clean(pid)
  PROVE  AllArrived(pid)
<1> DEFINE ours == {k \in 1..Len(queue) : queue[k].pid = pid /\ queue[k].size > 0}
           theirs == {g \in 1..Len(got) : got[g].pid = pid}
<1>1. /\ RemuxInv /\ SenderInv /\ Packed /\ Drained /\ FlowWhole(pid)
      /\ Len(packets) \in Nat /\ sent[pid] \in Nat
  <2>1. RemuxInv /\ OneCall /\ FlowWhole(pid)
    BY DEF FlowInv
  <2>2. calls = 1 /\ calls # 0
    BY DEF Received
  <2>3. Packed /\ Drained
    BY <2>1, <2>2 DEF OneCall
  <2> QED BY <2>1, <2>3, PacketFacts DEF RemuxInv, RemuxTypeOK
<1>2. \A s \in 1..Len(packets) : packets[s].pid = pid => s <= sent[pid]
  <2> SUFFICES ASSUME NEW s \in 1..Len(packets), packets[s].pid = pid
               PROVE  s <= sent[pid]
    OBVIOUS
  <2>1. s \notin Waiting(pid)
    BY <1>1 DEF Drained
  <2> QED BY <1>1, <2>1 DEF Waiting
<1>3. ASSUME NEW g \in theirs
      PROVE  /\ Piece(g, 1) \in 1..Len(packets) /\ packets[Piece(g, 1)].start
             /\ Origin(got[g]) = packets[Piece(g, 1)].unit
             /\ Origin(got[g]) \in ours /\ IsCopy(got[g], Origin(got[g]))
  <2>1. GrownAt(g) /\ WholeAt(g)
    BY <1>1 DEF FlowWhole
  <2>2. EndsUnit(LastPiece(g))
    <3> SUFFICES ASSUME ~EndsUnit(LastPiece(g)) PROVE FALSE
      OBVIOUS
    <3>1. LastPiece(g) = sent[pid]
      BY <2>1 DEF WholeAt
    <3>2. PICK s \in 1..Len(packets) : s = LastPiece(g) /\ packets[s].pid = pid
      BY <1>1, LastIsSent
    <3>3. s + 1 \in 1..Len(packets) /\ packets[s + 1].pid = pid
      BY <1>1, <3>2, UnitGoesOn
    <3>4. s + 1 <= s /\ s \in Nat
      BY <1>1, <1>2, <3>1, <3>2, <3>3
    <3> QED BY <3>4
  <2>3. /\ Piece(g, 1) \in 1..Len(packets) /\ packets[Piece(g, 1)].start
        /\ packets[Piece(g, 1)].pid = pid
        /\ Origin(got[g]) = packets[Piece(g, 1)].unit
        /\ IsCopy(got[g], Origin(got[g]))
    BY <2>1, <2>2, CopyFacts
  <2>4. PICK f \in 1..Len(packets) : f = Piece(g, 1)
    BY <2>3
  <2>5. /\ packets[f].unit \in 1..Len(queue)
        /\ queue[packets[f].unit].pid = pid
        /\ queue[packets[f].unit].size \in Nat
        /\ packets[f].from \in Nat /\ packets[f].size \in Nat \ {0}
    BY <1>1, <2>3, <2>4, PacketFacts
  <2>6. packets[f].from + packets[f].size <= queue[packets[f].unit].size
    BY <1>1 DEF SenderInv, WithinUnit
  <2>7. queue[packets[f].unit].size > 0
    BY <2>5, <2>6
  <2> QED BY <2>3, <2>4, <2>5, <2>7
<1>4. ASSUME NEW g \in theirs, NEW h \in theirs, g < h
      PROVE  Origin(got[g]) < Origin(got[h])
  <2>1. Piece(g, 1) < Piece(h, 1)
    BY <1>1, <1>4 DEF FlowWhole
  <2> QED BY <1>1, <1>3, <2>1, StartIsFirst
<1>5. ASSUME NEW k \in ours
      PROVE  \E g \in theirs : Origin(got[g]) = k
  <2>1. k \in 1..(at - 1) /\ queue[k].size # 0
    <3>1. at \in Nat /\ Len(queue) \in Nat /\ at > Len(queue)
      BY <1>1, LenProperties DEF SenderInv, PackInv, TypeOK, Packed
    <3>2. k \in 1..Len(queue) /\ queue[k].size > 0
      OBVIOUS
    <3>3. queue[k].size # 0
      BY <3>2
    <3> QED BY <3>1, <3>2, <3>3
  <2>2. PICK i \in 1..Len(packets) : packets[i].unit = k
    BY <1>1, <2>1 DEF SenderInv, PackInv, PacketsCover
  <2>3. PICK s \in 1..i : packets[s].start /\ packets[s].unit = k
    BY <1>1, <2>2 DEF SenderInv, StartBefore
  <2>4. s \in 1..Len(packets)
    BY <1>1
  <2>5. packets[s].pid = pid
    BY <1>1, <2>3, <2>4, PacketFacts
  <2>6. s <= sent[pid]
    BY <1>2, <2>4, <2>5
  <2>7. PICK g \in theirs : Piece(g, 1) = s
    BY <1>1, <2>3, <2>4, <2>5, <2>6 DEF FlowWhole
  <2> QED BY <1>3, <2>3, <2>7
<1> QED BY <1>3, <1>4, <1>5 DEF AllArrived

(* ts_units_unpack, ts_units.c:66-94: for any units and packet size and    *)
(* any interleaving, what is lost or repeated on one PID leaves the units  *)
(* of every other as they were sent.                                       *)
THEOREM FaultsStayAlways == RemuxSpec => []FaultsStayOnTheirPid
<1>1. FlowInv => FaultsStayOnTheirPid
  BY CleanArrives DEF FaultsStayOnTheirPid, Clean
<1> QED BY <1>1, FlowInvInit, FlowInvStep, PTL DEF RemuxSpec

(* ts_units_pack then ts_units_unpack (ts_unit.c:37-68, ts_units.c:66-94): *)
(* for any units, packet size and interleaving of the PIDs, what no fault  *)
(* touched is received as it was sent.                                     *)
THEOREM RoundTripAlways == RemuxSpec => []RoundTrip
<1>1. FlowInv => RoundTrip
  <2> SUFFICES ASSUME FlowInv, Received, lost \cup repeated = {},
                      NEW pid \in Pids
               PROVE  AllArrived(pid)
    BY DEF RoundTrip
  <2>1. Clean(pid)
    BY DEF Clean
  <2> QED BY <2>1, CleanArrives
<1> QED BY <1>1, FlowInvInit, FlowInvStep, PTL DEF RemuxSpec

=============================================================================

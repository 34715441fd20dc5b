------------------------- MODULE StreamPack_proofs -------------------------
(***************************************************************************)
(* Proofs about StreamPack: the order of the merge, for any number of      *)
(* streams with timestamps in any order.                                   *)
(***************************************************************************)
EXTENDS StreamPack, FiniteSetTheorems, SequenceTheorems, TLAPS

(* What the constants say of a program, and of a packet in it.             *)
LEMMA ProgramFacts ==
  ASSUME program \in ProgramType
  PROVE  /\ Len(program.streams) \in Nat
         /\ program.pcr_pid \in Nat /\ program.program_pid \in Nat
         /\ \A i \in Streams :
              /\ program.streams[i].pid \in Nat
              /\ PacketsOf(i) \in Seq(PesType)
              /\ Len(PacketsOf(i)) \in Nat
              /\ \A k \in 1..Len(PacketsOf(i)) :
                   /\ Pes(i, k) \in PesType
                   /\ Pes(i, k).pts \in Nat
                   /\ Pes(i, k).rai \in BOOLEAN
<1>1. /\ program.streams \in Seq(StreamType)
      /\ program.pcr_pid \in Nat /\ program.program_pid \in Nat
  BY DEF ProgramType
<1>2. \A i \in Streams : program.streams[i] \in StreamType
  BY <1>1, ElementOfSeq DEF Streams
<1>3. \A i \in Streams : PacketsOf(i) \in Seq(PesType) /\ program.streams[i].pid \in Nat
  BY <1>2 DEF StreamType, PacketsOf
<1>4. ASSUME NEW i \in Streams, NEW k \in 1..Len(PacketsOf(i))
      PROVE  Pes(i, k) \in PesType
  BY <1>3, ElementOfSeq DEF Pes
<1>5. \A i \in Streams : \A k \in 1..Len(PacketsOf(i)) :
        Pes(i, k).pts \in Nat /\ Pes(i, k).rai \in BOOLEAN
  BY <1>4 DEF PesType
<1> QED BY <1>1, <1>3, <1>4, <1>5, LenProperties

(* The iterators are at packets, or at the end.                            *)
IteratorsOK ==
  /\ program \in ProgramType
  /\ next \in [Streams -> Nat \ {0}]
  /\ \A i \in Streams : next[i] <= Len(PacketsOf(i)) + 1

(* Taking the least of the streams' next packets.                          *)
LEMMA AdvanceFacts ==
  ASSUME IteratorsOK, NEW i \in Streams, Least(i), Advance(i), program' = program
  PROVE  /\ next[i] \in 1..Len(PacketsOf(i))
         /\ next' \in [Streams -> Nat \ {0}]
         /\ next'[i] = next[i] + 1
         /\ \A j \in Streams \ {i} : next'[j] = next[j]
         /\ IteratorsOK'
<1>1. next[i] \in Nat \ {0} /\ next[i] <= Len(PacketsOf(i))
  BY DEF IteratorsOK, Least, Ready
<1>2. Len(PacketsOf(i)) \in Nat
  BY ProgramFacts DEF IteratorsOK
<1>3. next' = [next EXCEPT ![i] = next[i] + 1]
  BY DEF Advance
<1>4. /\ next' \in [Streams -> Nat \ {0}]
      /\ next'[i] = next[i] + 1
      /\ \A j \in Streams \ {i} : next'[j] = next[j]
  BY <1>1, <1>3 DEF IteratorsOK
<1>5. Streams' = Streams /\ \A j : PacketsOf(j)' = PacketsOf(j)
  BY DEF Streams, PacketsOf
<1>6. \A j \in Streams : next'[j] <= Len(PacketsOf(j)) + 1
  BY <1>1, <1>2, <1>4 DEF IteratorsOK
<1>7. IteratorsOK'
  BY <1>4, <1>5, <1>6 DEF IteratorsOK, Streams, PacketsOf
<1> QED BY <1>1, <1>2, <1>4, <1>7

-----------------------------------------------------------------------------
(* a goes before b when timestamps decide, and ties go to stream i.        *)
Before(i, j, a, b) == IF i < j THEN a <= b ELSE a < b

LEMMA PrecedesFacts ==
  ASSUME program \in ProgramType, NEW i \in Streams, NEW j \in Streams,
         NEW k \in 1..Len(PacketsOf(i)), NEW l \in 1..Len(PacketsOf(j)),
         Before(i, j, Pes(i, k).pts, Pes(j, l).pts),
         k = 1 \/ Precedes(i, k - 1, j, l)
  PROVE  Precedes(i, k, j, l)
<1>1. /\ k \in Nat /\ l \in Nat /\ i \in Nat /\ j \in Nat
      /\ \A p \in 1..Len(PacketsOf(i)) : Pes(i, p).pts \in Nat
      /\ \A p \in 1..Len(PacketsOf(j)) : Pes(j, p).pts \in Nat
  BY ProgramFacts DEF Streams
<1>2. k \in 1..k /\ \A p \in 1..k : p = k \/ p \in 1..(k - 1)
  BY <1>1
<1>3. CASE k = 1
  <2>1. \A p \in 1..k : Before(i, j, Pes(i, p).pts, Pes(j, l).pts)
    BY <1>1, <1>3
  <2> QED BY <1>1, <2>1 DEF Precedes, Before
<1>4. CASE Precedes(i, k - 1, j, l)
  <2>1. PICK q \in 1..l :
          \A p \in 1..(k - 1) : Before(i, j, Pes(i, p).pts, Pes(j, q).pts)
    BY <1>4 DEF Precedes, Before
  <2>2. Pes(j, q).pts \in Nat /\ Pes(j, l).pts \in Nat /\ l \in 1..l
    BY <1>1
  <2>3. \A p \in 1..k : Pes(i, p).pts \in Nat
    BY <1>1
  <2>4. CASE Pes(j, q).pts <= Pes(j, l).pts
    <3>1. ASSUME NEW p \in 1..k
          PROVE  Before(i, j, Pes(i, p).pts, Pes(j, l).pts)
      <4>1. CASE p = k
        BY <4>1, <1>1
      <4>2. CASE p \in 1..(k - 1)
        <5>1. Before(i, j, Pes(i, p).pts, Pes(j, q).pts)
          BY <4>2, <2>1
        <5> QED BY <5>1, <2>2, <2>3, <2>4 DEF Before
      <4> QED BY <4>1, <4>2, <1>2
    <3> QED BY <2>2, <3>1 DEF Precedes, Before
  <2>5. CASE Pes(j, l).pts <= Pes(j, q).pts
    <3>1. ASSUME NEW p \in 1..k
          PROVE  Before(i, j, Pes(i, p).pts, Pes(j, q).pts)
      <4>1. CASE p = k
        <5>1. Before(i, j, Pes(i, p).pts, Pes(j, l).pts)
          BY <4>1, <1>1
        <5> QED BY <5>1, <2>2, <2>3, <2>5 DEF Before
      <4>2. CASE p \in 1..(k - 1)
        BY <4>2, <2>1
      <4> QED BY <4>1, <4>2, <1>2
    <3> QED BY <3>1 DEF Precedes, Before
  <2> QED BY <2>2, <2>4, <2>5
<1> QED BY <1>3, <1>4

(* The more of stream i is taken, and the less of stream j, the stronger.  *)
LEMMA PrecedesMonotone ==
  ASSUME NEW i, NEW j, NEW k \in Nat, NEW l \in Nat, Precedes(i, k, j, l),
         NEW m \in Nat, m <= k, NEW n \in Nat, l <= n
  PROVE  Precedes(i, m, j, n)
<1>1. 1..m \subseteq 1..k /\ 1..l \subseteq 1..n
  OBVIOUS
<1> QED BY <1>1 DEF Precedes

(* The first of the packets with the least timestamp goes before those     *)
(* that the other streams are at.                                          *)
LEMMA LeastFacts ==
  ASSUME IteratorsOK, NEW i \in Streams, Least(i), NEW j \in Streams, Ready(j), i # j
  PROVE  Before(i, j, Pes(i, next[i]).pts, Pes(j, next[j]).pts)
<1>1. i \in Nat /\ j \in Nat
  BY DEF Streams
<1>2. IF j < i THEN Pes(i, next[i]).pts < Pes(j, next[j]).pts
               ELSE Pes(i, next[i]).pts <= Pes(j, next[j]).pts
  BY DEF Least
<1> QED BY <1>1, <1>2 DEF Before

-----------------------------------------------------------------------------
(* What has been taken of a stream goes before what any other stream that  *)
(* can still be taken from is at: with it MergedByTime is inductive.       *)
Ahead(i, j) ==
  next[i] > 1 /\ Ready(j) => Precedes(i, next[i] - 1, j, next[j])

MergeInv ==
  /\ IteratorsOK
  /\ units \in Seq(PackedUnit)
  /\ \A a \in 1..Len(units) : IsPes(a) =>
       /\ units[a].stream \in Streams
       /\ units[a].nth \in 1..(next[units[a].stream] - 1)
  /\ \A i, j \in Streams : i # j => Ahead(i, j)
  /\ MergedByTime

LEMMA MergeInvInit == Init => MergeInv
<1> SUFFICES ASSUME Init PROVE MergeInv
  OBVIOUS
<1>1. program \in ProgramType
  BY ProgramsAssumption DEF Init
<1>2. /\ next \in [Streams -> Nat \ {0}]
      /\ \A i \in Streams : next[i] = 1
  BY DEF Init
<1>3. IteratorsOK
  BY <1>1, <1>2, ProgramFacts DEF IteratorsOK
<1>4. units \in Seq(PackedUnit) /\ Len(units) = 0
  BY EmptySeq DEF Init
<1> QED BY <1>2, <1>3, <1>4 DEF MergeInv, Ahead, MergedByTime

LEMMA AheadKept ==
  ASSUME MergeInv, NEW i \in Streams, Least(i), Advance(i), program' = program
  PROVE  \A x, y \in Streams : x # y => Ahead(x, y)'
<1>1. IteratorsOK /\ (\A x, y \in Streams : x # y => Ahead(x, y))
  BY DEF MergeInv
<1>2. /\ next[i] \in 1..Len(PacketsOf(i))
      /\ next'[i] = next[i] + 1
      /\ \A j \in Streams \ {i} : next'[j] = next[j]
  BY <1>1, AdvanceFacts
<1>3. \A x : next[x]' = next'[x] /\ PacketsOf(x)' = PacketsOf(x)
  BY DEF PacketsOf
<1>4. \A x, k, y, l : Precedes(x, k, y, l)' <=> Precedes(x, k, y, l)
  BY DEF Precedes, Pes, PacketsOf
<1>5. \A x \in Streams : next[x] \in Nat \ {0}
  BY <1>1 DEF IteratorsOK
<1>6. \A y \in Streams \ {i} : Ready(y)' <=> Ready(y)
  BY <1>2 DEF Ready, Pes, PacketsOf
<1> SUFFICES ASSUME NEW x \in Streams, NEW y \in Streams, x # y,
                    next'[x] > 1, Ready(y)'
             PROVE  Precedes(x, next'[x] - 1, y, next'[y])
  BY <1>4 DEF Ahead
<1>7. CASE x = i
  <2>1. /\ Ready(y) /\ next'[y] = next[y] /\ next'[x] - 1 = next[i]
        /\ next[y] \in 1..Len(PacketsOf(y))
    <3>1. Ready(y) /\ next'[y] = next[y]
      BY <1>2, <1>6, <1>7
    <3>2. Len(PacketsOf(y)) \in Nat
      BY <1>1, ProgramFacts DEF IteratorsOK
    <3>3. next[y] <= Len(PacketsOf(y))
      BY <3>1 DEF Ready
    <3> QED BY <1>2, <1>5, <1>7, <3>1, <3>2, <3>3
  <2>2. Before(i, y, Pes(i, next[i]).pts, Pes(y, next[y]).pts)
    BY <1>1, <1>7, <2>1, LeastFacts
  <2>3. next[i] = 1 \/ Precedes(i, next[i] - 1, y, next[y])
    BY <1>1, <1>5, <1>7, <2>1 DEF Ahead
  <2>4. Precedes(i, next[i], y, next[y])
    BY <1>1, <1>2, <2>1, <2>2, <2>3, PrecedesFacts DEF IteratorsOK
  <2> QED BY <1>7, <2>1, <2>4
<1>8. CASE x # i /\ y = i
  <2>1. Ready(i) /\ next'[x] = next[x] /\ next'[y] = next[i] + 1
    BY <1>2, <1>8 DEF Least
  <2>2. Precedes(x, next[x] - 1, i, next[i])
    BY <1>1, <1>8, <2>1 DEF Ahead
  <2>3. next[x] - 1 \in Nat /\ next[i] \in Nat
    BY <1>5
  <2>4. Precedes(x, next[x] - 1, i, next[i] + 1)
    BY <2>2, <2>3, PrecedesMonotone
  <2> QED BY <1>8, <2>1, <2>4
<1>9. CASE x # i /\ y # i
  <2>1. Ready(y) /\ next'[x] = next[x] /\ next'[y] = next[y]
    BY <1>2, <1>6, <1>9
  <2> QED BY <1>1, <2>1 DEF Ahead
<1> QED BY <1>7, <1>8, <1>9

LEMMA PesUnitType ==
  ASSUME IteratorsOK, NEW i \in Streams, Least(i)
  PROVE  PesUnit(i) \in PackedUnit
<1>1. next[i] \in 1..Len(PacketsOf(i)) /\ next[i] \in Nat
  <2>1. next[i] \in Nat \ {0} /\ next[i] <= Len(PacketsOf(i))
    BY DEF IteratorsOK, Least, Ready
  <2> QED BY <2>1, ProgramFacts DEF IteratorsOK
<1>2. /\ Pes(i, next[i]).pts \in Nat /\ Pes(i, next[i]).rai \in BOOLEAN
      /\ program.streams[i].pid \in Nat /\ i \in Nat
  BY <1>1, ProgramFacts DEF IteratorsOK, Streams
<1>3. (IF CarriesPcr(i) THEN {Pes(i, next[i]).pts * 300} ELSE {}) \in SUBSET Int
  BY <1>2
<1> QED BY <1>1, <1>2, <1>3 DEF PesUnit, PackedUnit

LEMMA MergeInvPackPes ==
  ASSUME MergeInv, NEW i \in Streams, PackPes(i)
  PROVE  MergeInv'
<1> DEFINE L == Len(units)
<1>1. /\ Least(i) /\ Advance(i) /\ program' = program
      /\ units' = Append(units, PesUnit(i))
      /\ IteratorsOK /\ units \in Seq(PackedUnit) /\ L \in Nat
  BY LenProperties DEF PackPes, MergeInv
<1>2. /\ next[i] \in 1..Len(PacketsOf(i))
      /\ next'[i] = next[i] + 1
      /\ \A j \in Streams \ {i} : next'[j] = next[j]
      /\ IteratorsOK'
  BY <1>1, AdvanceFacts
<1>3. PesUnit(i) \in PackedUnit
  BY <1>1, PesUnitType
<1>4. /\ units' \in Seq(PackedUnit)
      /\ Len(units') = L + 1
      /\ \A a \in 1..L : units'[a] = units[a]
      /\ units'[L + 1] = PesUnit(i)
  BY <1>1, <1>3, AppendProperties
<1>5. /\ PesUnit(i).stream = i /\ PesUnit(i).nth = next[i]
      /\ PesUnit(i).kind = "pes"
  BY DEF PesUnit
<1>6. Streams' = Streams
  BY <1>1 DEF Streams
<1>7. \A x, k, y, l : Precedes(x, k, y, l)' <=> Precedes(x, k, y, l)
  BY <1>1 DEF Precedes, Pes, PacketsOf
<1>8. \A x, y \in Streams : x # y => Ahead(x, y)'
  BY <1>1, AheadKept
<1>9. \A j \in Streams : next[j] \in Nat \ {0}
  BY <1>1 DEF IteratorsOK
<1>0. L \in Nat
  BY <1>1
<1> HIDE DEF L
<1>10. ASSUME NEW a \in 1..L, units[a].kind = "pes"
       PROVE  units[a].stream \in Streams /\ units[a].nth \in 1..(next[units[a].stream] - 1)
  BY <1>10 DEF MergeInv, IsPes, L
<1>11. ASSUME NEW a \in 1..(L + 1), units'[a].kind = "pes"
       PROVE  /\ units'[a].stream \in Streams
              /\ units'[a].nth \in 1..(next'[units'[a].stream] - 1)
  <2>1. CASE a \in 1..L
    <3>1. units'[a] = units[a]
      BY <1>4, <2>1
    <3>2. PICK x, n : x = units[a].stream /\ n = units[a].nth
      OBVIOUS
    <3>3. x \in Streams /\ n \in 1..(next[x] - 1)
      BY <1>10, <1>11, <2>1, <3>1, <3>2
    <3>4. next'[x] >= next[x] /\ next'[x] \in Nat /\ next[x] \in Nat
      BY <1>2, <1>9, <3>3
    <3>5. n \in 1..(next'[x] - 1)
      BY <3>3, <3>4
    <3> QED BY <3>1, <3>2, <3>3, <3>5
  <2>2. CASE a = L + 1
    BY <1>2, <1>4, <1>5, <1>9, <2>2
  <2> QED BY <1>0, <2>1, <2>2
<1>12. ASSUME NEW a \in 1..(L + 1), NEW b \in 1..(L + 1), a < b,
              units'[a].kind = "pes", units'[b].kind = "pes",
              units'[a].stream # units'[b].stream
       PROVE  Precedes(units'[a].stream, units'[a].nth, units'[b].stream, units'[b].nth)
  <2>1. a \in 1..L /\ units'[a] = units[a]
    BY <1>1, <1>4, <1>12
  <2>2. CASE b \in 1..L
    <3>1. units'[b] = units[b]
      BY <1>4, <2>2
    <3>2. /\ units[a].kind = "pes" /\ units[b].kind = "pes"
          /\ units[a].stream # units[b].stream
      BY <1>12, <2>1, <3>1
    <3>3. Precedes(units[a].stream, units[a].nth, units[b].stream, units[b].nth)
      BY <1>12, <2>1, <2>2, <3>2 DEF MergeInv, MergedByTime, IsPes, L
    <3> QED BY <2>1, <3>1, <3>3
  <2>3. CASE b = L + 1
    <3>1. PICK x, n : x = units[a].stream /\ n = units[a].nth
      OBVIOUS
    <3>2. x \in Streams /\ n \in 1..(next[x] - 1)
      BY <1>10, <1>12, <2>1, <3>1
    <3>3. units'[b].stream = i /\ units'[b].nth = next[i] /\ x # i
      BY <1>4, <1>5, <1>12, <2>1, <2>3, <3>1
    <3>4. next[x] \in Nat /\ next[i] \in Nat /\ next[x] > 1 /\ n \in Nat /\ n <= next[x] - 1
      BY <1>9, <3>2
    <3>5. Precedes(x, next[x] - 1, i, next[i])
      BY <1>1, <3>2, <3>3, <3>4 DEF MergeInv, Ahead, Least
    <3>6. Precedes(x, n, i, next[i])
      <4>1. next[x] - 1 \in Nat
        BY <3>4
      <4> QED BY <3>4, <3>5, <4>1, PrecedesMonotone
    <3> QED BY <2>1, <3>1, <3>3, <3>6
  <2> QED BY <1>0, <2>2, <2>3
<1>13. MergedByTime'
  BY <1>4, <1>7, <1>12 DEF MergedByTime, IsPes
<1>14. \A a \in 1..Len(units') : IsPes(a)' =>
         /\ units'[a].stream \in Streams
         /\ units'[a].nth \in 1..(next'[units'[a].stream] - 1)
  BY <1>4, <1>11 DEF IsPes
<1> QED BY <1>2, <1>4, <1>6, <1>8, <1>13, <1>14 DEF MergeInv

(* The units do not change, or a table is added.                           *)
LEMMA MergeInvTable ==
  ASSUME MergeInv, NEW kind \in {"pat", "pmt"}, NEW pid \in Nat,
         units' = Append(units, Table(kind, pid)), UNCHANGED <<program, next>>
  PROVE  MergeInv'
<1> DEFINE L == Len(units)
<1>1. IteratorsOK /\ units \in Seq(PackedUnit) /\ L \in Nat
  BY LenProperties DEF MergeInv
<1>2. Table(kind, pid) \in PackedUnit /\ Table(kind, pid).kind # "pes"
  BY DEF Table, PackedUnit
<1>3. /\ units' \in Seq(PackedUnit)
      /\ Len(units') = L + 1
      /\ \A a \in 1..L : units'[a] = units[a]
      /\ units'[L + 1] = Table(kind, pid)
  BY <1>1, <1>2, AppendProperties
<1>4. /\ Streams' = Streams
      /\ \A x, k, y, l : Precedes(x, k, y, l)' <=> Precedes(x, k, y, l)
      /\ \A x, y : Ahead(x, y)' <=> Ahead(x, y)
      /\ IteratorsOK'
  BY <1>1 DEF Streams, Precedes, Pes, PacketsOf, Ahead, Ready, IteratorsOK
<1>5. \A a \in 1..(L + 1) : units'[a].kind = "pes" => a \in 1..L
  BY <1>1, <1>2, <1>3
<1> HIDE DEF L
<1>6. MergedByTime'
  <2> SUFFICES ASSUME NEW a \in 1..(L + 1), NEW b \in 1..(L + 1), a < b,
                      units'[a].kind = "pes", units'[b].kind = "pes",
                      units'[a].stream # units'[b].stream
               PROVE  Precedes(units'[a].stream, units'[a].nth,
                               units'[b].stream, units'[b].nth)
    BY <1>3, <1>4 DEF MergedByTime, IsPes
  <2>1. a \in 1..L /\ b \in 1..L
    BY <1>5
  <2> QED BY <1>3, <2>1 DEF MergeInv, MergedByTime, IsPes, L
<1>7. \A a \in 1..Len(units') : IsPes(a)' =>
        /\ units'[a].stream \in Streams
        /\ units'[a].nth \in 1..(next'[units'[a].stream] - 1)
  BY <1>3, <1>5 DEF MergeInv, IsPes, L
<1> QED BY <1>3, <1>4, <1>6, <1>7 DEF MergeInv

LEMMA MergeInvPackPesFails ==
  ASSUME MergeInv, NEW i \in Streams, PackPesFails(i)
  PROVE  MergeInv'
<1>1. /\ Least(i) /\ Advance(i) /\ program' = program /\ units' = units
      /\ IteratorsOK
  BY DEF PackPesFails, MergeInv
<1>2. /\ next'[i] = next[i] + 1
      /\ \A j \in Streams \ {i} : next'[j] = next[j]
      /\ IteratorsOK'
  BY <1>1, AdvanceFacts
<1>3. /\ Streams' = Streams
      /\ \A x, k, y, l : Precedes(x, k, y, l)' <=> Precedes(x, k, y, l)
  BY <1>1 DEF Streams, Precedes, Pes, PacketsOf
<1>4. \A x, y \in Streams : x # y => Ahead(x, y)'
  BY <1>1, AheadKept
<1>5. \A j \in Streams : next[j] \in Nat \ {0}
  BY <1>1 DEF IteratorsOK
<1>6. MergedByTime'
  BY <1>1, <1>3 DEF MergeInv, MergedByTime, IsPes
<1>7. ASSUME NEW a \in 1..Len(units), units[a].kind = "pes"
      PROVE  /\ units[a].stream \in Streams
             /\ units[a].nth \in 1..(next'[units[a].stream] - 1)
  <2>1. PICK x : x = units[a].stream
    OBVIOUS
  <2>2. x \in Streams /\ units[a].nth \in 1..(next[x] - 1)
    BY <1>7, <2>1 DEF MergeInv, IsPes
  <2>3. next'[x] >= next[x] /\ next'[x] \in Nat /\ next[x] \in Nat
    BY <1>2, <1>5, <2>2
  <2> QED BY <2>1, <2>2, <2>3
<1>8. units' \in Seq(PackedUnit)
  BY <1>1 DEF MergeInv
<1> QED BY <1>1, <1>2, <1>3, <1>4, <1>6, <1>7, <1>8 DEF MergeInv, IsPes

LEMMA MergeInvStep == MergeInv /\ [Next]_vars => MergeInv'
<1>1. ASSUME MergeInv, UNCHANGED <<program, next, units>>
      PROVE  MergeInv'
  <2>1. /\ IteratorsOK /\ units \in Seq(PackedUnit) /\ MergedByTime
        /\ \A a \in 1..Len(units) : IsPes(a) =>
             /\ units[a].stream \in Streams
             /\ units[a].nth \in 1..(next[units[a].stream] - 1)
        /\ \A i, j \in Streams : i # j => Ahead(i, j)
    BY <1>1 DEF MergeInv
  <2>2. program' = program /\ next' = next /\ units' = units
    BY <1>1
  <2>3. Streams' = Streams /\ IteratorsOK'
    BY <2>1, <2>2 DEF IteratorsOK, Streams, PacketsOf
  <2>4. \A i, k, j, l : Precedes(i, k, j, l)' <=> Precedes(i, k, j, l)
    BY <2>2, SMTT(30) DEF Precedes, Pes, PacketsOf
  <2>5. \A i, j : Ahead(i, j)' <=> Ahead(i, j)
    <3>1. \A j : Ready(j)' <=> Ready(j)
      BY <2>2, SMTT(30) DEF Ready, Pes, PacketsOf
    <3> QED BY <2>2, <2>4, <3>1, Zenon DEF Ahead
  <2>6. MergedByTime'
    BY <2>1, <2>2, <2>4, Zenon DEF MergedByTime, IsPes
  <2> QED BY <2>1, <2>2, <2>3, <2>5, <2>6, Zenon DEF MergeInv, IsPes
<1>2. ASSUME MergeInv, PackPat PROVE MergeInv'
  BY <1>2, MergeInvTable DEF PackPat
<1>3. ASSUME MergeInv, PackPmt PROVE MergeInv'
  <2>1. program.program_pid \in Nat
    BY <1>3, ProgramFacts DEF MergeInv, IteratorsOK
  <2> QED BY <1>3, <2>1, MergeInvTable DEF PackPmt
<1>4. ASSUME MergeInv, PackPatFails \/ PackPmtFails \/ PackEnds \/ UNCHANGED vars
      PROVE  MergeInv'
  BY <1>1, <1>4 DEF PackPatFails, PackPmtFails, PackEnds, Fail, vars
<1> QED BY <1>2, <1>3, <1>4, MergeInvPackPes, MergeInvPackPesFails DEF Next

(* ts_stream_pack_pes (ts_stream.c:291-300): the merge orders the packets  *)
(* of different streams by the latest timestamp seen on their own stream,  *)
(* for any number of streams with timestamps in any order.                 *)
THEOREM MergedByTimeAlways == Spec => []MergedByTime
<1>1. MergeInv => MergedByTime
  BY DEF MergeInv
<1> QED BY <1>1, MergeInvInit, MergeInvStep, PTL DEF Spec

-----------------------------------------------------------------------------
(* The rest of the state.                                                  *)
ControlOK ==
  /\ phase \in {"pat", "pmt", "pes", "done"}
  /\ pcr_recorded \in BOOLEAN
  /\ result \in {-1, 0, 1}

LEMMA ControlStep == ControlOK /\ [Next]_vars => ControlOK'
<1>1. ASSUME ControlOK, NEW i, Advance(i) PROVE pcr_recorded' \in BOOLEAN
  BY <1>1 DEF ControlOK, Advance
<1>2. ASSUME ControlOK, PackPat \/ PackPmt \/ UNCHANGED vars PROVE ControlOK'
  BY <1>2 DEF ControlOK, PackPat, PackPmt, vars
<1>3. ASSUME ControlOK, PackPatFails \/ PackPmtFails \/ PackEnds PROVE ControlOK'
  BY <1>3 DEF ControlOK, PackPatFails, PackPmtFails, PackEnds, Fail, Return
<1>4. ASSUME ControlOK, NEW i \in Streams, PackPes(i) PROVE ControlOK'
  BY <1>1, <1>4 DEF ControlOK, PackPes
<1>5. ASSUME ControlOK, NEW i \in Streams, PackPesFails(i) PROVE ControlOK'
  BY <1>1, <1>5 DEF ControlOK, PackPesFails, Return
<1> QED BY <1>2, <1>3, <1>4, <1>5 DEF Next

(* ts_stream_pack (ts_stream.c:377-387): no iterator passes the end of its *)
(* stream, where ts_stream.c:300 would follow it, and every unit made is a *)
(* table or a packet of a stream.                                          *)
THEOREM TypeCorrect == Spec => []TypeOK
<1>1. Init => ControlOK
  BY DEF Init, ControlOK
<1>2. MergeInv /\ ControlOK => TypeOK
  BY DEF MergeInv, IteratorsOK, ControlOK, TypeOK
<1> QED BY <1>1, <1>2, ControlStep, MergeInvInit, MergeInvStep, PTL DEF Spec

-----------------------------------------------------------------------------
(* The units of stream i in a list.                                        *)
OwnUnits(us, i) == {a \in 1..Len(us) : us[a].kind = "pes" /\ us[a].stream = i}

LEMMA OwnFacts ==
  ASSUME NEW us \in Seq(PackedUnit), NEW i
  PROVE  IsFiniteSet(OwnUnits(us, i)) /\ Cardinality(OwnUnits(us, i)) \in Nat
<1>1. IsFiniteSet(1..Len(us))
  BY LenProperties, FS_Interval
<1>2. OwnUnits(us, i) \in SUBSET (1..Len(us))
  BY DEF OwnUnits
<1> QED BY <1>1, <1>2, FS_Subset, FS_CardinalityType

(* A unit more at the end is the last of its own stream and leaves the     *)
(* numbers of those before it.                                             *)
LEMMA OwnGrows ==
  ASSUME units \in Seq(PackedUnit), NEW x, NEW L \in Nat,
         L = Len(units), Len(units') = L + 1, NEW i,
         \A a \in 1..L : units'[a] = units[a], units'[L + 1] = x
  PROVE  /\ ~(x.kind = "pes" /\ x.stream = i) => OwnUnits(units', i) = OwnUnits(units, i)
         /\ x.kind = "pes" /\ x.stream = i =>
              /\ OwnUnits(units', i) = OwnUnits(units, i) \cup {L + 1}
              /\ Cardinality(OwnUnits(units', i)) = Cardinality(OwnUnits(units, i)) + 1
<1>1. L \in Nat
  OBVIOUS
<1>2. OwnUnits(units, i) = {a \in 1..L : units[a].kind = "pes" /\ units[a].stream = i}
  BY DEF OwnUnits
<1>3. OwnUnits(units', i) = {a \in 1..(L + 1) : units'[a].kind = "pes" /\ units'[a].stream = i}
  BY DEF OwnUnits
<1>4. ~(x.kind = "pes" /\ x.stream = i) => OwnUnits(units', i) = OwnUnits(units, i)
  BY <1>1, <1>2, <1>3
<1>5. x.kind = "pes" /\ x.stream = i => OwnUnits(units', i) = OwnUnits(units, i) \cup {L + 1}
  BY <1>1, <1>2, <1>3
<1>6. L + 1 \notin OwnUnits(units, i)
  BY <1>1, <1>2
<1>7. Cardinality(OwnUnits(units, i) \cup {L + 1}) = Cardinality(OwnUnits(units, i)) + 1
  BY <1>6, OwnFacts, FS_AddElement
<1> QED BY <1>4, <1>5, <1>7

-----------------------------------------------------------------------------
(* Where the call is, and what the list holds by then.                     *)
PhasesInOrder ==
  /\ phase # "done" => result = 0
  /\ phase = "pat" => Len(units) = 0
  /\ phase = "pmt" => Len(units) = 1
  /\ phase = "pes" => 2 <= Len(units)

TablesFirst ==
  \A a \in 1..Len(units) :
    /\ units[a].kind = "pat" <=> a = 1
    /\ units[a].kind = "pmt" <=> a = 2

(* The units of a stream are its packets from the first.                   *)
Numbered ==
  \A i \in Streams : \A a \in OwnUnits(units, i) :
    /\ units[a].pid = program.streams[i].pid
    /\ units[a].nth = Cardinality({b \in OwnUnits(units, i) : b <= a})
    /\ units[a].nth < next[i]
    /\ units[a].rai = Pes(i, units[a].nth).rai

AllTaken ==
  \A i \in Streams : \A k \in 1..Cardinality(OwnUnits(units, i)) :
    \E a \in OwnUnits(units, i) : units[a].nth = k

NextIsCount ==
  result # -1 => \A i \in Streams : next[i] = Cardinality(OwnUnits(units, i)) + 1

(* No iterator has passed a packet without a timestamp, and a call that    *)
(* returns 1 leaves each at one or at the end.                             *)
PassedAreTimed ==
  \A i \in Streams : \A k \in 1..(next[i] - 1) : Pes(i, k).timed

EndNotReady == result = 1 => \A i \in Streams : ~Ready(i)

CauseFound ==
  result = -1 =>
    \/ program.program_pid = 0 /\ units = <<>>
    \/ SectionLength > MaxSection /\ Len(units) = 1
    \/ \E i \in Streams, k \in Nat :
         /\ k = Cardinality(OwnUnits(units, i)) + 1
         /\ k <= Len(PacketsOf(i)) /\ ~Pes(i, k).fits /\ ~Stuck(i, k)

OrderParts ==
  /\ PhasesInOrder /\ TablesFirst
  /\ Numbered /\ AllTaken /\ NextIsCount
  /\ PassedAreTimed /\ EndNotReady
  /\ CauseFound

OrderInv == MergeInv /\ ControlOK /\ OrderParts

LEMMA ProgramKept ==
  ASSUME program' = program
  PROVE  /\ Streams' = Streams /\ SectionLength' = SectionLength
         /\ \A i : PacketsOf(i)' = PacketsOf(i)
         /\ \A i, k : Pes(i, k)' = Pes(i, k)
         /\ \A i, k : Stuck(i, k)' <=> Stuck(i, k)
  BY DEF Streams, SectionLength, PacketsOf, Pes, Stuck

LEMMA OrderInit == Init => OrderInv
<1> SUFFICES ASSUME Init PROVE OrderInv
  OBVIOUS
<1>1. MergeInv
  BY MergeInvInit
<1>2. ControlOK
  BY DEF Init, ControlOK
<1>3. units = <<>> /\ Len(units) = 0 /\ phase = "pat" /\ result = 0
      /\ \A i \in Streams : next[i] = 1
  BY DEF Init
<1>4. \A i : OwnUnits(units, i) = {}
  BY <1>3 DEF OwnUnits
<1>5. \A i : Cardinality(OwnUnits(units, i)) = 0
  BY <1>4, FS_EmptySet
<1>6. PhasesInOrder /\ TablesFirst /\ EndNotReady /\ CauseFound /\ PassedAreTimed
  BY <1>3 DEF PhasesInOrder, TablesFirst, EndNotReady, CauseFound, PassedAreTimed
<1>7. Numbered
  BY <1>4 DEF Numbered
<1>8. AllTaken /\ NextIsCount
  BY <1>3, <1>5 DEF AllTaken, NextIsCount
<1> QED BY <1>1, <1>2, <1>6, <1>7, <1>8 DEF OrderInv, OrderParts

(* The list, the iterators and the program stay.                           *)
LEMMA OrderKept ==
  ASSUME OrderInv, UNCHANGED <<program, next, units>>
  PROVE  TablesFirst' /\ Numbered' /\ AllTaken' /\ PassedAreTimed'
  BY DEF OrderInv, OrderParts, TablesFirst, Numbered, AllTaken, PassedAreTimed,
         Streams, Pes, PacketsOf

LEMMA OrderReturns ==
  ASSUME OrderInv, PackPatFails \/ PackPmtFails \/ PackEnds
  PROVE  OrderParts'
<1>1. /\ UNCHANGED <<program, next, units>>
      /\ phase' = "done" /\ phase # "done" /\ result = 0
  BY DEF PackPatFails, PackPmtFails, PackEnds, Fail, Return,
         OrderInv, OrderParts, PhasesInOrder
<1>2. TablesFirst' /\ Numbered' /\ AllTaken' /\ PassedAreTimed'
  BY <1>1, OrderKept
<1>3. PhasesInOrder'
  BY <1>1 DEF PhasesInOrder
<1>4. NextIsCount'
  BY <1>1 DEF OrderInv, OrderParts, NextIsCount, Streams
<1>5. CASE PackEnds
  <2>1. result' = 1 /\ \A i \in Streams : ~Ready(i)
    BY <1>5 DEF PackEnds, Return
  <2>2. EndNotReady' /\ CauseFound'
    BY <1>1, <2>1 DEF EndNotReady, CauseFound, Ready, Streams, Pes, PacketsOf
  <2> QED BY <1>2, <1>3, <1>4, <2>2 DEF OrderParts
<1>6. CASE PackPatFails
  <2>1. result' = -1 /\ program.program_pid = 0 /\ units = <<>>
    <3>1. Len(units) = 0 /\ units \in Seq(PackedUnit)
      BY <1>6 DEF PackPatFails, OrderInv, OrderParts, PhasesInOrder, MergeInv
    <3> QED BY <1>6, <3>1, EmptySeq DEF PackPatFails, Fail, Return
  <2>2. EndNotReady' /\ CauseFound'
    BY <1>1, <2>1 DEF EndNotReady, CauseFound
  <2> QED BY <1>2, <1>3, <1>4, <2>2 DEF OrderParts
<1>7. CASE PackPmtFails
  <2>1. result' = -1 /\ SectionLength > MaxSection /\ Len(units) = 1
    BY <1>7 DEF PackPmtFails, Fail, Return, OrderInv, OrderParts, PhasesInOrder
  <2>2. SectionLength' > MaxSection
    BY <1>1, <2>1, ProgramKept, Zenon
  <2>3. EndNotReady' /\ CauseFound'
    BY <1>1, <2>1, <2>2 DEF EndNotReady, CauseFound
  <2> QED BY <1>2, <1>3, <1>4, <2>3 DEF OrderParts
<1> QED BY <1>5, <1>6, <1>7

(* ts_stream_pack_pat, ts_stream_pack_pmt: the tables.                     *)
LEMMA OrderTable ==
  ASSUME OrderInv, PackPat \/ PackPmt
  PROVE  OrderParts'
<1>1. PICK kind \in {"pat", "pmt"}, pid \in Nat :
        /\ units' = Append(units, Table(kind, pid))
        /\ UNCHANGED <<program, next, result>>
        /\ result = 0 /\ result' = 0
        /\ kind = "pat" => phase' = "pmt" /\ Len(units) = 0
        /\ kind = "pmt" => phase' = "pes" /\ Len(units) = 1
  <2>1. program.program_pid \in Nat /\ 0 \in Nat
    BY ProgramFacts DEF OrderInv, MergeInv, IteratorsOK
  <2>2. CASE PackPat
    BY <2>1, <2>2 DEF PackPat, OrderInv, OrderParts, PhasesInOrder
  <2>3. CASE PackPmt
    BY <2>1, <2>3 DEF PackPmt, OrderInv, OrderParts, PhasesInOrder
  <2> QED BY <2>2, <2>3
<1> DEFINE x == Table(kind, pid)
<1>2. /\ x \in PackedUnit /\ x.kind = kind /\ x.kind # "pes"
  BY DEF Table, PackedUnit
<1>3. units \in Seq(PackedUnit) /\ units' = Append(units, x)
  BY <1>1 DEF OrderInv, MergeInv
<1> HIDE DEF x
<1>4. PICK L \in Nat : L = Len(units)
  BY <1>3, LenProperties
<1>5. /\ Len(units') = L + 1
      /\ \A a \in 1..L : units'[a] = units[a]
      /\ units'[L + 1] = x
  BY <1>2, <1>3, <1>4, AppendProperties
<1>6. \A i : OwnUnits(units', i) = OwnUnits(units, i)
  BY <1>2, <1>3, <1>4, <1>5, OwnGrows
<1>8. \A i : \A a \in OwnUnits(units, i) : a \in 1..L /\ units'[a] = units[a]
  BY <1>4, <1>5 DEF OwnUnits
<1>9. Streams' = Streams /\ (\A i, k : Pes(i, k)' = Pes(i, k)) /\ next' = next
      /\ program' = program
  BY <1>1, ProgramKept
<1>10. PhasesInOrder'
  BY <1>1, <1>4, <1>5 DEF PhasesInOrder
<1>11. TablesFirst'
  <2> SUFFICES ASSUME NEW a \in 1..(L + 1)
               PROVE  /\ units'[a].kind = "pat" <=> a = 1
                      /\ units'[a].kind = "pmt" <=> a = 2
    BY <1>5 DEF TablesFirst
  <2>1. CASE a \in 1..L
    BY <1>4, <1>5, <2>1 DEF OrderInv, OrderParts, TablesFirst
  <2>2. CASE a = L + 1
    BY <1>1, <1>2, <1>4, <1>5, <2>2
  <2> QED BY <2>1, <2>2
<1>12. Numbered'
  <2> SUFFICES ASSUME NEW i \in Streams, NEW a \in OwnUnits(units, i)
               PROVE  /\ units'[a].pid = program.streams[i].pid
                      /\ units'[a].nth = Cardinality({b \in OwnUnits(units', i) : b <= a})
                      /\ units'[a].nth < next[i]
                      /\ units'[a].rai = Pes(i, units'[a].nth).rai
    BY <1>6, <1>9 DEF Numbered, Pes, PacketsOf
  <2>1. /\ units[a].pid = program.streams[i].pid
        /\ units[a].nth = Cardinality({b \in OwnUnits(units, i) : b <= a})
        /\ units[a].nth < next[i]
        /\ units[a].rai = Pes(i, units[a].nth).rai
    BY DEF OrderInv, OrderParts, Numbered
  <2>2. OwnUnits(units', i) = OwnUnits(units, i) /\ units'[a] = units[a]
    BY <1>6, <1>8
  <2> QED BY <2>1, <2>2, Zenon
<1>13. AllTaken'
  BY <1>6, <1>8, <1>9 DEF OrderInv, OrderParts, AllTaken
<1>14. NextIsCount' /\ EndNotReady' /\ CauseFound'
  BY <1>1, <1>6, <1>9 DEF OrderInv, OrderParts, NextIsCount, EndNotReady, CauseFound
<1>15. PassedAreTimed'
  BY <1>9 DEF OrderInv, OrderParts, PassedAreTimed
<1> QED BY <1>10, <1>11, <1>12, <1>13, <1>14, <1>15 DEF OrderParts

(* The packet an iterator leaves behind has a timestamp.                   *)
LEMMA PassedKept ==
  ASSUME OrderInv, NEW i \in Streams, Least(i), Advance(i), program' = program
  PROVE  PassedAreTimed'
<1>1. /\ IteratorsOK /\ PassedAreTimed
  BY DEF OrderInv, OrderParts, MergeInv
<1>2. /\ next[i] \in 1..Len(PacketsOf(i)) /\ next'[i] = next[i] + 1
      /\ \A j \in Streams \ {i} : next'[j] = next[j]
  BY <1>1, AdvanceFacts
<1>3. Pes(i, next[i]).timed
  BY DEF Least, Ready
<1>4. Streams' = Streams /\ (\A j, k : Pes(j, k)' = Pes(j, k))
  BY ProgramKept
<1>5. next[i] \in Nat
  BY <1>1 DEF IteratorsOK
<1> SUFFICES ASSUME NEW j \in Streams, NEW k \in 1..(next'[j] - 1)
             PROVE  Pes(j, k).timed
  BY <1>4 DEF PassedAreTimed
<1>6. CASE j # i
  BY <1>1, <1>2, <1>6 DEF PassedAreTimed
<1>7. CASE j = i /\ k = next[i]
  BY <1>3, <1>7
<1>8. CASE j = i /\ k # next[i]
  BY <1>1, <1>2, <1>5, <1>8 DEF PassedAreTimed
<1> QED BY <1>6, <1>7, <1>8

LEMMA OrderPackPes ==
  ASSUME OrderInv, NEW i \in Streams, PackPes(i)
  PROVE  OrderParts'
<1>1. /\ Least(i) /\ Advance(i) /\ UNCHANGED <<program, phase, result>>
      /\ units' = Append(units, PesUnit(i))
      /\ phase = "pes" /\ result = 0
      /\ IteratorsOK /\ units \in Seq(PackedUnit)
  BY DEF PackPes, OrderInv, OrderParts, PhasesInOrder, MergeInv
<1>2. /\ next[i] \in 1..Len(PacketsOf(i)) /\ next'[i] = next[i] + 1
      /\ \A j \in Streams \ {i} : next'[j] = next[j]
      /\ \A j \in Streams : next[j] \in Nat
  BY <1>1, AdvanceFacts DEF IteratorsOK
<1>3. PICK x \in PackedUnit : x = PesUnit(i)
  BY <1>1, PesUnitType
<1>4. /\ x.kind = "pes" /\ x.stream = i /\ x.nth = next[i]
      /\ x.pid = program.streams[i].pid /\ x.rai = Pes(i, next[i]).rai
  BY <1>3 DEF PesUnit
<1>5. PICK L \in Nat : L = Len(units) /\ 2 <= L
  BY <1>1, LenProperties DEF OrderInv, OrderParts, PhasesInOrder
<1>6. /\ units' = Append(units, x)
      /\ Len(units') = L + 1
      /\ \A a \in 1..L : units'[a] = units[a]
      /\ units'[L + 1] = x
  BY <1>1, <1>3, <1>5, AppendProperties
<1>7. \A j : j # i => OwnUnits(units', j) = OwnUnits(units, j)
  BY <1>1, <1>4, <1>5, <1>6, OwnGrows
<1>9. /\ OwnUnits(units', i) = OwnUnits(units, i) \cup {L + 1}
      /\ Cardinality(OwnUnits(units', i)) = Cardinality(OwnUnits(units, i)) + 1
      /\ Cardinality(OwnUnits(units, i)) \in Nat
  BY <1>1, <1>4, <1>5, <1>6, OwnGrows, OwnFacts
<1>10. \A j : \A a \in OwnUnits(units, j) : a \in 1..L /\ units'[a] = units[a]
  BY <1>5, <1>6 DEF OwnUnits
<1>11. Streams' = Streams /\ (\A j, k : Pes(j, k)' = Pes(j, k)) /\ program' = program
  BY <1>1, ProgramKept
<1>12. next[i] = Cardinality(OwnUnits(units, i)) + 1
  BY <1>1 DEF OrderInv, OrderParts, NextIsCount
<1>13. PhasesInOrder' /\ EndNotReady' /\ CauseFound'
  BY <1>1, <1>5, <1>6 DEF PhasesInOrder, EndNotReady, CauseFound
<1>14. PassedAreTimed'
  BY <1>1, PassedKept
<1>15. TablesFirst'
  <2> SUFFICES ASSUME NEW a \in 1..(L + 1)
               PROVE  /\ units'[a].kind = "pat" <=> a = 1
                      /\ units'[a].kind = "pmt" <=> a = 2
    BY <1>6 DEF TablesFirst
  <2>1. CASE a \in 1..L
    BY <1>5, <1>6, <2>1 DEF OrderInv, OrderParts, TablesFirst
  <2>2. CASE a = L + 1
    BY <1>4, <1>5, <1>6, <2>2
  <2> QED BY <2>1, <2>2
<1>16. NextIsCount'
  <2> SUFFICES ASSUME NEW j \in Streams
               PROVE  next'[j] = Cardinality(OwnUnits(units', j)) + 1
    BY <1>11 DEF NextIsCount
  <2>1. next[j] = Cardinality(OwnUnits(units, j)) + 1
    BY <1>1 DEF OrderInv, OrderParts, NextIsCount
  <2> QED BY <1>2, <1>7, <1>9, <2>1
<1>17. Numbered'
  <2> SUFFICES ASSUME NEW j \in Streams, NEW a \in OwnUnits(units', j)
               PROVE  /\ units'[a].pid = program.streams[j].pid
                      /\ units'[a].nth = Cardinality({b \in OwnUnits(units', j) : b <= a})
                      /\ units'[a].nth < next'[j]
                      /\ units'[a].rai = Pes(j, units'[a].nth).rai
    BY <1>11 DEF Numbered, Pes, PacketsOf
  <2>1. CASE a \in OwnUnits(units, j)
    <3>1. /\ units[a].pid = program.streams[j].pid
          /\ units[a].nth = Cardinality({b \in OwnUnits(units, j) : b <= a})
          /\ units[a].nth < next[j]
          /\ units[a].rai = Pes(j, units[a].nth).rai
      BY <2>1 DEF OrderInv, OrderParts, Numbered
    <3>2. units[a].nth \in Nat
      <4>1. units[a] \in PackedUnit
        BY <1>1, <1>5, <1>10, <2>1, ElementOfSeq
      <4> QED BY <4>1 DEF PackedUnit
    <3>3. units[a].nth < next'[j]
      BY <1>2, <3>1, <3>2
    <3>4. {b \in OwnUnits(units', j) : b <= a} = {b \in OwnUnits(units, j) : b <= a}
      BY <1>7, <1>9, <1>10, <2>1
    <3> QED BY <1>10, <2>1, <3>1, <3>3, <3>4
  <2>2. CASE j = i /\ a = L + 1
    <3>1. units'[a] = x /\ x.nth = next[i] /\ next[i] < next'[i] /\ next[i] \in Nat
      BY <1>2, <1>4, <1>6, <2>2
    <3>2. {b \in OwnUnits(units', i) : b <= L + 1} = OwnUnits(units', i)
      BY <1>9, <1>10
    <3>3. Cardinality(OwnUnits(units', i)) = next[i]
      BY <1>9, <1>12
    <3> QED BY <1>4, <2>2, <3>1, <3>2, <3>3
  <2> QED BY <1>7, <1>9, <2>1, <2>2
<1>18. AllTaken'
  <2> SUFFICES ASSUME NEW j \in Streams, NEW k \in 1..Cardinality(OwnUnits(units', j))
               PROVE  \E a \in OwnUnits(units', j) : units'[a].nth = k
    BY <1>11 DEF AllTaken
  <2>1. CASE k \in 1..Cardinality(OwnUnits(units, j))
    <3>1. PICK a \in OwnUnits(units, j) : units[a].nth = k
      BY <2>1 DEF OrderInv, OrderParts, AllTaken
    <3> QED BY <1>7, <1>9, <1>10, <3>1
  <2>2. CASE j = i /\ k = Cardinality(OwnUnits(units, i)) + 1
    BY <1>4, <1>6, <1>9, <1>12, <2>2
  <2> QED BY <1>7, <1>9, <2>1, <2>2
<1> QED BY <1>13, <1>14, <1>15, <1>16, <1>17, <1>18 DEF OrderParts

LEMMA OrderPackPesFails ==
  ASSUME OrderInv, NEW i \in Streams, PackPesFails(i)
  PROVE  OrderParts'
<1>1. /\ Least(i) /\ Advance(i) /\ UNCHANGED <<program, units>>
      /\ ~Pes(i, next[i]).fits
      /\ phase' = "done" /\ result' = -1 /\ result = 0
      /\ IteratorsOK /\ units \in Seq(PackedUnit)
  BY DEF PackPesFails, Return, OrderInv, OrderParts, PhasesInOrder, MergeInv
<1>2. /\ next[i] \in 1..Len(PacketsOf(i)) /\ next'[i] = next[i] + 1
      /\ \A j \in Streams \ {i} : next'[j] = next[j]
      /\ \A j \in Streams : next[j] \in Nat
  BY <1>1, AdvanceFacts DEF IteratorsOK
<1>3. /\ Streams' = Streams /\ program' = program
      /\ \A j : PacketsOf(j)' = PacketsOf(j)
      /\ \A j, k : Pes(j, k)' = Pes(j, k)
      /\ \A j, k : Stuck(j, k)' <=> Stuck(j, k)
  BY <1>1, ProgramKept
<1>4. PhasesInOrder' /\ NextIsCount' /\ EndNotReady'
  BY <1>1 DEF PhasesInOrder, NextIsCount, EndNotReady
<1>5. TablesFirst' /\ AllTaken'
  BY <1>1, <1>3 DEF OrderInv, OrderParts, TablesFirst, AllTaken
<1>6. PassedAreTimed'
  BY <1>1, PassedKept
<1>7. Numbered'
  <2> SUFFICES ASSUME NEW j \in Streams, NEW a \in OwnUnits(units', j)
               PROVE  /\ units'[a].pid = program.streams[j].pid
                      /\ units'[a].nth = Cardinality({b \in OwnUnits(units', j) : b <= a})
                      /\ units'[a].nth < next'[j]
                      /\ units'[a].rai = Pes(j, units'[a].nth).rai
    BY <1>3 DEF Numbered, Pes, PacketsOf
  <2>1. units' = units /\ a \in OwnUnits(units, j)
    BY <1>1
  <2>2. /\ units[a].pid = program.streams[j].pid
        /\ units[a].nth = Cardinality({b \in OwnUnits(units, j) : b <= a})
        /\ units[a].nth < next[j]
        /\ units[a].rai = Pes(j, units[a].nth).rai
    BY <2>1 DEF OrderInv, OrderParts, Numbered
  <2>3. units[a].nth \in Nat
    <3>1. units[a] \in PackedUnit
      BY <1>1, <2>1, ElementOfSeq DEF OwnUnits
    <3> QED BY <3>1 DEF PackedUnit
  <2>4. units[a].nth < next'[j]
    BY <1>2, <2>2, <2>3
  <2> QED BY <2>1, <2>2, <2>4, Zenon
<1>8. CauseFound'
  <2>1. next[i] = Cardinality(OwnUnits(units, i)) + 1
    BY <1>1 DEF OrderInv, OrderParts, NextIsCount
  <2>2. next[i] <= Len(PacketsOf(i)) /\ next[i] \in Nat
    BY <1>2 DEF Least, Ready
  <2>3. ~Stuck(i, next[i])
    <3>1. Pes(i, next[i]).timed
      BY <1>1 DEF Least, Ready
    <3>2. \A k \in 1..(next[i] - 1) : Pes(i, k).timed
      BY DEF OrderInv, OrderParts, PassedAreTimed
    <3> QED BY <2>2, <3>1, <3>2 DEF Stuck
  <2>4. PICK k \in Nat : k = next[i]
    BY <2>2
  <2>5. /\ k = Cardinality(OwnUnits(units, i)) + 1 /\ k <= Len(PacketsOf(i))
        /\ ~Pes(i, k).fits /\ ~Stuck(i, k)
    BY <1>1, <2>1, <2>2, <2>3, <2>4
  <2>6. /\ (k = Cardinality(OwnUnits(units, i)) + 1)' /\ (k <= Len(PacketsOf(i)))'
        /\ (~Pes(i, k).fits)' /\ (~Stuck(i, k))' /\ i \in Streams'
    BY <1>1, <1>3, <2>5
  <2> QED BY <2>6 DEF CauseFound
<1> QED BY <1>4, <1>5, <1>6, <1>7, <1>8 DEF OrderParts

LEMMA OrderStep == OrderInv /\ [Next]_vars => OrderInv'
<1> SUFFICES ASSUME OrderInv, [Next]_vars PROVE OrderInv'
  OBVIOUS
<1>1. MergeInv' /\ ControlOK'
  BY MergeInvStep, ControlStep DEF OrderInv
<1>2. CASE UNCHANGED vars
  <2>1. UNCHANGED <<program, phase, next, units, result>>
    BY <1>2 DEF vars
  <2>2. TablesFirst' /\ Numbered' /\ AllTaken' /\ PassedAreTimed'
    BY <2>1, OrderKept
  <2>3. PhasesInOrder' /\ NextIsCount' /\ EndNotReady'
    BY <2>1 DEF OrderInv, OrderParts, PhasesInOrder, NextIsCount, EndNotReady,
                Ready, Streams, Pes, PacketsOf
  <2>4. CauseFound'
    BY <2>1, ProgramKept DEF OrderInv, OrderParts, CauseFound
  <2> QED BY <1>1, <2>2, <2>3, <2>4 DEF OrderInv, OrderParts
<1>3. CASE PackPat \/ PackPmt
  BY <1>1, <1>3, OrderTable DEF OrderInv
<1>4. CASE PackPatFails \/ PackPmtFails \/ PackEnds
  BY <1>1, <1>4, OrderReturns DEF OrderInv
<1>5. ASSUME NEW i \in Streams, PackPes(i) \/ PackPesFails(i)
      PROVE  OrderInv'
  BY <1>1, <1>5, OrderPackPes, OrderPackPesFails DEF OrderInv
<1> QED BY <1>2, <1>3, <1>4, <1>5 DEF Next

LEMMA OrderAlways == Spec => []OrderInv
<1> QED BY OrderInit, OrderStep, PTL DEF Spec

(* ts_stream_pack (ts_stream.c:377-387) and ts_stream_pack_pes             *)
(* (ts_stream.c:298-300): for any program the tables come first, and the   *)
(* units of a stream are its packets from the first in the stream's own    *)
(* order, none left out and none twice.                                    *)
THEOREM StreamsKeepOrderAlways == Spec => []StreamsKeepOrder
<1>1. OrderInv => StreamsKeepOrder
  <2>1. \A i : UnitsOf(i) = OwnUnits(units, i)
    BY DEF UnitsOf, OwnUnits, IsPes
  <2> QED BY <2>1 DEF OrderInv, OrderParts, TablesFirst, Numbered, StreamsKeepOrder
<1> QED BY <1>1, OrderAlways, PTL

(* ts_stream_pack_pes (ts_stream.c:292-296 and 324): when the call returns *)
(* 1, what is not in the list is at or behind a packet with no PTS on its  *)
(* own stream.                                                             *)
THEOREM LostOnlyBehindUntimedAlways == Spec => []LostOnlyBehindUntimed
<1>1. OrderInv => LostOnlyBehindUntimed
  <2> SUFFICES ASSUME OrderInv, result = 1, NEW i \in Streams,
                      NEW k \in 1..Len(PacketsOf(i))
               PROVE  (\E a \in UnitsOf(i) : units[a].nth = k) <=> ~Stuck(i, k)
    BY DEF LostOnlyBehindUntimed
  <2>1. UnitsOf(i) = OwnUnits(units, i)
    BY DEF UnitsOf, OwnUnits, IsPes
  <2>2. /\ next[i] \in Nat \ {0} /\ k \in Nat
        /\ next[i] = Cardinality(OwnUnits(units, i)) + 1
        /\ Cardinality(OwnUnits(units, i)) \in Nat
        /\ Len(PacketsOf(i)) \in Nat
    BY OwnFacts, ProgramFacts
       DEF OrderInv, OrderParts, NextIsCount, MergeInv, IteratorsOK
  <2>3. \A l \in 1..(next[i] - 1) : Pes(i, l).timed
    BY DEF OrderInv, OrderParts, PassedAreTimed
  <2>4. ASSUME NEW a \in OwnUnits(units, i), units[a].nth = k
        PROVE  ~Stuck(i, k)
    <3>1. k < next[i]
      BY <2>4 DEF OrderInv, OrderParts, Numbered
    <3> QED BY <2>2, <2>3, <3>1 DEF Stuck
  <2>5. ASSUME ~Stuck(i, k)
        PROVE  \E a \in OwnUnits(units, i) : units[a].nth = k
    <3>1. ~Ready(i)
      BY DEF OrderInv, OrderParts, EndNotReady
    <3>2. k < next[i]
      <4> SUFFICES ASSUME next[i] <= k PROVE FALSE
        BY <2>2
      <4>1. next[i] <= Len(PacketsOf(i)) /\ next[i] \in 1..k
        BY <2>2
      <4> QED BY <2>5, <3>1, <4>1 DEF Ready, Stuck
    <3>3. k \in 1..Cardinality(OwnUnits(units, i))
      BY <2>2, <3>2
    <3> QED BY <3>3 DEF OrderInv, OrderParts, AllTaken
  <2> QED BY <2>1, <2>4, <2>5
<1> QED BY <1>1, OrderAlways, PTL

(* What the call has passed was within the limits.                         *)
PastLimits ==
  /\ phase = "pmt" \/ phase = "pes" \/ result = 1 => program.program_pid # 0
  /\ phase = "pes" \/ result = 1 =>
       /\ SectionLength <= MaxSection
       /\ \A i \in Streams : \A k \in 1..(next[i] - 1) : Pes(i, k).fits

LEMMA LimitsKept ==
  ASSUME PastLimits, UNCHANGED <<program, next>>,
         \/ phase' = phase /\ result' = result
         \/ phase = "pes" /\ phase' = "done"
  PROVE  PastLimits'
<1>1. /\ Streams' = Streams /\ SectionLength' = SectionLength
      /\ \A i, k : Pes(i, k)' = Pes(i, k)
  BY ProgramKept
<1> QED BY <1>1, Zenon DEF PastLimits

LEMMA LimitsPackPes ==
  ASSUME OrderInv, PastLimits, NEW i \in Streams, PackPes(i)
  PROVE  PastLimits'
<1>1. /\ Least(i) /\ Advance(i) /\ program' = program
      /\ Pes(i, next[i]).fits
      /\ phase = "pes" /\ phase' = "pes"
      /\ IteratorsOK
  BY DEF PackPes, OrderInv, MergeInv
<1>2. /\ next'[i] = next[i] + 1
      /\ \A j \in Streams \ {i} : next'[j] = next[j]
      /\ \A j \in Streams : next[j] \in Nat
  BY <1>1, AdvanceFacts DEF IteratorsOK
<1>3. /\ Streams' = Streams /\ SectionLength' = SectionLength
      /\ \A j, k : Pes(j, k)' = Pes(j, k)
  BY <1>1, ProgramKept
<1>4. ASSUME NEW j \in Streams, NEW k \in 1..(next'[j] - 1)
      PROVE  Pes(j, k).fits
  <2>1. \A l \in 1..(next[j] - 1) : Pes(j, l).fits
    BY <1>1 DEF PastLimits
  <2>2. k \in 1..(next[j] - 1) \/ (j = i /\ k = next[i])
    BY <1>2
  <2> QED BY <1>1, <2>1, <2>2
<1>5. program.program_pid # 0 /\ SectionLength <= MaxSection
  BY <1>1 DEF PastLimits
<1> QED BY <1>1, <1>3, <1>4, <1>5, Zenon DEF PastLimits

LEMMA LimitsStep == OrderInv /\ PastLimits /\ [Next]_vars => PastLimits'
<1> SUFFICES ASSUME OrderInv, PastLimits, [Next]_vars PROVE PastLimits'
  OBVIOUS
<1>1. phase # "done" => result = 0
  BY DEF OrderInv, OrderParts, PhasesInOrder
<1>2. CASE UNCHANGED vars
  BY <1>2, LimitsKept DEF vars
<1>3. CASE PackPat
  BY <1>1, <1>3 DEF PackPat, PastLimits
<1>4. CASE PackPmt
  <2>1. /\ program' = program /\ next' = next /\ phase' = "pes" /\ phase = "pmt"
        /\ SectionLength <= MaxSection
    BY <1>4 DEF PackPmt
  <2>2. /\ Streams' = Streams /\ SectionLength' = SectionLength
        /\ \A i, k : Pes(i, k)' = Pes(i, k)
    BY <2>1, ProgramKept
  <2>3. \A i \in Streams : next[i] = 1
    <3>1. ASSUME NEW i PROVE OwnUnits(units, i) = {}
      <4>1. Len(units) = 1 /\ TablesFirst
        BY <2>1 DEF OrderInv, OrderParts, PhasesInOrder
      <4>2. \A a \in 1..Len(units) : units[a].kind = "pat"
        BY <4>1 DEF TablesFirst
      <4> QED BY <4>2 DEF OwnUnits
    <3>2. \A i : Cardinality(OwnUnits(units, i)) = 0
      BY <3>1, FS_EmptySet
    <3> QED BY <1>1, <2>1, <3>2 DEF OrderInv, OrderParts, NextIsCount
  <2>4. \A i \in Streams : \A k \in 1..(next[i] - 1) : Pes(i, k).fits
    BY <2>3
  <2> QED BY <2>1, <2>2, <2>4, Zenon DEF PastLimits
<1>5. CASE PackPatFails \/ PackPmtFails
  <2>1. phase' = "done" /\ result' = -1 /\ -1 # 1
    BY <1>5 DEF PackPatFails, PackPmtFails, Fail, Return
  <2> QED BY <2>1 DEF PastLimits
<1>6. CASE PackEnds
  BY <1>6, LimitsKept DEF PackEnds, Return
<1>7. ASSUME NEW i \in Streams, PackPes(i) PROVE PastLimits'
  BY <1>7, LimitsPackPes
<1>8. ASSUME NEW i \in Streams, PackPesFails(i) PROVE PastLimits'
  <2>1. phase' = "done" /\ result' = -1 /\ -1 # 1
    BY <1>8 DEF PackPesFails, Return
  <2> QED BY <2>1 DEF PastLimits
<1> QED BY <1>2, <1>3, <1>4, <1>5, <1>6, <1>7, <1>8 DEF Next

LEMMA LimitsAlways == Spec => [](OrderInv /\ PastLimits)
<1>1. Init => PastLimits
  BY DEF Init, PastLimits
<1> QED BY <1>1, OrderInit, OrderStep, LimitsStep, PTL DEF Spec

(* ts_stream_pack (ts_stream.c:125, 205 and 313): it returns -1 only for a *)
(* program with no PID, an oversized PMT, or an oversized PES packet that  *)
(* is the next one of its stream after those in the list, and 1 only for a *)
(* program with none of these where it looks.                              *)
THEOREM FailsForCauseAlways == Spec => []FailsForCause
<1>1. OrderInv /\ PastLimits => FailsForCause
  <2> SUFFICES ASSUME OrderInv, PastLimits PROVE FailsForCause
    OBVIOUS
  <2>1. ASSUME NEW i \in Streams, NEW k \in Nat,
               k = Cardinality(OwnUnits(units, i)) + 1,
               k <= Len(PacketsOf(i)), ~Pes(i, k).fits, ~Stuck(i, k)
        PROVE  /\ Cardinality(UnitsOf(i)) + 1 <= Len(PacketsOf(i))
               /\ ~Pes(i, Cardinality(UnitsOf(i)) + 1).fits
               /\ ~Stuck(i, Cardinality(UnitsOf(i)) + 1)
    <3>1. k = Cardinality(UnitsOf(i)) + 1
      BY <2>1 DEF UnitsOf, OwnUnits, IsPes
    <3> QED BY <2>1, <3>1
  <2>2. ASSUME result = 1, NEW i \in Streams, NEW k \in 1..Len(PacketsOf(i)),
               ~Stuck(i, k)
        PROVE  Pes(i, k).fits
    <3>1. next[i] \in Nat \ {0} /\ Len(PacketsOf(i)) \in Nat
      BY ProgramFacts DEF OrderInv, MergeInv, IteratorsOK
    <3>2. ~Ready(i)
      BY <2>2 DEF OrderInv, OrderParts, EndNotReady
    <3>3. k \in 1..(next[i] - 1)
      <4> SUFFICES ASSUME next[i] <= k PROVE FALSE
        BY <3>1
      <4>1. next[i] <= Len(PacketsOf(i)) /\ next[i] \in 1..k
        BY <3>1
      <4> QED BY <2>2, <3>2, <4>1 DEF Ready, Stuck
    <3> QED BY <2>2, <3>3 DEF PastLimits
  <2>3. result = 1 => program.program_pid # 0 /\ SectionLength <= MaxSection
    BY DEF PastLimits
  <2>4. CauseFound
    BY DEF OrderInv, OrderParts
  <2> QED BY <2>1, <2>2, <2>3, <2>4 DEF FailsForCause, CauseFound
<1> QED BY <1>1, LimitsAlways, PTL

-----------------------------------------------------------------------------
(* The units of the PCR PID, of which the first has the PCR.               *)
OfPcrPid(a) == units[a].kind = "pes" /\ units[a].pid = program.pcr_pid

FirstHasPcr ==
  \A a \in 1..Len(units) :
    /\ units[a].pcr # {} <=>
         OfPcrPid(a) /\ \A b \in 1..Len(units) : OfPcrPid(b) => a <= b
    /\ units[a].pcr # {} =>
         units[a].pcr = {Pes(units[a].stream, units[a].nth).pts * 300}

(* pcr_recorded says so as long as the call runs: a packet that cannot be  *)
(* packed sets it and ends the call.                                       *)
Recorded ==
  phase # "done" => (pcr_recorded <=> \E a \in 1..Len(units) : OfPcrPid(a))

PcrInv == OrderInv /\ FirstHasPcr /\ Recorded

LEMMA PcrInit == Init => PcrInv
<1> SUFFICES ASSUME Init PROVE PcrInv
  OBVIOUS
<1>1. Len(units) = 0 /\ pcr_recorded = FALSE
  BY DEF Init
<1> QED BY <1>1, OrderInit DEF PcrInv, FirstHasPcr, Recorded

(* The list stays.                                                         *)
LEMMA PcrKept ==
  ASSUME FirstHasPcr, UNCHANGED <<program, units>>
  PROVE  FirstHasPcr'
  BY DEF FirstHasPcr, OfPcrPid, Pes, PacketsOf

LEMMA PcrTable ==
  ASSUME PcrInv, PackPat \/ PackPmt
  PROVE  FirstHasPcr' /\ Recorded'
<1>1. PICK x \in PackedUnit, L \in Nat :
        /\ units' = Append(units, x) /\ x.kind # "pes" /\ x.pcr = {}
        /\ L = Len(units)
  <2>1. program.program_pid \in Nat /\ 0 \in Nat
    BY ProgramFacts DEF PcrInv, OrderInv, MergeInv, IteratorsOK
  <2>2. \A kind \in {"pat", "pmt"}, pid \in Nat :
          /\ Table(kind, pid) \in PackedUnit
          /\ Table(kind, pid).kind # "pes" /\ Table(kind, pid).pcr = {}
    BY DEF Table, PackedUnit
  <2>3. Len(units) \in Nat
    BY LenProperties DEF PcrInv, OrderInv, MergeInv
  <2> QED BY <2>1, <2>2, <2>3 DEF PackPat, PackPmt
<1>2. units \in Seq(PackedUnit) /\ UNCHANGED <<program, pcr_recorded>> /\ phase # "done"
  BY DEF PackPat, PackPmt, PcrInv, OrderInv, MergeInv
<1>3. /\ Len(units') = L + 1
      /\ \A a \in 1..L : units'[a] = units[a]
      /\ units'[L + 1] = x
  BY <1>1, <1>2, AppendProperties
<1>4. \A a \in 1..L : OfPcrPid(a)' <=> OfPcrPid(a)
  BY <1>2, <1>3 DEF OfPcrPid
<1>5. ~OfPcrPid(L + 1)'
  BY <1>1, <1>3 DEF OfPcrPid
<1>6. Recorded'
  BY <1>1, <1>2, <1>3, <1>4, <1>5 DEF PcrInv, Recorded
<1>7. FirstHasPcr'
  <2> SUFFICES ASSUME NEW a \in 1..(L + 1)
               PROVE  /\ units'[a].pcr # {} <=>
                           OfPcrPid(a)' /\ \A b \in 1..(L + 1) : OfPcrPid(b)' => a <= b
                      /\ units'[a].pcr # {} =>
                           units'[a].pcr =
                             {Pes(units'[a].stream, units'[a].nth).pts * 300}
    BY <1>2, <1>3 DEF FirstHasPcr, Pes, PacketsOf
  <2>1. CASE a = L + 1
    BY <1>1, <1>3, <1>5, <2>1
  <2>2. CASE a \in 1..L
    <3>1. /\ units[a].pcr # {} <=>
               OfPcrPid(a) /\ \A b \in 1..L : OfPcrPid(b) => a <= b
          /\ units[a].pcr # {} =>
               units[a].pcr = {Pes(units[a].stream, units[a].nth).pts * 300}
      BY <1>1, <2>2 DEF PcrInv, FirstHasPcr
    <3>2. (\A b \in 1..(L + 1) : OfPcrPid(b)' => a <= b) <=>
            (\A b \in 1..L : OfPcrPid(b) => a <= b)
      BY <1>4, <1>5
    <3>3. units'[a] = units[a] /\ (OfPcrPid(a)' <=> OfPcrPid(a))
      BY <1>3, <1>4, <2>2
    <3> QED BY <3>1, <3>2, <3>3
  <2> QED BY <2>1, <2>2
<1> QED BY <1>6, <1>7

LEMMA PcrPackPes ==
  ASSUME PcrInv, NEW i \in Streams, PackPes(i)
  PROVE  FirstHasPcr' /\ Recorded'
<1>1. /\ units' = Append(units, PesUnit(i)) /\ UNCHANGED <<program, phase>>
      /\ pcr_recorded' = (pcr_recorded \/ CarriesPcr(i))
      /\ phase = "pes" /\ Least(i) /\ IteratorsOK /\ units \in Seq(PackedUnit)
  BY DEF PackPes, Advance, PcrInv, OrderInv, MergeInv
<1>2. PICK x \in PackedUnit : x = PesUnit(i)
  BY <1>1, PesUnitType
<1>3. /\ x.kind = "pes" /\ x.stream = i /\ x.nth = next[i]
      /\ x.pid = program.streams[i].pid
      /\ x.pcr = IF CarriesPcr(i) THEN {Pes(i, next[i]).pts * 300} ELSE {}
  BY <1>2 DEF PesUnit
<1>4. PICK L \in Nat : L = Len(units)
  BY <1>1, LenProperties
<1>5. /\ Len(units') = L + 1
      /\ \A a \in 1..L : units'[a] = units[a]
      /\ units'[L + 1] = x
  BY <1>1, <1>2, <1>4, AppendProperties
<1>6. \A a \in 1..L : OfPcrPid(a)' <=> OfPcrPid(a)
  BY <1>1, <1>5 DEF OfPcrPid
<1>7. OfPcrPid(L + 1)' <=> program.pcr_pid = program.streams[i].pid
  BY <1>1, <1>3, <1>5 DEF OfPcrPid
<1>8. pcr_recorded <=> \E a \in 1..L : OfPcrPid(a)
  BY <1>1, <1>4 DEF PcrInv, Recorded
<1>9. CarriesPcr(i) <=> OfPcrPid(L + 1)' /\ ~\E a \in 1..L : OfPcrPid(a)
  BY <1>7, <1>8 DEF CarriesPcr
<1>10. Recorded'
  <2>1. pcr_recorded' <=> \E a \in 1..(L + 1) : OfPcrPid(a)'
    <3>1. (\E a \in 1..(L + 1) : OfPcrPid(a)') <=>
            (\E a \in 1..L : OfPcrPid(a)) \/ OfPcrPid(L + 1)'
      BY <1>6
    <3> QED BY <1>1, <1>8, <1>9, <3>1, Zenon
  <2> QED BY <1>5, <2>1 DEF Recorded
<1>11. FirstHasPcr'
  <2> SUFFICES ASSUME NEW a \in 1..(L + 1)
               PROVE  /\ units'[a].pcr # {} <=>
                           OfPcrPid(a)' /\ \A b \in 1..(L + 1) : OfPcrPid(b)' => a <= b
                      /\ units'[a].pcr # {} =>
                           units'[a].pcr =
                             {Pes(units'[a].stream, units'[a].nth).pts * 300}
    <3>1. Len(units') = L + 1 /\ program' = program
      BY <1>1, <1>5
    <3>2. \A y, k : Pes(y, k)' = Pes(y, k)
      BY <3>1, Zenon DEF Pes, PacketsOf
    <3> QED BY <3>1, <3>2, Zenon DEF FirstHasPcr
  <2>1. CASE a = L + 1
    <3>1. x.pcr # {} <=> CarriesPcr(i)
      BY <1>3
    <3>2. (\A b \in 1..(L + 1) : OfPcrPid(b)' => a <= b) <=> ~\E b \in 1..L : OfPcrPid(b)
      BY <1>6, <2>1
    <3>3. x.pcr # {} => x.pcr = {Pes(x.stream, x.nth).pts * 300}
      BY <1>3
    <3> QED BY <1>5, <1>9, <2>1, <3>1, <3>2, <3>3
  <2>2. CASE a \in 1..L
    <3>1. /\ units[a].pcr # {} <=>
               OfPcrPid(a) /\ \A b \in 1..L : OfPcrPid(b) => a <= b
          /\ units[a].pcr # {} =>
               units[a].pcr = {Pes(units[a].stream, units[a].nth).pts * 300}
      BY <1>4, <2>2 DEF PcrInv, FirstHasPcr
    <3>2. (\A b \in 1..(L + 1) : OfPcrPid(b)' => a <= b) <=>
            (\A b \in 1..L : OfPcrPid(b) => a <= b)
      BY <1>6, <2>2
    <3>3. units'[a] = units[a] /\ (OfPcrPid(a)' <=> OfPcrPid(a))
      BY <1>5, <1>6, <2>2
    <3> QED BY <3>1, <3>2, <3>3
  <2> QED BY <2>1, <2>2
<1> QED BY <1>10, <1>11

LEMMA PcrStep == PcrInv /\ [Next]_vars => PcrInv'
<1> SUFFICES ASSUME PcrInv, [Next]_vars PROVE PcrInv'
  OBVIOUS
<1>1. OrderInv'
  BY OrderStep DEF PcrInv
<1>2. CASE PackPat \/ PackPmt
  BY <1>1, <1>2, PcrTable DEF PcrInv
<1>3. ASSUME NEW i \in Streams, PackPes(i) PROVE PcrInv'
  BY <1>1, <1>3, PcrPackPes DEF PcrInv
<1>4. ASSUME UNCHANGED <<program, units>>, phase' = "done" PROVE PcrInv'
  BY <1>1, <1>4, PcrKept DEF PcrInv, Recorded
<1>5. ASSUME NEW i \in Streams, PackPesFails(i) PROVE PcrInv'
  BY <1>4, <1>5 DEF PackPesFails, Return
<1>6. CASE PackPatFails \/ PackPmtFails \/ PackEnds
  BY <1>4, <1>6 DEF PackPatFails, PackPmtFails, PackEnds, Fail, Return
<1>7. CASE UNCHANGED vars
  BY <1>1, <1>7, PcrKept DEF PcrInv, Recorded, OfPcrPid, vars
<1> QED BY <1>2, <1>3, <1>5, <1>6, <1>7 DEF Next

(* ts_stream_pack_pes (ts_stream.c:306-311): for any program the list has  *)
(* one PCR as soon as it has a unit of the PCR PID, on the first of them,  *)
(* and it is that packet's own timestamp in 27 MHz units.                  *)
THEOREM OnePcrAlways == Spec => []OnePcr
<1>1. PcrInv => OnePcr
  <2> SUFFICES ASSUME PcrInv
               PROVE  LET clocked == {a \in 1..Len(units) : OfPcrPid(a)} IN
                        /\ Carriers = {a \in clocked : \A b \in clocked : a <= b}
                        /\ \A a \in Carriers :
                             units[a].pcr = {Pes(units[a].stream, units[a].nth).pts * 300}
    BY DEF OnePcr, OfPcrPid, IsPes
  <2> QED BY DEF PcrInv, FirstHasPcr, Carriers
<1> QED BY <1>1, PcrInit, PcrStep, PTL DEF Spec

=============================================================================

------------------------- MODULE Continuity_proofs -------------------------
(***************************************************************************)
(* Proofs about Continuity, for any lists, PIDs and modulus and any number *)
(* of writes: the counters of an object are in step with what it wrote,    *)
(* the payload packets of a PID are numbered without a gap of their own,   *)
(* and a packet without payload makes a gap once at most.                  *)
(***************************************************************************)
EXTENDS Continuity, FiniteSetTheorems, SequenceTheorems, TLAPS

(* The packets of a PID that object o wrote and that counted.              *)
Counted(o, pid, w) == {v \in Written(o, pid, w) : wire[v].counted}

OneCounterPerPid ==
  \A o \in Lists : \A c, d \in 1..Len(counters[o]) :
    counters[o][c].pid = counters[o][d].pid => c = d

CountersAtNumber ==
  \A o \in Lists, r \in Pids : \A c \in 1..Len(counters[o]) :
    counters[o][c].pid = r =>
      counters[o][c].value = Cardinality(Counted(o, r, Len(wire) + 1))

(* A PID without a counter has not been written.                           *)
WrittenHaveCounters ==
  \A w \in 1..Len(wire) :
    \E c \in 1..Len(counters[wire[w].by]) :
      counters[wire[w].by][c].pid = wire[w].pid

(* Each packet has the number of those that counted before it.             *)
NumberedByCount ==
  \A o \in Lists, r \in Pids, w \in 1..Len(wire) :
    wire[w].by = o /\ wire[w].pid = r =>
      wire[w].cc = Cardinality(Counted(o, r, w)) % Modulus

PayloadsHaveBit == \A n \in 1..Len(packet) : packet[n].payload => packet[n].bit

(* A packet that was written has a corrected bit ever after.               *)
WrittenCorrected ==
  \A w \in 1..Len(wire) :
    /\ wire[w].packet \in 1..Len(packet)
    /\ packet[wire[w].packet].payload = wire[w].payload
    /\ packet[wire[w].packet].bit = wire[w].payload
    /\ wire[w].payload => wire[w].counted

Inv ==
  /\ TypeOK
  /\ OneCounterPerPid /\ CountersAtNumber /\ WrittenHaveCounters
  /\ NumberedByCount
  /\ PayloadsHaveBit /\ WrittenCorrected
  /\ GapsOnce

-----------------------------------------------------------------------------
LEMMA CountedFacts ==
  ASSUME NEW o, NEW pid, NEW w \in Nat
  PROVE  /\ IsFiniteSet(Counted(o, pid, w))
         /\ Cardinality(Counted(o, pid, w)) \in Nat
         /\ w \notin Counted(o, pid, w)
<1>1. IsFiniteSet(1..(w - 1))
  BY FS_Interval
<1>2. Counted(o, pid, w) \in SUBSET (1..(w - 1))
  BY DEF Counted, Written
<1>3. IsFiniteSet(Counted(o, pid, w))
  BY <1>1, <1>2, FS_Subset
<1>4. w \notin 1..(w - 1)
  OBVIOUS
<1> QED BY <1>2, <1>3, <1>4, FS_CardinalityType

(* A packet more on the wire leaves what was counted before it.            *)
LEMMA CountedStays ==
  ASSUME NEW N \in Nat, NEW o, NEW pid, NEW w \in 1..(N + 1),
         \A v \in 1..N : wire'[v] = wire[v]
  PROVE  Counted(o, pid, w)' = Counted(o, pid, w)
<1>1. \A v \in 1..(w - 1) : wire'[v] = wire[v]
  OBVIOUS
<1> QED BY <1>1 DEF Counted, Written

(* The packet itself is counted when its bit is set.                       *)
LEMMA CountedGrows ==
  ASSUME NEW N \in Nat, NEW o, NEW pid, NEW x,
         \A v \in 1..N : wire'[v] = wire[v], wire'[N + 1] = x
  PROVE  Counted(o, pid, N + 2)' =
           Counted(o, pid, N + 1) \cup
             (IF x.by = o /\ x.pid = pid /\ x.counted THEN {N + 1} ELSE {})
<1>1. 1..(N + 1) = (1..N) \cup {N + 1}
  OBVIOUS
<1>2. Counted(o, pid, N + 2)' =
        {v \in {u \in 1..(N + 1) : wire'[u].by = o /\ wire'[u].pid = pid} :
           wire'[v].counted}
  <2>1. (N + 2) - 1 = N + 1
    OBVIOUS
  <2> QED BY <2>1 DEF Counted, Written
<1>3. Counted(o, pid, N + 1) =
        {v \in {u \in 1..N : wire[u].by = o /\ wire[u].pid = pid} :
           wire[v].counted}
  <2>1. (N + 1) - 1 = N
    OBVIOUS
  <2> QED BY <2>1 DEF Counted, Written
<1> QED BY <1>1, <1>2, <1>3

LEMMA CardinalityGrows ==
  ASSUME NEW N \in Nat, NEW o, NEW pid, NEW x,
         \A v \in 1..N : wire'[v] = wire[v], wire'[N + 1] = x
  PROVE  Cardinality(Counted(o, pid, N + 2)') =
           Cardinality(Counted(o, pid, N + 1)) +
             (IF x.by = o /\ x.pid = pid /\ x.counted THEN 1 ELSE 0)
<1> DEFINE S == Counted(o, pid, N + 1)
<1>1. IsFiniteSet(S) /\ N + 1 \notin S /\ Cardinality(S) \in Nat
  BY CountedFacts
<1>2. Counted(o, pid, N + 2)' =
        S \cup (IF x.by = o /\ x.pid = pid /\ x.counted THEN {N + 1} ELSE {})
  BY CountedGrows
<1>3. Cardinality(S \cup {N + 1}) = Cardinality(S) + 1 /\ S \cup {} = S
  BY <1>1, FS_AddElement
<1> HIDE DEF S
<1> QED BY <1>1, <1>2, <1>3 DEF S

-----------------------------------------------------------------------------
(* ts_packets_lookup_counter: the counter found is the PID's own, and a    *)
(* new one starts at zero.                                                 *)
LEMMA LookedFacts ==
  ASSUME TypeOK, OneCounterPerPid, NEW o \in Lists, NEW pid \in Pids
  PROVE  /\ Looked(o, pid) \in Seq(Counter)
         /\ Len(counters[o]) \in Nat
         /\ Len(Looked(o, pid)) \in Nat
         /\ Len(counters[o]) <= Len(Looked(o, pid))
         /\ Place(o, pid) \in 1..Len(Looked(o, pid))
         /\ Looked(o, pid)[Place(o, pid)].pid = pid
         /\ \A d \in 1..Len(Looked(o, pid)) :
              d # Place(o, pid) =>
                /\ d \in 1..Len(counters[o])
                /\ Looked(o, pid)[d] = counters[o][d]
                /\ counters[o][d].pid # pid
         /\ \/ /\ Place(o, pid) \in 1..Len(counters[o])
               /\ Looked(o, pid)[Place(o, pid)] = counters[o][Place(o, pid)]
            \/ /\ Having(o, pid) = {}
               /\ Looked(o, pid)[Place(o, pid)].value = 0
         /\ \A d \in 1..Len(counters[o]) : Looked(o, pid)[d] = counters[o][d]
<1>1. counters[o] \in Seq(Counter) /\ Len(counters[o]) \in Nat
  BY LenProperties DEF TypeOK
<1>2. CASE Having(o, pid) # {}
  <2>1. PICK c \in 1..Len(counters[o]) : counters[o][c].pid = pid
    BY <1>2 DEF Having
  <2>2. Having(o, pid) = {c}
    BY <2>1 DEF Having, OneCounterPerPid
  <2>3. \E e \in Having(o, pid) : \A d \in Having(o, pid) : e <= d
    BY <1>1, <2>1, <2>2
  <2>4. Place(o, pid) = c
    BY <2>2, <2>3, <1>2 DEF Place
  <2>5. Looked(o, pid) = counters[o]
    BY <1>2 DEF Looked
  <2>6. \A d \in 1..Len(counters[o]) : d # c => counters[o][d].pid # pid
    BY <2>2 DEF Having
  <2> QED BY <1>1, <2>1, <2>4, <2>5, <2>6
<1>3. CASE Having(o, pid) = {}
  <2> DEFINE new == [pid |-> pid, value |-> 0]
  <2>1. new \in Counter /\ new.pid = pid /\ new.value = 0
    BY DEF Counter
  <2>2. Looked(o, pid) = Append(counters[o], new)
    BY <1>3 DEF Looked
  <2>3. Place(o, pid) = Len(counters[o]) + 1
    BY <1>3 DEF Place
  <2> HIDE DEF new
  <2>4. /\ Looked(o, pid) \in Seq(Counter)
        /\ Len(Looked(o, pid)) = Len(counters[o]) + 1
        /\ \A d \in 1..Len(counters[o]) : Looked(o, pid)[d] = counters[o][d]
        /\ Looked(o, pid)[Len(counters[o]) + 1] = new
    BY <1>1, <2>1, <2>2, AppendProperties
  <2>5. \A d \in 1..Len(counters[o]) : counters[o][d].pid # pid
    BY <1>3 DEF Having
  <2> QED BY <1>1, <1>3, <2>1, <2>3, <2>4, <2>5
<1> QED BY <1>2, <1>3

-----------------------------------------------------------------------------
LEMMA InvInit == Init => Inv
<1> SUFFICES ASSUME Init PROVE Inv
  OBVIOUS
<1> USE DEF Init
<1>1. Len(packet) = 0 /\ Len(wire) = 0 /\ \A o \in Lists : Len(counters[o]) = 0
  OBVIOUS
<1>2. TypeOK
  BY DEF TypeOK
<1>3. \A S : 1..0 = {}
  OBVIOUS
<1>4. OneCounterPerPid /\ CountersAtNumber /\ WrittenHaveCounters
  BY <1>1, <1>3 DEF OneCounterPerPid, CountersAtNumber, WrittenHaveCounters
<1>5. NumberedByCount /\ PayloadsHaveBit /\ WrittenCorrected /\ GapsOnce
  BY <1>1, <1>3 DEF NumberedByCount, PayloadsHaveBit, WrittenCorrected, GapsOnce
<1> QED BY <1>2, <1>4, <1>5 DEF Inv

(* The parts about what was written hold as long as neither the wire nor a *)
(* counter changes.                                                        *)
LEMMA WireKept ==
  ASSUME Inv, UNCHANGED <<counters, wire>>
  PROVE  /\ OneCounterPerPid' /\ CountersAtNumber' /\ WrittenHaveCounters'
         /\ NumberedByCount' /\ GapsOnce'
  BY DEF Inv, OneCounterPerPid, CountersAtNumber, WrittenHaveCounters,
         NumberedByCount, GapsOnce, Counted, Written

LEMMA AddKeeps ==
  ASSUME Inv, NEW o \in Lists, NEW pid \in Pids, NEW bit \in BOOLEAN,
         NEW payload \in BOOLEAN, Add(o, pid, bit, payload)
  PROVE  Inv'
<1> DEFINE x == [pid |-> pid, bit |-> bit, payload |-> payload, cc |-> 0]
           k == Len(packet)
<1>1. x \in PacketType /\ (x.payload => x.bit)
  <2>1. 0 \in 0..(Modulus - 1)
    BY ContinuityAssumption
  <2> QED BY <2>1 DEF PacketType, Add
<1>2. packet' = Append(packet, x)
  BY DEF Add
<1> HIDE DEF x
<1>3. k \in Nat /\ packet \in Seq(PacketType)
  BY LenProperties DEF Inv, TypeOK
<1>4. /\ packet' \in Seq(PacketType)
      /\ Len(packet') = k + 1
      /\ \A n \in 1..k : packet'[n] = packet[n]
      /\ packet'[k + 1] = x
  BY <1>1, <1>2, <1>3, AppendProperties
<1>5. TypeOK'
  <2>1. \A q \in Lists : list'[q] \in Seq(1..Len(packet'))
    <3> TAKE q \in Lists
    <3>1. list[q] \in Seq(1..k)
      BY DEF Inv, TypeOK
    <3>2. list[q] \in Seq(1..(k + 1))
      BY <1>3, <3>1
    <3>3. Append(list[q], k + 1) \in Seq(1..(k + 1))
      BY <1>3, <3>2, AppendProperties
    <3>4. list'[q] = IF q = o THEN Append(list[q], k + 1) ELSE list[q]
      BY DEF Add, Inv, TypeOK
    <3> QED BY <1>4, <3>2, <3>3, <3>4
  <2>2. list' \in [Lists -> Seq(1..Len(packet'))]
    BY <2>1 DEF Add, Inv, TypeOK
  <2> QED BY <1>4, <2>2 DEF Add, Inv, TypeOK
<1>6. PayloadsHaveBit'
  <2> SUFFICES ASSUME NEW n \in 1..(k + 1) PROVE packet'[n].payload => packet'[n].bit
    BY <1>4 DEF PayloadsHaveBit
  <2>1. CASE n \in 1..k
    BY <1>4, <2>1 DEF Inv, PayloadsHaveBit
  <2>2. CASE n = k + 1
    BY <1>1, <1>4, <2>2
  <2> QED BY <1>3, <2>1, <2>2
<1>7. WrittenCorrected'
  <2> SUFFICES ASSUME NEW w \in 1..Len(wire)
               PROVE  /\ wire[w].packet \in 1..(k + 1)
                      /\ packet'[wire[w].packet].payload = wire[w].payload
                      /\ packet'[wire[w].packet].bit = wire[w].payload
                      /\ wire[w].payload => wire[w].counted
    BY <1>4 DEF WrittenCorrected, Add
  <2>1. /\ wire[w].packet \in 1..k
        /\ packet[wire[w].packet].payload = wire[w].payload
        /\ packet[wire[w].packet].bit = wire[w].payload
        /\ wire[w].payload => wire[w].counted
    BY DEF Inv, WrittenCorrected
  <2>2. packet'[wire[w].packet] = packet[wire[w].packet]
    BY <1>4, <2>1
  <2> QED BY <1>3, <2>1, <2>2
<1>8. UNCHANGED <<counters, wire>>
  BY DEF Add
<1> QED BY <1>5, <1>6, <1>7, <1>8, WireKept DEF Inv

LEMMA MoveKeeps ==
  ASSUME Inv, NEW to \in Lists, NEW from \in Lists, Move(to, from)
  PROVE  Inv'
<1>1. \A q \in Lists : list'[q] \in Seq(1..Len(packet'))
  <2> TAKE q \in Lists
  <2>1. list[to] \in Seq(1..Len(packet)) /\ list[from] \in Seq(1..Len(packet))
        /\ list[q] \in Seq(1..Len(packet))
    BY DEF Inv, TypeOK
  <2>2. list[to] \o list[from] \in Seq(1..Len(packet))
        /\ <<>> \in Seq(1..Len(packet))
    BY <2>1, ConcatProperties, EmptySeq
  <2>3. list'[q] \in {list[to] \o list[from], <<>>, list[q]}
    BY DEF Move, Inv, TypeOK
  <2> QED BY <2>1, <2>2, <2>3 DEF Move
<1>2. TypeOK'
  BY <1>1 DEF Move, Inv, TypeOK
<1>3. UNCHANGED <<counters, wire, packet>>
  BY DEF Move
<1>4. PayloadsHaveBit' /\ WrittenCorrected'
  BY <1>3 DEF Inv, PayloadsHaveBit, WrittenCorrected
<1> QED BY <1>2, <1>3, <1>4, WireKept DEF Inv

(* A correction of a bit, whichever operation makes it.                    *)
LEMMA CorrectionKeeps ==
  ASSUME Inv, NEW n \in 1..Len(packet), NEW cc \in 0..(Modulus - 1),
         packet' = [packet EXCEPT ![n].cc = cc, ![n].bit = packet[n].payload]
  PROVE  /\ packet' \in Seq(PacketType)
         /\ Len(packet') = Len(packet)
         /\ packet'[n].payload = packet[n].payload
         /\ packet'[n].bit = packet[n].payload
         /\ \A m \in 1..Len(packet) : m # n => packet'[m] = packet[m]
         /\ PayloadsHaveBit'
<1> DEFINE x == [packet[n] EXCEPT !.cc = cc, !.bit = packet[n].payload]
<1>1. packet \in Seq(PacketType) /\ packet[n] \in PacketType
  BY ElementOfSeq DEF Inv, TypeOK
<1>2. /\ x \in PacketType
      /\ x.payload = packet[n].payload
      /\ x.bit = packet[n].payload
  BY <1>1 DEF PacketType
<1>3. packet' = [packet EXCEPT ![n] = x]
  BY <1>1
<1> HIDE DEF x
<1>4. /\ packet' \in Seq(PacketType)
      /\ Len(packet') = Len(packet)
      /\ packet'[n] = x
      /\ \A m \in 1..Len(packet) : m # n => packet'[m] = packet[m]
  <2>1. /\ packet' \in Seq(PacketType)
        /\ Len(packet') = Len(packet)
        /\ \A m \in 1..Len(packet) : packet'[m] = IF m = n THEN x ELSE packet[m]
    <3>1. packet \in Seq(PacketType) /\ x \in PacketType
      BY <1>1, <1>2
    <3>2. /\ [packet EXCEPT ![n] = x] \in Seq(PacketType)
          /\ Len([packet EXCEPT ![n] = x]) = Len(packet)
          /\ \A m \in 1..Len(packet) :
               [packet EXCEPT ![n] = x][m] = IF m = n THEN x ELSE packet[m]
      BY <3>1, ExceptSeq
    <3> QED BY <1>3, <3>2, Zenon
  <2> QED BY <2>1
<1>5. PayloadsHaveBit'
  BY <1>2, <1>4 DEF Inv, PayloadsHaveBit
<1> QED BY <1>2, <1>4, <1>5

LEMMA DebugKeeps ==
  ASSUME Inv, NEW n \in 1..Len(packet), Debug(n)
  PROVE  Inv'
<1>1. packet \in Seq(PacketType) /\ packet[n] \in PacketType
  BY ElementOfSeq DEF Inv, TypeOK
<1> DEFINE cc == packet[n].cc
<1>2. cc \in 0..(Modulus - 1)
  BY <1>1 DEF PacketType
<1>3. packet' = [packet EXCEPT ![n].cc = cc, ![n].bit = packet[n].payload]
  <2>1. packet' = [packet EXCEPT ![n].bit = packet[n].payload]
    BY DEF Debug, Corrected
  <2>2. [packet[n] EXCEPT !.bit = packet[n].payload] =
          [packet[n] EXCEPT !.cc = cc, !.bit = packet[n].payload]
    BY <1>1 DEF PacketType
  <2>3. packet' = [packet EXCEPT ![n] = [packet[n] EXCEPT !.bit = packet[n].payload]]
    BY <1>1, <2>1
  <2>4. packet' = [packet EXCEPT
           ![n] = [packet[n] EXCEPT !.cc = cc, !.bit = packet[n].payload]]
    BY <2>2, <2>3, Zenon
  <2> QED BY <1>1, <2>4
<1> HIDE DEF cc
<1>4. /\ packet' \in Seq(PacketType)
      /\ Len(packet') = Len(packet)
      /\ packet'[n].payload = packet[n].payload
      /\ packet'[n].bit = packet[n].payload
      /\ \A m \in 1..Len(packet) : m # n => packet'[m] = packet[m]
      /\ PayloadsHaveBit'
  BY <1>2, <1>3, CorrectionKeeps
<1>5. UNCHANGED <<list, counters, at, wire>>
  BY DEF Debug
<1>6. TypeOK'
  BY <1>4, <1>5 DEF Inv, TypeOK
<1>7. WrittenCorrected'
  <2> SUFFICES ASSUME NEW w \in 1..Len(wire)
               PROVE  /\ wire[w].packet \in 1..Len(packet)
                      /\ packet'[wire[w].packet].payload = wire[w].payload
                      /\ packet'[wire[w].packet].bit = wire[w].payload
                      /\ wire[w].payload => wire[w].counted
    BY <1>4, <1>5 DEF WrittenCorrected
  <2>1. /\ wire[w].packet \in 1..Len(packet)
        /\ packet[wire[w].packet].payload = wire[w].payload
        /\ packet[wire[w].packet].bit = wire[w].payload
        /\ wire[w].payload => wire[w].counted
    BY DEF Inv, WrittenCorrected
  <2> QED BY <1>4, <2>1
<1> QED BY <1>4, <1>5, <1>6, <1>7, WireKept DEF Inv

-----------------------------------------------------------------------------
(* One packet written, in the terms the proof needs: n is the packet, p    *)
(* what it was before, c the place of its counter.                         *)
LEMMA PackOneFacts ==
  ASSUME Inv, NEW o \in Lists, PackOne(o)
  PROVE  \E n \in 1..Len(packet), c \in Nat, x \in WireType :
           /\ packet[n] \in PacketType
           /\ c = Place(o, packet[n].pid)
           /\ x.by = o /\ x.pid = packet[n].pid /\ x.payload = packet[n].payload
           /\ x.counted = packet[n].bit /\ x.packet = n
           /\ x.cc = InField(Looked(o, packet[n].pid)[c].value)
           /\ wire' = Append(wire, x)
           /\ packet' = [packet EXCEPT ![n].cc = x.cc, ![n].bit = packet[n].payload]
           /\ counters' = [counters EXCEPT ![o] =
                [Looked(o, packet[n].pid) EXCEPT ![c] =
                   [pid |-> packet[n].pid,
                    value |-> Looked(o, packet[n].pid)[c].value
                              + (IF packet[n].bit THEN 1 ELSE 0)]]]
           /\ UNCHANGED list
           /\ at' = [at EXCEPT ![o] = @ + 1]
<1> DEFINE n == list[o][at[o]]
           p == packet[n]
           L == Looked(o, p.pid)
           c == Place(o, p.pid)
           x == [by |-> o, pid |-> p.pid, payload |-> p.payload,
                 cc |-> InField(L[c].value), counted |-> p.bit, packet |-> n]
<1>1. n \in 1..Len(packet)
  <2>1. list[o] \in Seq(1..Len(packet)) /\ at[o] \in 1..Len(list[o])
    BY DEF Inv, TypeOK, PackOne
  <2> QED BY <2>1, ElementOfSeq
<1>2. p \in PacketType /\ packet \in Seq(PacketType) /\ Len(packet) \in Nat
  BY <1>1, ElementOfSeq, LenProperties DEF Inv, TypeOK
<1>3. /\ wire' = Append(wire, x)
      /\ packet' = [packet EXCEPT ![n].cc = x.cc, ![n].bit = p.payload]
      /\ counters' = [counters EXCEPT ![o] =
            [L EXCEPT ![c].value = IF p.bit THEN @ + 1 ELSE @]]
      /\ UNCHANGED list
      /\ at' = [at EXCEPT ![o] = @ + 1]
  BY DEF PackOne, Corrected
<1>4. p.pid \in Pids /\ p.bit \in BOOLEAN /\ p.payload \in BOOLEAN /\ n \in Nat
  BY <1>1, <1>2 DEF PacketType
<1> HIDE DEF n, p
<1>5. /\ L \in Seq(Counter)
      /\ Len(L) \in Nat
      /\ c \in 1..Len(L)
      /\ L[c].pid = p.pid
  BY <1>4, LookedFacts DEF Inv
<1>6. L[c] \in Counter /\ L[c].value \in Nat /\ c \in Nat
  <2> HIDE DEF L, c
  <2>1. L[c] \in Counter /\ c \in Nat
    BY <1>5, ElementOfSeq
  <2> QED BY <2>1 DEF Counter
<1>7. InField(L[c].value) \in 0..(Modulus - 1)
  BY <1>6, ContinuityAssumption DEF InField
<1>8. x \in WireType
  BY <1>4, <1>7 DEF WireType
<1>9. counters' = [counters EXCEPT ![o] =
         [L EXCEPT ![c] = [pid |-> p.pid,
                           value |-> L[c].value + (IF p.bit THEN 1 ELSE 0)]]]
  <2> HIDE DEF L, c, x
  <2> DEFINE v == L[c].value + (IF p.bit THEN 1 ELSE 0)
  <2>1. v = IF p.bit THEN L[c].value + 1 ELSE L[c].value
    BY <1>6
  <2>2. counters' = [counters EXCEPT ![o] = [L EXCEPT ![c].value = v]]
    BY <1>3, <1>5, <2>1
  <2> HIDE DEF v
  <2>3. [L[c] EXCEPT !.value = v] = [pid |-> p.pid, value |-> v]
    BY <1>5, <1>6 DEF Counter
  <2>4. [L EXCEPT ![c].value = v] = [L EXCEPT ![c] = [pid |-> p.pid, value |-> v]]
    BY <1>5, <2>3
  <2>5. counters' = [counters EXCEPT ![o] =
           [L EXCEPT ![c] = [pid |-> p.pid, value |-> v]]]
    BY <2>2, <2>4, Zenon
  <2> QED BY <2>5 DEF v
<1>10. /\ x.by = o /\ x.pid = p.pid /\ x.payload = p.payload
       /\ x.counted = p.bit /\ x.packet = n /\ x.cc = InField(L[c].value)
  OBVIOUS
<1> HIDE DEF x, c, L
<1> QED
  <2>1. p = packet[n] /\ L = Looked(o, packet[n].pid) /\ c = Place(o, packet[n].pid)
    BY DEF p, L, c
  <2>2. n \in 1..Len(packet) /\ c \in Nat /\ x \in WireType
    BY <1>1, <1>6, <1>8
  <2>3. /\ packet[n] \in PacketType
        /\ x.pid = packet[n].pid /\ x.payload = packet[n].payload
        /\ x.counted = packet[n].bit
        /\ x.cc = InField(Looked(o, packet[n].pid)[c].value)
    BY <1>2, <1>10, <2>1, Zenon
  <2>4. packet' = [packet EXCEPT ![n].cc = x.cc, ![n].bit = packet[n].payload]
    BY <1>3, <2>1, Zenon
  <2>5. counters' = [counters EXCEPT ![o] =
                [Looked(o, packet[n].pid) EXCEPT ![c] =
                   [pid |-> packet[n].pid,
                    value |-> Looked(o, packet[n].pid)[c].value
                              + (IF packet[n].bit THEN 1 ELSE 0)]]]
    BY <1>9, <2>1, Zenon
  <2> USE <2>2
  <2> WITNESS n \in 1..Len(packet), c \in Nat, x \in WireType
  <2> QED BY <1>3, <1>10, <2>1, <2>3, <2>4, <2>5, Zenon

LEMMA PackOneKeeps ==
  ASSUME Inv, NEW o \in Lists, PackOne(o)
  PROVE  Inv'
<1>1. PICK n \in 1..Len(packet), c \in Nat, x \in WireType :
        /\ packet[n] \in PacketType
        /\ c = Place(o, packet[n].pid)
        /\ x.by = o /\ x.pid = packet[n].pid /\ x.payload = packet[n].payload
        /\ x.counted = packet[n].bit /\ x.packet = n
        /\ x.cc = InField(Looked(o, packet[n].pid)[c].value)
        /\ wire' = Append(wire, x)
        /\ packet' = [packet EXCEPT ![n].cc = x.cc, ![n].bit = packet[n].payload]
        /\ counters' = [counters EXCEPT ![o] =
             [Looked(o, packet[n].pid) EXCEPT ![c] =
                [pid |-> packet[n].pid,
                 value |-> Looked(o, packet[n].pid)[c].value
                           + (IF packet[n].bit THEN 1 ELSE 0)]]]
        /\ UNCHANGED list
        /\ at' = [at EXCEPT ![o] = @ + 1]
  BY PackOneFacts
<1>2. PICK pid \in Pids, bit \in BOOLEAN, payload \in BOOLEAN, N \in Nat, P \in Nat :
        /\ pid = packet[n].pid /\ bit = packet[n].bit /\ payload = packet[n].payload
        /\ N = Len(wire) /\ P = Len(packet)
  BY <1>1, LenProperties DEF PacketType, Inv, TypeOK
<1>3. PICK L \in Seq(Counter) : L = Looked(o, pid)
  BY LookedFacts DEF Inv
<1>4. /\ Len(L) \in Nat
      /\ Len(counters[o]) \in Nat
      /\ Len(counters[o]) <= Len(L)
      /\ c \in 1..Len(L)
      /\ L[c].pid = pid
      /\ \A d \in 1..Len(L) : d # c =>
           d \in 1..Len(counters[o]) /\ L[d] = counters[o][d] /\ counters[o][d].pid # pid
      /\ \/ c \in 1..Len(counters[o]) /\ L[c] = counters[o][c]
         \/ Having(o, pid) = {} /\ L[c].value = 0
      /\ \A d \in 1..Len(counters[o]) : L[d] = counters[o][d]
  BY <1>1, <1>2, <1>3, LookedFacts DEF Inv
<1>5. PICK value \in Nat : value = L[c].value
  <2>1. L[c] \in Counter
    BY <1>4, ElementOfSeq
  <2> QED BY <2>1 DEF Counter
<1>6. PICK k \in Counter :
        k = [pid |-> pid, value |-> value + (IF bit THEN 1 ELSE 0)]
  <2>1. value + (IF bit THEN 1 ELSE 0) \in Nat
    OBVIOUS
  <2> QED BY <2>1 DEF Counter
<1>7. /\ counters'[o] \in Seq(Counter)
      /\ Len(counters'[o]) = Len(L)
      /\ counters'[o][c] = k
      /\ \A d \in 1..Len(L) : d # c => counters'[o][d] = L[d]
      /\ \A q \in Lists : q # o => counters'[q] = counters[q]
      /\ DOMAIN counters' = Lists /\ counters' = [counters EXCEPT ![o] = counters'[o]]
  <2>1. counters' = [counters EXCEPT ![o] = [L EXCEPT ![c] = k]]
    BY <1>1, <1>2, <1>3, <1>5, <1>6, Zenon
  <2>2. /\ [L EXCEPT ![c] = k] \in Seq(Counter)
        /\ Len([L EXCEPT ![c] = k]) = Len(L)
        /\ \A d \in 1..Len(L) : [L EXCEPT ![c] = k][d] = IF d = c THEN k ELSE L[d]
    BY <1>4, ExceptSeq
  <2>3. /\ counters'[o] = [L EXCEPT ![c] = k]
        /\ \A q \in Lists : q # o => counters'[q] = counters[q]
        /\ DOMAIN counters' = Lists
        /\ counters' = [counters EXCEPT ![o] = counters'[o]]
    BY <2>1 DEF Inv, TypeOK
  <2> QED BY <1>4, <2>2, <2>3
<1>8. /\ wire' \in Seq(WireType)
      /\ Len(wire') = N + 1
      /\ \A v \in 1..N : wire'[v] = wire[v]
      /\ wire'[N + 1] = x
  <2>1. wire \in Seq(WireType)
    BY DEF Inv, TypeOK
  <2> QED BY <1>1, <1>2, <2>1, AppendProperties
<1>9. /\ packet' \in Seq(PacketType)
      /\ Len(packet') = P
      /\ packet'[n].payload = payload
      /\ packet'[n].bit = payload
      /\ \A m \in 1..P : m # n => packet'[m] = packet[m]
      /\ PayloadsHaveBit'
  <2>1. x.cc \in 0..(Modulus - 1)
    BY DEF WireType
  <2> QED BY <1>1, <1>2, <2>1, CorrectionKeeps
<1>10. x.by = o /\ x.pid = pid /\ x.payload = payload /\ x.counted = bit /\ x.packet = n
  BY <1>1, <1>2
<1>11. value = Cardinality(Counted(o, pid, N + 1))
  <2>1. CASE c \in 1..Len(counters[o]) /\ L[c] = counters[o][c]
    BY <1>2, <1>4, <1>5, <2>1 DEF Inv, CountersAtNumber
  <2>2. CASE Having(o, pid) = {} /\ L[c].value = 0
    <3>1. \A w \in 1..N : ~(wire[w].by = o /\ wire[w].pid = pid)
      <4> SUFFICES ASSUME NEW w \in 1..N, wire[w].by = o, wire[w].pid = pid
                   PROVE  FALSE
        OBVIOUS
      <4>1. PICK e \in 1..Len(counters[o]) : counters[o][e].pid = pid
        BY <1>2 DEF Inv, WrittenHaveCounters
      <4> QED BY <2>2, <4>1 DEF Having
    <3>2. (N + 1) - 1 = N
      OBVIOUS
    <3>3. Counted(o, pid, N + 1) = {}
      BY <3>1, <3>2 DEF Counted, Written
    <3> QED BY <1>5, <2>2, <3>3, FS_EmptySet
  <2> QED BY <1>4, <2>1, <2>2
<1>12. TypeOK'
  <2>1. counters' \in [Lists -> Seq(Counter)]
    BY <1>7 DEF Inv, TypeOK
  <2>2. at' \in [Lists -> Nat]
    BY <1>1 DEF Inv, TypeOK
  <2>3. list' \in [Lists -> Seq(1..Len(packet'))]
    BY <1>1, <1>2, <1>9 DEF Inv, TypeOK
  <2> QED BY <1>8, <1>9, <2>1, <2>2, <2>3 DEF TypeOK
<1>13. OneCounterPerPid'
  <2> SUFFICES ASSUME NEW q \in Lists, NEW d \in 1..Len(counters'[q]),
                      NEW e \in 1..Len(counters'[q]),
                      counters'[q][d].pid = counters'[q][e].pid
               PROVE  d = e
    BY DEF OneCounterPerPid
  <2>1. CASE q # o
    BY <1>7, <2>1 DEF Inv, OneCounterPerPid
  <2>2. CASE q = o
    <3>1. k.pid = pid
      BY <1>6
    <3> QED BY <1>4, <1>7, <2>2, <3>1 DEF Inv, OneCounterPerPid
  <2> QED BY <2>1, <2>2
<1>14. \A q \in Lists, r \in Pids :
         Cardinality(Counted(q, r, N + 2)') =
           Cardinality(Counted(q, r, N + 1)) +
             (IF q = o /\ r = pid /\ bit THEN 1 ELSE 0)
  <2> TAKE q \in Lists, r \in Pids
  <2>1. Cardinality(Counted(q, r, N + 2)') =
          Cardinality(Counted(q, r, N + 1)) +
            (IF x.by = q /\ x.pid = r /\ x.counted THEN 1 ELSE 0)
    BY <1>8, CardinalityGrows
  <2> QED BY <1>10, <2>1
<1>15. CountersAtNumber'
  <2> SUFFICES ASSUME NEW q \in Lists, NEW r \in Pids,
                      NEW d \in 1..Len(counters'[q]), counters'[q][d].pid = r
               PROVE  counters'[q][d].value = Cardinality(Counted(q, r, N + 2)')
    <3>1. Len(wire') + 1 = N + 2
      BY <1>8
    <3> QED BY <3>1 DEF CountersAtNumber, Counted, Written
  <2>1. CASE q # o
    <3>1. d \in 1..Len(counters[q]) /\ counters'[q][d] = counters[q][d]
      BY <1>7, <2>1
    <3>5. counters[q][d].value = Cardinality(Counted(q, r, N + 1))
      BY <1>2, <3>1 DEF Inv, CountersAtNumber
    <3>6. Cardinality(Counted(q, r, N + 1)) \in Nat
      BY CountedFacts
    <3>7. Cardinality(Counted(q, r, N + 2)') = Cardinality(Counted(q, r, N + 1))
      BY <1>14, <2>1, <3>6
    <3> QED BY <3>1, <3>5, <3>7
  <2>2. CASE q = o /\ d = c
    <3>1. Cardinality(Counted(o, pid, N + 2)') = value + (IF bit THEN 1 ELSE 0)
      BY <1>11, <1>14
    <3>2. counters'[q][d].pid = pid /\ counters'[q][d].value = value + (IF bit THEN 1 ELSE 0)
      BY <1>6, <1>7, <2>2
    <3> QED BY <2>2, <3>1, <3>2
  <2>3. CASE q = o /\ d # c
    <3>1. /\ d \in 1..Len(counters[q]) /\ counters'[q][d] = counters[q][d]
          /\ counters[q][d].pid # pid
      BY <1>4, <1>7, <2>3
    <3>5. counters[q][d].value = Cardinality(Counted(q, r, N + 1))
      BY <1>2, <3>1 DEF Inv, CountersAtNumber
    <3>6. Cardinality(Counted(q, r, N + 1)) \in Nat
      BY CountedFacts
    <3>7. Cardinality(Counted(q, r, N + 2)') = Cardinality(Counted(q, r, N + 1))
      BY <1>14, <3>1, <3>6
    <3> QED BY <3>1, <3>5, <3>7
  <2> QED BY <2>1, <2>2, <2>3
<1>16. WrittenHaveCounters'
  <2> SUFFICES ASSUME NEW w \in 1..(N + 1)
               PROVE  \E d \in 1..Len(counters'[wire'[w].by]) :
                        counters'[wire'[w].by][d].pid = wire'[w].pid
    BY <1>8 DEF WrittenHaveCounters
  <2>1. CASE w = N + 1
    <3>1. wire'[w].by = o /\ wire'[w].pid = pid /\ counters'[o][c].pid = pid
      BY <1>6, <1>7, <1>8, <1>10, <2>1
    <3> QED BY <1>4, <1>7, <3>1
  <2>2. CASE w \in 1..N
    <3>1. PICK d \in 1..Len(counters[wire[w].by]) :
            counters[wire[w].by][d].pid = wire[w].pid
      BY <1>2, <2>2 DEF Inv, WrittenHaveCounters
    <3>2. wire'[w] = wire[w] /\ wire[w].by \in Lists
      <4>1. wire[w] \in WireType
        BY <1>2, <2>2, ElementOfSeq DEF Inv, TypeOK
      <4> QED BY <1>8, <2>2, <4>1 DEF WireType
    <3>3. CASE wire[w].by # o
      BY <1>7, <3>1, <3>2, <3>3
    <3>4. CASE wire[w].by = o /\ d # c
      BY <1>4, <1>7, <3>1, <3>2, <3>4
    <3>5. CASE wire[w].by = o /\ d = c
      <4>1. counters'[o][c].pid = pid /\ L[c].pid = pid /\ counters[o][c] = L[c]
        BY <1>4, <1>6, <1>7, <3>1, <3>5
      <4> QED BY <1>4, <1>7, <3>1, <3>2, <3>5, <4>1
    <3> QED BY <3>3, <3>4, <3>5
  <2> QED BY <1>2, <2>1, <2>2
<1>17. NumberedByCount'
  <2> SUFFICES ASSUME NEW q \in Lists, NEW r \in Pids, NEW w \in 1..(N + 1),
                      wire'[w].by = q, wire'[w].pid = r
               PROVE  wire'[w].cc = Cardinality(Counted(q, r, w)') % Modulus
    BY <1>8 DEF NumberedByCount, Counted, Written
  <2>1. Counted(q, r, w)' = Counted(q, r, w)
    BY <1>8, CountedStays
  <2>2. CASE w = N + 1
    <3>1. x.cc = value % Modulus
      BY <1>1, <1>2, <1>3, <1>5 DEF InField
    <3> QED BY <1>8, <1>10, <1>11, <2>1, <2>2, <3>1
  <2>3. CASE w \in 1..N
    BY <1>2, <1>8, <2>1, <2>3 DEF Inv, NumberedByCount
  <2> QED BY <1>2, <2>2, <2>3
<1>18. WrittenCorrected'
  <2> SUFFICES ASSUME NEW w \in 1..(N + 1)
               PROVE  /\ wire'[w].packet \in 1..P
                      /\ packet'[wire'[w].packet].payload = wire'[w].payload
                      /\ packet'[wire'[w].packet].bit = wire'[w].payload
                      /\ wire'[w].payload => wire'[w].counted
    BY <1>8, <1>9 DEF WrittenCorrected
  <2>1. CASE w = N + 1
    <3>1. payload => bit
      BY <1>2 DEF Inv, PayloadsHaveBit
    <3> QED BY <1>2, <1>8, <1>9, <1>10, <2>1, <3>1
  <2>2. CASE w \in 1..N
    <3>1. /\ wire'[w] = wire[w]
          /\ wire[w].packet \in 1..P
          /\ packet[wire[w].packet].payload = wire[w].payload
          /\ packet[wire[w].packet].bit = wire[w].payload
          /\ wire[w].payload => wire[w].counted
      BY <1>2, <1>8, <2>2 DEF Inv, WrittenCorrected
    <3> QED BY <1>2, <1>9, <3>1
  <2> QED BY <1>2, <2>1, <2>2
<1>19. GapsOnce'
  <2> SUFFICES ASSUME NEW v \in 1..(N + 1), NEW w \in 1..(N + 1), v < w,
                      wire'[v].packet = wire'[w].packet, ~wire'[v].payload
               PROVE  ~wire'[w].counted
    BY <1>8 DEF GapsOnce
  <2>1. v \in 1..N /\ wire'[v] = wire[v]
    BY <1>2, <1>8
  <2>2. CASE w \in 1..N
    BY <1>2, <1>8, <2>1, <2>2 DEF Inv, GapsOnce
  <2>3. CASE w = N + 1
    <3>1. packet[n].bit = wire[v].payload
      BY <1>2, <1>8, <1>10, <2>1, <2>3 DEF Inv, WrittenCorrected
    <3> QED BY <1>2, <1>8, <1>10, <2>1, <2>3, <3>1
  <2> QED BY <2>2, <2>3
<1> QED BY <1>9, <1>12, <1>13, <1>15, <1>16, <1>17, <1>18, <1>19 DEF Inv

LEMMA BeginEndKeep ==
  ASSUME Inv, NEW o \in Lists, BeginPack(o) \/ EndPack(o)
  PROVE  Inv'
<1>1. UNCHANGED <<packet, list, counters, wire>>
  BY DEF BeginPack, EndPack
<1>2. at' \in [Lists -> Nat]
  <2>1. at' = [at EXCEPT ![o] = 1] \/ at' = [at EXCEPT ![o] = 0]
    BY DEF BeginPack, EndPack
  <2>2. at \in [Lists -> Nat]
    BY DEF Inv, TypeOK
  <2> QED BY <2>1, <2>2
<1>3. TypeOK'
  BY <1>1, <1>2 DEF Inv, TypeOK
<1>4. PayloadsHaveBit' /\ WrittenCorrected'
  BY <1>1 DEF Inv, PayloadsHaveBit, WrittenCorrected
<1> QED BY <1>1, <1>3, <1>4, WireKept DEF Inv

LEMMA InvNext == Inv /\ [Next]_vars => Inv'
<1> SUFFICES ASSUME Inv, [Next]_vars PROVE Inv'
  OBVIOUS
<1>1. ASSUME NEW o \in Lists, NEW pid \in Pids, NEW bit \in BOOLEAN,
             NEW payload \in BOOLEAN, Add(o, pid, bit, payload)
      PROVE  Inv'
  BY <1>1, AddKeeps
<1>2. ASSUME NEW to \in Lists, NEW from \in Lists, Move(to, from)
      PROVE  Inv'
  BY <1>2, MoveKeeps
<1>3. ASSUME NEW n \in 1..Len(packet), Debug(n)
      PROVE  Inv'
  BY <1>3, DebugKeeps
<1>4. ASSUME NEW o \in Lists, BeginPack(o) \/ EndPack(o)
      PROVE  Inv'
  BY <1>4, BeginEndKeep
<1>5. ASSUME NEW o \in Lists, PackOne(o)
      PROVE  Inv'
  BY <1>5, PackOneKeeps
<1>6. CASE UNCHANGED vars
  <2>1. UNCHANGED <<packet, list, counters, at, wire>>
    BY <1>6 DEF vars
  <2>2. TypeOK' /\ PayloadsHaveBit' /\ WrittenCorrected'
    BY <2>1 DEF Inv, TypeOK, PayloadsHaveBit, WrittenCorrected
  <2> QED BY <2>1, <2>2, WireKept DEF Inv
<1> QED BY <1>1, <1>2, <1>3, <1>4, <1>5, <1>6 DEF Next

LEMMA InvAlways == Spec => []Inv
<1> QED BY InvInit, InvNext, PTL DEF Spec

-----------------------------------------------------------------------------
(* What counted are the payload packets and the gaps.                      *)
LEMMA CountedSplits ==
  ASSUME Inv, NEW w \in 1..Len(wire), NEW o, NEW pid
  PROVE  Cardinality(Counted(o, pid, w)) =
           Cardinality({v \in Written(o, pid, w) : wire[v].payload}) +
           Cardinality({v \in Written(o, pid, w) :
                          wire[v].counted /\ ~wire[v].payload})
<1> DEFINE payloads == {v \in Written(o, pid, w) : wire[v].payload}
           gaps == {v \in Written(o, pid, w) : wire[v].counted /\ ~wire[v].payload}
<1>1. Len(wire) \in Nat
  BY LenProperties DEF Inv, TypeOK
<1>2. \A v \in Written(o, pid, w) : wire[v].payload => wire[v].counted
  BY <1>1 DEF Inv, WrittenCorrected, Written
<1>3. Counted(o, pid, w) = payloads \cup gaps
  BY <1>2 DEF Counted
<1>4. IsFiniteSet(payloads) /\ IsFiniteSet(gaps)
  <2>1. IsFiniteSet(1..(w - 1))
    BY FS_Interval
  <2>2. payloads \in SUBSET (1..(w - 1)) /\ gaps \in SUBSET (1..(w - 1))
    BY DEF Written
  <2> QED BY <2>1, <2>2, FS_Subset
<1>5. payloads \cap gaps = {}
  OBVIOUS
<1> HIDE DEF payloads, gaps
<1>6. Cardinality(payloads \cup gaps) =
        Cardinality(payloads) + Cardinality(gaps) - Cardinality(payloads \cap gaps)
  BY <1>4, FS_Union
<1>7. Cardinality(payloads) \in Nat /\ Cardinality(gaps) \in Nat
  BY <1>4, FS_CardinalityType
<1>8. Cardinality(payloads \cap gaps) = 0
  BY <1>5, FS_EmptySet
<1>9. Cardinality(Counted(o, pid, w)) = Cardinality(payloads) + Cardinality(gaps)
  BY <1>3, <1>6, <1>7, <1>8
<1> QED BY <1>9 DEF payloads, gaps

(* ts_packets_pack, ts_packets.c:111-114: over all the writes of an object *)
(* and whatever was appended in between, the payload packets of a PID are  *)
(* numbered one after the other, modulo any modulus, and only a packet     *)
(* with the payload bit and no payload makes a number that a decoder does  *)
(* not see.                                                                *)
THEOREM PayloadsNumberedAlways == Spec => []PayloadsNumbered
<1>1. Inv => PayloadsNumbered
  <2> SUFFICES ASSUME Inv, NEW w \in 1..Len(wire), wire[w].payload
               PROVE  /\ wire[w].counted
                      /\ wire[w].cc =
                           (Cardinality({v \in Written(wire[w].by, wire[w].pid, w) :
                                           wire[v].payload}) +
                            Cardinality({v \in Written(wire[w].by, wire[w].pid, w) :
                                           wire[v].counted /\ ~wire[v].payload}))
                           % Modulus
    BY DEF PayloadsNumbered
  <2>1. wire[w].counted
    BY DEF Inv, WrittenCorrected
  <2>2. wire[w].by \in Lists /\ wire[w].pid \in Pids
    <3>1. wire[w] \in WireType
      BY ElementOfSeq DEF Inv, TypeOK
    <3> QED BY <3>1 DEF WireType
  <2>3. wire[w].cc = Cardinality(Counted(wire[w].by, wire[w].pid, w)) % Modulus
    BY <2>2 DEF Inv, NumberedByCount
  <2> QED BY <2>1, <2>3, CountedSplits
<1> QED BY <1>1, InvAlways, PTL

(* ts_packets_pack, ts_packets.c:113 and ts_packet.c:35-38: a packet       *)
(* without payload makes a gap in the numbers at most once, however often  *)
(* and by whichever object it is written.                                  *)
THEOREM GapsOnceAlways == Spec => []GapsOnce
<1>1. Inv => GapsOnce
  BY DEF Inv
<1> QED BY <1>1, InvAlways, PTL

(* ts_packets_lookup_counter, ts_packets.c:63-75: an object never has two  *)
(* counters of a PID, and each is at the number of packets that counted in *)
(* all the writes of the object.                                           *)
THEOREM CountersAlways == Spec => []CountersInStep
<1>1. Inv => CountersInStep
  <2> SUFFICES ASSUME Inv, NEW o \in Lists
               PROVE  /\ \A c, d \in 1..Len(counters[o]) :
                           counters[o][c].pid = counters[o][d].pid => c = d
                      /\ \A c \in 1..Len(counters[o]) :
                           counters[o][c].value =
                             Cardinality(Counted(o, counters[o][c].pid, Len(wire) + 1))
    BY DEF CountersInStep, Counted
  <2>1. \A c \in 1..Len(counters[o]) : counters[o][c].pid \in Pids
    <3> TAKE c \in 1..Len(counters[o])
    <3>1. counters[o] \in Seq(Counter)
      BY DEF Inv, TypeOK
    <3>2. counters[o][c] \in Counter
      BY <3>1, ElementOfSeq
    <3> QED BY <3>2 DEF Counter
  <2> QED BY <2>1 DEF Inv, OneCounterPerPid, CountersAtNumber
<1> QED BY <1>1, InvAlways, PTL

=============================================================================

---------------------------- MODULE Units_proofs ----------------------------
(***************************************************************************)
(* Proofs about Units: at most one unit is open for a PID (and with it the *)
(* types), every unit is the run of packets it should be, every payload is *)
(* placed once, and the list of open units implements one reassembler for  *)
(* each PID.                                                               *)
(***************************************************************************)
EXTENDS Units, SequenceTheorems, WellFoundedInduction, TLAPS

(* What list_erase leaves of a list: one element less, the others in order.*)
LEMMA RemoveAtFacts ==
  ASSUME NEW S, NEW s \in Seq(S), NEW i \in 1..Len(s)
  PROVE  /\ RemoveAt(s, i) \in Seq(S)
         /\ Len(RemoveAt(s, i)) = Len(s) - 1
         /\ \A j \in 1..(Len(s) - 1) :
              RemoveAt(s, i)[j] = IF j < i THEN s[j] ELSE s[j + 1]
<1> DEFINE L == SubSeq(s, 1, i - 1)
           R == SubSeq(s, i + 1, Len(s))
<1>1. Len(s) \in Nat /\ i \in Nat /\ \A j \in 1..Len(s) : s[j] \in S
  BY LenProperties, ElementOfSeq
<1>2. /\ L \in Seq(S) /\ Len(L) = i - 1
      /\ \A j \in 1..(i - 1) : L[j] = s[j]
  <2>1. \A j \in 1..(i - 1) : s[j] \in S
    BY <1>1
  <2> QED BY <1>1, <2>1, SubSeqProperties
<1>3. /\ R \in Seq(S) /\ Len(R) = Len(s) - i
      /\ \A j \in 1..(Len(s) - i) : R[j] = s[i + j]
  <2>1. \A j \in (i + 1)..Len(s) : s[j] \in S
    BY <1>1
  <2>2. /\ R \in Seq(S)
        /\ Len(R) = IF i + 1 <= Len(s) THEN Len(s) - (i + 1) + 1 ELSE 0
        /\ \A j \in 1..(Len(s) - (i + 1) + 1) : R[j] = s[(i + 1) + j - 1]
    BY <1>1, <2>1, SubSeqProperties
  <2> QED BY <1>1, <2>2
<1>4. /\ L \o R \in Seq(S)
      /\ Len(L \o R) = Len(L) + Len(R)
      /\ \A j \in 1..(Len(L) + Len(R)) :
           (L \o R)[j] = IF j <= Len(L) THEN L[j] ELSE R[j - Len(L)]
  BY <1>2, <1>3, ConcatProperties
<1>5. ASSUME NEW j \in 1..(Len(s) - 1)
      PROVE  (L \o R)[j] = IF j < i THEN s[j] ELSE s[j + 1]
  <2> HIDE DEF L, R
  <2>1. CASE j < i
    BY <2>1, <1>1, <1>2, <1>3, <1>4
  <2>2. CASE ~(j < i)
    <3>1. j - Len(L) \in 1..(Len(s) - i) /\ i + (j - Len(L)) = j + 1
      BY <2>2, <1>1, <1>2
    <3>2. j \in 1..(Len(L) + Len(R)) /\ ~(j <= Len(L))
      BY <2>2, <1>1, <1>2, <1>3
    <3>3. (L \o R)[j] = R[j - Len(L)]
      BY <3>2, <1>4
    <3>4. R[j - Len(L)] = s[j + 1]
      BY <3>1, <1>3
    <3> QED BY <2>2, <3>3, <3>4
  <2> QED BY <2>1, <2>2
<1>6. RemoveAt(s, i) = L \o R
  BY DEF RemoveAt
<1> HIDE DEF L, R
<1>7. Len(L \o R) = Len(s) - 1
  BY <1>1, <1>2, <1>3, <1>4
<1> QED BY <1>4, <1>5, <1>6, <1>7

-----------------------------------------------------------------------------
(* The list of open units holds none of them twice.                        *)
Distinct(s) == \A i, j \in 1..Len(s) : s[i] = s[j] => i = j

(* The scan of ts_units_unpack: when a unit of the PID is open, it is the  *)
(* only match, and the scan ends with it.                                  *)
LEMMA FoundFacts ==
  ASSUME TypeOK, OneOpenPerPid, NEW pid, Matches(pid) # {}
  PROVE  /\ Found(pid) \in 1..Len(incomplete)
         /\ units[incomplete[Found(pid)]].pid = pid
         /\ \A i \in Matches(pid) : i = Found(pid)
<1>1. \A i, j \in Matches(pid) : i = j
  BY DEF Matches, OneOpenPerPid
<1>2. PICK i \in Matches(pid) : TRUE
  OBVIOUS
<1>3. i \in Nat
  BY LenProperties DEF Matches, TypeOK
<1>4. \A j \in Matches(pid) : j <= i
  BY <1>1, <1>2, <1>3
<1>5. Found(pid) \in Matches(pid)
  BY <1>2, <1>4 DEF Found
<1> QED BY <1>1, <1>5 DEF Matches

(* What the list holds after the open unit of the PID is erased and the    *)
(* new one added.                                                          *)
LEMMA ReopenFacts ==
  ASSUME TypeOK, OneOpenPerPid, NEW pid
  PROVE  /\ Reopen(pid) \in Seq(Nat \ {0})
         /\ Distinct(Reopen(pid))
         /\ \A k : (\E i \in 1..Len(Reopen(pid)) : Reopen(pid)[i] = k)
                     <=> \/ k = Len(units) + 1
                         \/ IsOpen(k) /\ units[k].pid # pid
<1> DEFINE rest == IF Matches(pid) = {} THEN incomplete
                                       ELSE RemoveAt(incomplete, Found(pid))
           N == Len(units) + 1
<1>1. /\ Len(incomplete) \in Nat
      /\ incomplete \in Seq(Nat \ {0})
      /\ \A i \in 1..Len(incomplete) :
           incomplete[i] \in 1..Len(units)
      /\ Len(units) \in Nat
  BY LenProperties DEF TypeOK, OneOpenPerPid
<1>2. Distinct(incomplete)
  BY DEF OneOpenPerPid, Distinct
<1>3. /\ rest \in Seq(Nat \ {0})
      /\ Distinct(rest)
      /\ \A k : (\E i \in 1..Len(rest) : rest[i] = k)
                  <=> IsOpen(k) /\ units[k].pid # pid
  <2>1. CASE Matches(pid) = {}
    <3>1. \A i \in 1..Len(incomplete) : units[incomplete[i]].pid # pid
      BY <2>1 DEF Matches
    <3> QED BY <2>1, <3>1, <1>1, <1>2 DEF IsOpen
  <2>2. CASE Matches(pid) # {}
    <3> DEFINE f == Found(pid)
    <3>1. /\ f \in 1..Len(incomplete)
          /\ units[incomplete[f]].pid = pid
          /\ \A i \in 1..Len(incomplete) : units[incomplete[i]].pid = pid => i = f
      BY <2>2, FoundFacts DEF Matches
    <3> HIDE DEF f
    <3>2. /\ rest = RemoveAt(incomplete, f)
          /\ rest \in Seq(Nat \ {0})
          /\ Len(rest) = Len(incomplete) - 1
          /\ \A j \in 1..(Len(incomplete) - 1) :
               rest[j] = IF j < f THEN incomplete[j] ELSE incomplete[j + 1]
      <4>1. rest = RemoveAt(incomplete, f)
        BY <2>2 DEF f
      <4> QED BY <4>1, <3>1, <1>1, RemoveAtFacts, ZenonT(30), SMTT(30)
    <3> HIDE DEF rest
    <3>3. ASSUME NEW i \in 1..Len(rest)
          PROVE  \E a \in 1..Len(incomplete) :
                   rest[i] = incomplete[a] /\ a = IF i < f THEN i ELSE i + 1
      <4>1. CASE i < f
        <5>1. i \in 1..Len(incomplete) /\ rest[i] = incomplete[i]
          BY <4>1, <3>1, <3>2, <1>1, SMTT(30)
        <5> QED BY <4>1, <5>1
      <4>2. CASE ~(i < f)
        <5>1. i + 1 \in 1..Len(incomplete) /\ rest[i] = incomplete[i + 1]
          BY <4>2, <3>1, <3>2, <1>1
        <5> QED BY <4>2, <5>1
      <4> QED BY <4>1, <4>2
    <3>4. Distinct(rest)
      <4> SUFFICES ASSUME NEW i \in 1..Len(rest), NEW j \in 1..Len(rest),
                          rest[i] = rest[j]
                   PROVE  i = j
        BY DEF Distinct
      <4>1. PICK a \in 1..Len(incomplete) :
              rest[i] = incomplete[a] /\ a = IF i < f THEN i ELSE i + 1
        BY <3>3
      <4>2. PICK b \in 1..Len(incomplete) :
              rest[j] = incomplete[b] /\ b = IF j < f THEN j ELSE j + 1
        BY <3>3
      <4>3. a = b
        BY <4>1, <4>2, <1>2 DEF Distinct
      <4>4. i \in Int /\ j \in Int /\ f \in Int
        BY <3>1, <3>2, <1>1
      <4> QED BY <4>1, <4>2, <4>3, <4>4
    <3>5. ASSUME NEW k
          PROVE  (\E i \in 1..Len(rest) : rest[i] = k)
                   <=> IsOpen(k) /\ units[k].pid # pid
      <4>1. ASSUME NEW i \in 1..Len(rest), rest[i] = k
            PROVE  IsOpen(k) /\ units[k].pid # pid
        <5>1. PICK a \in 1..Len(incomplete) :
                rest[i] = incomplete[a] /\ a = IF i < f THEN i ELSE i + 1
          BY <3>3
        <5>2. a # f
          BY <5>1, <3>1, <3>2, <1>1, SMTT(30)
        <5> QED BY <4>1, <5>1, <5>2, <3>1 DEF IsOpen
      <4>2. ASSUME IsOpen(k), units[k].pid # pid
            PROVE  \E i \in 1..Len(rest) : rest[i] = k
        <5>1. PICK a \in 1..Len(incomplete) : incomplete[a] = k /\ a # f
          BY <4>2, <3>1 DEF IsOpen
        <5>2. CASE a < f
          <6>1. a \in 1..(Len(incomplete) - 1)
            BY <5>2, <3>1, <1>1
          <6> QED BY <5>1, <5>2, <6>1, <3>2
        <5>3. CASE a > f
          <6>1. a - 1 \in 1..(Len(incomplete) - 1) /\ ~(a - 1 < f) /\ (a - 1) + 1 = a
            BY <5>3, <3>1, <1>1
          <6> QED BY <5>1, <6>1, <3>2
        <5> QED BY <5>1, <5>2, <5>3, <3>1, <1>1
      <4> QED BY <4>1, <4>2
    <3> QED BY <3>2, <3>4, <3>5
  <2> QED BY <2>1, <2>2
<1> HIDE DEF rest
<1>4. N \in Nat \ {0}
  BY <1>1
<1>5. /\ Append(rest, N) \in Seq(Nat \ {0})
      /\ Len(Append(rest, N)) = Len(rest) + 1
      /\ \A i \in 1..Len(rest) : Append(rest, N)[i] = rest[i]
      /\ Append(rest, N)[Len(rest) + 1] = N
  BY <1>3, <1>4, AppendProperties
<1>6. Reopen(pid) = Append(rest, N)
  BY DEF Reopen, rest
<1>7. Len(rest) \in Nat
  BY <1>3, LenProperties
<1>8. ASSUME NEW i \in 1..Len(rest) PROVE rest[i] # N
  <2>1. IsOpen(rest[i])
    BY <1>3
  <2> QED BY <2>1, <1>1 DEF IsOpen
<1>9. Distinct(Append(rest, N))
  <2> SUFFICES ASSUME NEW i \in 1..(Len(rest) + 1), NEW j \in 1..(Len(rest) + 1),
                      Append(rest, N)[i] = Append(rest, N)[j]
               PROVE  i = j
    BY <1>5 DEF Distinct
  <2> HIDE DEF N
  <2> QED BY <1>3, <1>5, <1>7, <1>8 DEF Distinct
<1>10. ASSUME NEW k
       PROVE  (\E i \in 1..Len(Append(rest, N)) : Append(rest, N)[i] = k)
                <=> k = N \/ (IsOpen(k) /\ units[k].pid # pid)
  <2>1. (\E i \in 1..(Len(rest) + 1) : Append(rest, N)[i] = k)
          <=> k = N \/ (\E i \in 1..Len(rest) : rest[i] = k)
    <3> HIDE DEF N
    <3> QED BY <1>5, <1>7
  <2> QED BY <2>1, <1>3, <1>5
<1> QED BY <1>5, <1>6, <1>9, <1>10

-----------------------------------------------------------------------------
(* The types and the list of open units: neither is inductive alone, since *)
(* what list_erase takes out is known only when the match is the only one. *)
ListInv == TypeOK /\ OneOpenPerPid

LEMMA ListInit == Init => ListInv
<1> SUFFICES ASSUME Init PROVE ListInv
  OBVIOUS
<1>1. TypeOK
  BY EmptySeq DEF Init, TypeOK
<1>2. OneOpenPerPid
  BY EmptySeq DEF Init, OneOpenPerPid
<1> QED BY <1>1, <1>2 DEF ListInv

(* Feeding a packet.                                                       *)
LEMMA FeedFacts ==
  ASSUME TypeOK, NEW p \in Packets, Feed(p)
  PROVE  /\ fed' \in Seq([packet : Packets, call : Nat])
         /\ Len(fed') = Len(fed) + 1
         /\ \A i \in 1..Len(fed) : fed'[i] = fed[i]
         /\ fed'[Len(fed) + 1] = [packet |-> p, call |-> calls]
         /\ Len(fed) \in Nat
<1> DEFINE e == [packet |-> p, call |-> calls]
<1>1. e \in [packet : Packets, call : Nat]
  BY DEF TypeOK
<1>2. fed' = Append(fed, e)
  BY DEF Feed
<1> HIDE DEF e
<1>3. Len(fed) \in Nat
  BY LenProperties DEF TypeOK
<1>4. /\ Append(fed, e) \in Seq([packet : Packets, call : Nat])
      /\ Len(Append(fed, e)) = Len(fed) + 1
      /\ \A i \in 1..Len(fed) : Append(fed, e)[i] = fed[i]
      /\ Append(fed, e)[Len(fed) + 1] = e
  BY <1>1, AppendProperties DEF TypeOK
<1> QED BY <1>2, <1>3, <1>4 DEF e

(* ts_unit_unpack: the bytes a packet adds are no one else's.              *)
LEMMA PayloadFacts ==
  ASSUME NEW p, NEW n \in Nat \ {0}
  PROVE  /\ Payload(p, n) \in Seq(Nat \ {0})
         /\ Len(Payload(p, n)) = IF p.size = 0 THEN 0 ELSE 1
         /\ p.size # 0 => Payload(p, n)[1] = n
<1>1. CASE p.size = 0
  BY <1>1, EmptySeq DEF Payload
<1>2. CASE p.size # 0
  <2>1. Payload(p, n) = <<n>>
    BY <1>2 DEF Payload
  <2> QED BY <1>2, <2>1
<1> QED BY <1>1, <1>2

(* Opening a unit.                                                         *)
LEMMA OpenFacts ==
  ASSUME TypeOK, NEW p \in Packets, OpenUnit(p)
  PROVE  /\ units' \in Seq(UnitType)
         /\ Len(units') = Len(units) + 1
         /\ \A k \in 1..Len(units) : units'[k] = units[k]
         /\ units'[Len(units) + 1] = NewUnit(p, Len(fed) + 1)
         /\ opened' \in Seq(Nat \ {0})
         /\ Len(opened') = Len(opened) + 1
         /\ \A k \in 1..Len(opened) : opened'[k] = opened[k]
         /\ opened'[Len(opened) + 1] = Len(fed) + 1
         /\ Len(units) \in Nat /\ Len(opened) \in Nat /\ Len(fed) \in Nat
<1>1. Len(units) \in Nat /\ Len(opened) \in Nat /\ Len(fed) \in Nat
  BY LenProperties DEF TypeOK
<1>2. p \in PacketType
  BY PacketsAssumption
<1>3. NewUnit(p, Len(fed) + 1) \in UnitType
  <2>1. Payload(p, Len(fed) + 1) \in Seq(Nat \ {0})
    BY <1>1, PayloadFacts
  <2> QED BY <1>2, <2>1 DEF NewUnit, UnitType, PacketType
<1>4. Len(fed) + 1 \in Nat \ {0}
  BY <1>1
<1>5. /\ units' = Append(units, NewUnit(p, Len(fed) + 1))
      /\ opened' = Append(opened, Len(fed) + 1)
  BY DEF OpenUnit
<1> HIDE DEF NewUnit
<1>6. units \in Seq(UnitType) /\ opened \in Seq(Nat \ {0})
  BY DEF TypeOK
<1>7. /\ units' \in Seq(UnitType)
      /\ Len(units') = Len(units) + 1
      /\ \A k \in 1..Len(units) : units'[k] = units[k]
      /\ units'[Len(units) + 1] = NewUnit(p, Len(fed) + 1)
  BY <1>3, <1>5, <1>6, AppendProperties
<1>8. /\ opened' \in Seq(Nat \ {0})
      /\ Len(opened') = Len(opened) + 1
      /\ \A k \in 1..Len(opened) : opened'[k] = opened[k]
      /\ opened'[Len(opened) + 1] = Len(fed) + 1
  BY <1>4, <1>5, <1>6, AppendProperties
<1> QED BY <1>1, <1>7, <1>8

(* Extending a unit: k is the open one of the PID.                         *)
LEMMA ExtendFacts ==
  ASSUME TypeOK, OneOpenPerPid, NEW p \in Packets, ExtendUnit(p)
  PROVE  /\ units' \in Seq(UnitType)
         /\ Len(units') = Len(units) /\ Len(units) \in Nat
         /\ \E k \in 1..Len(units) :
              /\ IsOpen(k) /\ units[k].pid = p.pid
              /\ units'[k] =
                   [units[k] EXCEPT !.data = @ \o Payload(p, Len(fed) + 1)]
              /\ \A l \in (1..Len(units)) \ {k} : units'[l] = units[l]
         /\ \A k \in 1..Len(units) :
              /\ units'[k].pid = units[k].pid
              /\ units'[k].rai = units[k].rai
              /\ units'[k].pcr = units[k].pcr
<1> DEFINE n == Len(fed) + 1
           k == incomplete[Found(p.pid)]
           u == [units[k] EXCEPT !.data = @ \o Payload(p, n)]
<1>1. /\ Len(units) \in Nat /\ n \in Nat \ {0}
      /\ units \in Seq(UnitType)
  BY LenProperties DEF TypeOK
<1>2. Matches(p.pid) # {}
  BY DEF ExtendUnit
<1>3. Found(p.pid) \in 1..Len(incomplete) /\ units[k].pid = p.pid
  BY <1>2, FoundFacts
<1>4. k \in 1..Len(units) /\ IsOpen(k)
  BY <1>3 DEF OneOpenPerPid, IsOpen
<1>5. units' = [units EXCEPT ![k] = u]
  BY DEF ExtendUnit
<1> HIDE DEF n, k
<1>6. units[k] \in UnitType
  BY <1>1, <1>4, ElementOfSeq
<1>7. units[k].data \o Payload(p, n) \in Seq(Nat \ {0})
  BY <1>1, <1>6, PayloadFacts, ConcatProperties DEF UnitType
<1>8. u \in UnitType
  BY <1>6, <1>7 DEF UnitType
<1>9. u.pid = units[k].pid /\ u.rai = units[k].rai /\ u.pcr = units[k].pcr
  BY <1>6 DEF UnitType
<1> HIDE DEF u
<1>10. /\ units' \in Seq(UnitType)
       /\ Len(units') = Len(units)
       /\ \A l \in 1..Len(units) : units'[l] = IF l = k THEN u ELSE units[l]
  BY <1>1, <1>4, <1>5, <1>8, ExceptSeq
<1>11. \A l \in 1..Len(units) :
         /\ units'[l].pid = units[l].pid
         /\ units'[l].rai = units[l].rai
         /\ units'[l].pcr = units[l].pcr
  BY <1>9, <1>10
<1> QED BY <1>1, <1>3, <1>4, <1>10, <1>11 DEF u, n

LEMMA ListStep == ListInv /\ [Next]_vars => ListInv'
<1> SUFFICES ASSUME ListInv, [Next]_vars
             PROVE  ListInv'
  OBVIOUS
<1>1. TypeOK /\ OneOpenPerPid
  BY DEF ListInv
<1>2. CASE BeginUnpack
  <2>1. TypeOK'
    BY <1>1, <1>2, EmptySeq DEF TypeOK, BeginUnpack
  <2>2. OneOpenPerPid'
    BY <1>2, EmptySeq DEF OneOpenPerPid, BeginUnpack
  <2> QED BY <2>1, <2>2 DEF ListInv
<1>3. ASSUME NEW p \in Packets, OpenUnit(p)
      PROVE  ListInv'
  <2> DEFINE N == Len(units) + 1
  <2>1. /\ Feed(p) /\ incomplete' = Reopen(p.pid)
        /\ UNCHANGED <<calls, calling>>
    BY <1>3 DEF OpenUnit, Feed
  <2>2. /\ units' \in Seq(UnitType) /\ opened' \in Seq(Nat \ {0})
        /\ Len(units') = N /\ Len(units) \in Nat
        /\ \A k \in 1..Len(units) : units'[k] = units[k]
        /\ units'[N].pid = p.pid
    <3>1. NewUnit(p, Len(fed) + 1).pid = p.pid
      BY DEF NewUnit
    <3> QED BY <1>1, <1>3, <3>1, OpenFacts
  <2>3. /\ incomplete' \in Seq(Nat \ {0})
        /\ Distinct(incomplete')
        /\ \A i \in 1..Len(incomplete') :
             \/ incomplete'[i] = N
             \/ IsOpen(incomplete'[i]) /\ units[incomplete'[i]].pid # p.pid
    BY <1>1, <2>1, ReopenFacts
  <2>4. TypeOK'
    BY <1>1, <1>3, <2>1, <2>2, <2>3, FeedFacts DEF TypeOK
  <2>5. \A k : IsOpen(k) =>
          /\ k \in 1..Len(units)
          /\ \A l : IsOpen(l) /\ units[l].pid = units[k].pid => l = k
          /\ \A m \in (k + 1)..Len(units) : units[m].pid # units[k].pid
    BY <1>1 DEF OneOpenPerPid, IsOpen
  <2>6. ASSUME NEW i \in 1..Len(incomplete'), NEW j \in 1..Len(incomplete')
        PROVE  /\ incomplete'[i] \in 1..Len(units')
               /\ units'[incomplete'[i]].pid = units'[incomplete'[j]].pid => i = j
               /\ \A m \in (incomplete'[i] + 1)..Len(units') :
                    units'[m].pid # units'[incomplete'[i]].pid
    <3> DEFINE k == incomplete'[i]
               l == incomplete'[j]
    <3>1. /\ k = N \/ (IsOpen(k) /\ units[k].pid # p.pid)
          /\ l = N \/ (IsOpen(l) /\ units[l].pid # p.pid)
          /\ k = l => i = j
      BY <2>3 DEF Distinct
    <3> HIDE DEF k, l
    <3>2. k \in 1..Len(units')
      BY <3>1, <2>2, <2>5
    <3>3. units'[k].pid = units'[l].pid => k = l
      BY <3>1, <2>2, <2>5
    <3>4. ASSUME NEW m \in (k + 1)..Len(units')
          PROVE  units'[m].pid # units'[k].pid
      <4>1. IsOpen(k) /\ units[k].pid # p.pid /\ k \in 1..Len(units)
        BY <3>1, <2>2, <2>5
      <4>2. m = N \/ m \in (k + 1)..Len(units)
        <5>1. Len(units') = Len(units) + 1 /\ Len(units) \in Nat
          BY <2>2
        <5> QED BY <4>1, <5>1
      <4>3. m \in (k + 1)..Len(units) => m \in 1..Len(units)
        BY <4>1, <2>2
      <4> QED BY <4>1, <4>2, <4>3, <2>2, <2>5
    <3> QED BY <3>1, <3>2, <3>3, <3>4 DEF k, l
  <2>7. OneOpenPerPid'
    BY <2>6 DEF OneOpenPerPid
  <2> QED BY <2>4, <2>7 DEF ListInv
<1>4. ASSUME NEW p \in Packets, ExtendUnit(p)
      PROVE  ListInv'
  <2>1. /\ Feed(p)
        /\ UNCHANGED <<incomplete, opened, calls, calling>>
    BY <1>4 DEF ExtendUnit, Feed
  <2>2. /\ units' \in Seq(UnitType)
        /\ Len(units') = Len(units) /\ Len(units) \in Nat
        /\ \A k \in 1..Len(units) : units'[k].pid = units[k].pid
    BY <1>1, <1>4, ExtendFacts
  <2>3. TypeOK'
    BY <1>1, <1>4, <2>1, <2>2, FeedFacts DEF TypeOK
  <2>4. OneOpenPerPid'
    <3>1. \A i \in 1..Len(incomplete) : incomplete[i] \in 1..Len(units)
      BY <1>1 DEF OneOpenPerPid
    <3>2. \A i \in 1..Len(incomplete) : \A m \in (incomplete[i] + 1)..Len(units) :
            m \in 1..Len(units)
      BY <3>1, <2>2
    <3>3. ASSUME NEW i \in 1..Len(incomplete), NEW j \in 1..Len(incomplete)
          PROVE  /\ incomplete[i] \in 1..Len(units')
                 /\ units'[incomplete[i]].pid = units'[incomplete[j]].pid => i = j
                 /\ \A m \in (incomplete[i] + 1)..Len(units') :
                      units'[m].pid # units'[incomplete[i]].pid
      <4>1. /\ units'[incomplete[i]].pid = units[incomplete[i]].pid
            /\ units'[incomplete[j]].pid = units[incomplete[j]].pid
        BY <2>2, <3>1
      <4>2. /\ units[incomplete[i]].pid = units[incomplete[j]].pid => i = j
            /\ \A m \in (incomplete[i] + 1)..Len(units) :
                 units[m].pid # units[incomplete[i]].pid
        BY <1>1 DEF OneOpenPerPid
      <4>3. Len(units') = Len(units)
        BY <2>2
      <4>4. \A m \in (incomplete[i] + 1)..Len(units) : units'[m].pid = units[m].pid
        BY <2>2, <3>2
      <4> QED BY <3>1, <4>1, <4>2, <4>3, <4>4
    <3>4. incomplete' = incomplete
      BY <2>1
    <3> QED BY <3>3, <3>4 DEF OneOpenPerPid
  <2> QED BY <2>3, <2>4 DEF ListInv
<1>5. ASSUME NEW p \in Packets, DropPacket(p)
      PROVE  ListInv'
  <2>1. Feed(p) /\ UNCHANGED <<units, incomplete, opened, calls, calling>>
    BY <1>5 DEF DropPacket, Feed
  <2>2. TypeOK'
    BY <1>1, <1>5, <2>1, FeedFacts DEF TypeOK
  <2>3. OneOpenPerPid'
    BY <1>1, <2>1 DEF OneOpenPerPid
  <2> QED BY <2>2, <2>3 DEF ListInv
<1>6. CASE EndUnpack
  <2>1. TypeOK'
    BY <1>1, <1>6, EmptySeq DEF TypeOK, EndUnpack
  <2>2. OneOpenPerPid'
    BY <1>6, EmptySeq DEF OneOpenPerPid, EndUnpack
  <2> QED BY <2>1, <2>2 DEF ListInv
<1>7. CASE UNCHANGED vars
  BY <1>7 DEF vars, ListInv, TypeOK, OneOpenPerPid
<1> QED BY <1>2, <1>3, <1>4, <1>5, <1>6, <1>7 DEF Next

(* ts_units_unpack (ts_units.c:67-77) never has two units of a PID open:   *)
(* the scan without a break finds the only one, the latest of the PID.     *)
THEOREM OneOpen == Spec => []OneOpenPerPid
<1>1. ListInv => OneOpenPerPid
  BY DEF ListInv
<1> QED BY <1>1, ListInit, ListStep, PTL DEF Spec

(* The state of ts_units_unpack keeps its types, for any set of packets    *)
(* and any number of calls.                                                *)
THEOREM TypeCorrect == Spec => []TypeOK
<1>1. ListInv => TypeOK
  BY DEF ListInv
<1> QED BY <1>1, ListInit, ListStep, PTL DEF Spec

-----------------------------------------------------------------------------
(* The run of packet n in a history f, the part of UnitsAreRuns that is    *)
(* about one unit, and what a packet more does to them.                    *)
Same(f, m, n) ==
  f[m].packet.pid = f[n].packet.pid /\ f[m].call = f[n].call

Lasts(f, n) ==
  \A j \in (n + 1)..Len(f) : ~(Same(f, j, n) /\ f[j].packet.start)

RunIn(f, n) ==
  {i \in n..Len(f) :
     /\ Same(f, i, n)
     /\ \A j \in (n + 1)..i : ~(Same(f, j, n) /\ f[j].packet.start)}

IsRun(u, n, f) ==
  /\ n \in 1..Len(f)
  /\ f[n].packet.start
  /\ u.pid = f[n].packet.pid
  /\ u.rai = f[n].packet.rai
  /\ u.pcr = f[n].packet.pcr
  /\ {u.data[a] : a \in 1..Len(u.data)} =
       {i \in RunIn(f, n) : f[i].packet.size # 0}
  /\ \A a, b \in 1..Len(u.data) : a < b => u.data[a] < u.data[b]

Longer(f, g, p, c) ==
  /\ Len(f) \in Nat /\ Len(g) = Len(f) + 1
  /\ \A i \in 1..Len(f) : g[i] = f[i]
  /\ g[Len(f) + 1] = [packet |-> p, call |-> c]

Continues(f, n, p, c) ==
  /\ f[n].packet.pid = p.pid /\ f[n].call = c
  /\ ~p.start
  /\ Lasts(f, n)

LEMMA RunLonger ==
  ASSUME NEW f, NEW g, NEW p, NEW c, Longer(f, g, p, c), NEW n \in 1..Len(f)
  PROVE  /\ RunIn(g, n) = RunIn(f, n) \cup
              (IF Continues(f, n, p, c) THEN {Len(f) + 1} ELSE {})
         /\ Lasts(g, n) <=> /\ Lasts(f, n)
                            /\ ~(f[n].packet.pid = p.pid /\ f[n].call = c /\ p.start)
<1> DEFINE m == Len(f) + 1
<1>1. /\ Len(f) \in Nat /\ Len(g) = m /\ n \in Nat /\ n < m
      /\ n..Len(g) = (n..Len(f)) \cup {m}
      /\ (n + 1)..m = ((n + 1)..Len(f)) \cup {m}
      /\ m \notin n..Len(f)
  BY DEF Longer
<1>2. /\ \A i \in n..Len(f) : g[i] = f[i]
      /\ g[m].packet = p /\ g[m].call = c
  BY DEF Longer
<1> HIDE DEF m
<1>3. /\ \A i \in n..Len(f) : Same(g, i, n) <=> Same(f, i, n)
      /\ Same(g, m, n) <=> f[n].packet.pid = p.pid /\ f[n].call = c
  BY <1>1, <1>2 DEF Same
<1>4. \A i \in n..Len(f) : \A j \in (n + 1)..i : j \in n..Len(f)
  BY <1>1
<1>5. \A i \in n..Len(f) : i \in RunIn(g, n) <=> i \in RunIn(f, n)
  BY <1>1, <1>2, <1>3, <1>4 DEF RunIn
<1>6. Lasts(g, n) <=> /\ Lasts(f, n)
                      /\ ~(f[n].packet.pid = p.pid /\ f[n].call = c /\ p.start)
  <2>1. \A j \in (n + 1)..Len(f) : j \in n..Len(f)
    BY <1>1
  <2> QED BY <1>1, <1>2, <1>3, <2>1 DEF Lasts
<1>7. m \in RunIn(g, n) <=> Continues(f, n, p, c)
  <2>1. m \in n..Len(g)
    BY <1>1
  <2>2. m \in RunIn(g, n) <=> Same(g, m, n) /\ Lasts(g, n)
    BY <1>1, <2>1 DEF RunIn, Lasts
  <2> QED BY <1>3, <1>6, <2>2 DEF Continues
<1>8. RunIn(g, n) \subseteq (n..Len(f)) \cup {m} /\ RunIn(f, n) \subseteq n..Len(f)
  BY <1>1 DEF RunIn
<1> QED BY <1>1, <1>5, <1>6, <1>7, <1>8 DEF m

(* A packet that is not the unit's leaves it the run that it was.          *)
LEMMA RunKept ==
  ASSUME NEW f, NEW g, NEW p, NEW c, Longer(f, g, p, c),
         NEW u, NEW n, IsRun(u, n, f), ~Continues(f, n, p, c)
  PROVE  IsRun(u, n, g)
<1>1. n \in 1..Len(f) /\ Len(f) \in Nat /\ Len(g) = Len(f) + 1
  BY DEF IsRun, Longer
<1>2. RunIn(g, n) = RunIn(f, n)
  <2>1. RunIn(g, n) = RunIn(f, n) \cup
          (IF Continues(f, n, p, c) THEN {Len(f) + 1} ELSE {})
    BY <1>1, RunLonger
  <2>2. RunIn(g, n) = RunIn(f, n) \cup {}
    BY <2>1
  <2> QED BY <2>2
<1>3. \A i \in RunIn(f, n) : i \in 1..Len(f)
  BY <1>1 DEF RunIn
<1>4. \A i \in 1..Len(f) : g[i] = f[i]
  BY DEF Longer
<1>5. {i \in RunIn(g, n) : g[i].packet.size # 0} =
        {i \in RunIn(f, n) : f[i].packet.size # 0}
  BY <1>2, <1>3, <1>4
<1>6. n \in 1..Len(g) /\ g[n] = f[n]
  BY <1>1, <1>4
<1> QED BY <1>5, <1>6 DEF IsRun

(* A packet that continues the unit's flow is added at its end.            *)
LEMMA RunExtended ==
  ASSUME NEW f, NEW g, NEW p, NEW c, Longer(f, g, p, c),
         NEW u \in UnitType, NEW n, IsRun(u, n, f), Continues(f, n, p, c)
  PROVE  IsRun([u EXCEPT !.data = @ \o Payload(p, Len(f) + 1)], n, g)
<1> DEFINE m == Len(f) + 1
           d == u.data
           e == d \o Payload(p, m)
           v == [u EXCEPT !.data = e]
<1>1. n \in 1..Len(f) /\ Len(f) \in Nat /\ Len(g) = m /\ m \in Nat \ {0}
  BY DEF IsRun, Longer
<1>2. RunIn(g, n) = RunIn(f, n) \cup {m}
  BY <1>1, RunLonger
<1>3. \A i \in RunIn(f, n) : i \in 1..Len(f) /\ i < m
  BY <1>1 DEF RunIn
<1>4. /\ \A i \in 1..Len(f) : g[i] = f[i]
      /\ g[m].packet = p
  BY DEF Longer
<1>5. d \in Seq(Nat \ {0}) /\ Len(d) \in Nat
  BY LenProperties DEF UnitType
<1>6. v.pid = u.pid /\ v.rai = u.rai /\ v.pcr = u.pcr /\ v.data = e
  BY DEF UnitType
<1>7. /\ Payload(p, m) \in Seq(Nat \ {0})
      /\ Len(Payload(p, m)) = IF p.size = 0 THEN 0 ELSE 1
      /\ p.size # 0 => Payload(p, m)[1] = m
  BY <1>1, PayloadFacts
<1> HIDE DEF m, d
<1>8. /\ Len(e) = Len(d) + (IF p.size = 0 THEN 0 ELSE 1)
      /\ \A a \in 1..Len(d) : e[a] = d[a]
      /\ p.size # 0 => e[Len(d) + 1] = m
  <2>1. /\ Len(e) = Len(d) + Len(Payload(p, m))
        /\ \A a \in 1..(Len(d) + Len(Payload(p, m))) :
             e[a] = IF a <= Len(d) THEN d[a] ELSE Payload(p, m)[a - Len(d)]
    BY <1>5, <1>7, ConcatProperties
  <2>2. \A a \in 1..Len(d) :
          a \in 1..(Len(d) + Len(Payload(p, m))) /\ a <= Len(d)
    BY <1>5, <1>7
  <2>3. ASSUME p.size # 0 PROVE e[Len(d) + 1] = m
    <3>1. /\ Len(d) + 1 \in 1..(Len(d) + Len(Payload(p, m)))
          /\ ~(Len(d) + 1 <= Len(d)) /\ (Len(d) + 1) - Len(d) = 1
      BY <2>3, <1>5, <1>7
    <3> QED BY <2>1, <2>3, <3>1, <1>7
  <2> QED BY <1>7, <2>1, <2>2, <2>3
<1> HIDE DEF e
<1>9. /\ {d[a] : a \in 1..Len(d)} = {i \in RunIn(f, n) : f[i].packet.size # 0}
      /\ \A a, b \in 1..Len(d) : a < b => d[a] < d[b]
  BY DEF IsRun, d
<1>10. {e[a] : a \in 1..Len(e)} =
         {d[a] : a \in 1..Len(d)} \cup (IF p.size = 0 THEN {} ELSE {m})
  <2>1. CASE p.size = 0
    BY <2>1, <1>5, <1>8
  <2>2. CASE p.size # 0
    <3>1. 1..Len(e) = (1..Len(d)) \cup {Len(d) + 1}
      BY <2>2, <1>5, <1>8
    <3> QED BY <2>2, <3>1, <1>8
  <2> QED BY <2>1, <2>2
<1>11. {i \in RunIn(g, n) : g[i].packet.size # 0} =
         {i \in RunIn(f, n) : f[i].packet.size # 0}
           \cup (IF p.size = 0 THEN {} ELSE {m})
  BY <1>2, <1>3, <1>4
<1>12. \A a \in 1..Len(d) : d[a] < m
  BY <1>3, <1>9
<1>13. \A a, b \in 1..Len(e) : a < b => e[a] < e[b]
  <2> SUFFICES ASSUME NEW a \in 1..Len(e), NEW b \in 1..Len(e), a < b
               PROVE  e[a] < e[b]
    OBVIOUS
  <2>1. a \in 1..Len(d)
    BY <1>5, <1>8
  <2>2. b \in 1..Len(d) \/ (p.size # 0 /\ b = Len(d) + 1)
    BY <1>5, <1>8
  <2> QED BY <2>1, <2>2, <1>8, <1>9, <1>12
<1>14. n \in 1..Len(g) /\ g[n] = f[n]
  BY <1>1, <1>4 DEF m
<1> HIDE DEF v
<1>15. IsRun(v, n, g)
  <2>1. {v.data[a] : a \in 1..Len(v.data)} =
          {i \in RunIn(g, n) : g[i].packet.size # 0}
    <3>1. {v.data[a] : a \in 1..Len(v.data)} = {e[a] : a \in 1..Len(e)}
      BY <1>6, Zenon
    <3> QED BY <3>1, <1>9, <1>10, <1>11, Zenon
  <2>2. \A a, b \in 1..Len(v.data) : a < b => v.data[a] < v.data[b]
    BY <1>6, <1>13
  <2> QED BY <1>6, <1>14, <2>1, <2>2 DEF IsRun
<1> QED BY <1>15 DEF v, e, d, m

(* A packet that starts a unit is a run of its own.                        *)
LEMMA RunStarted ==
  ASSUME NEW f, NEW g, NEW p, NEW c, Longer(f, g, p, c), p.start
  PROVE  /\ IsRun(NewUnit(p, Len(f) + 1), Len(f) + 1, g)
         /\ Lasts(g, Len(f) + 1)
         /\ g[Len(f) + 1].call = c
<1> DEFINE m == Len(f) + 1
           u == NewUnit(p, m)
<1>1. /\ m \in Nat \ {0} /\ Len(g) = m
      /\ g[m].packet = p /\ g[m].call = c
  BY DEF Longer
<1> HIDE DEF m
<1>2. m..Len(g) = {m} /\ (m + 1)..Len(g) = {} /\ (m + 1)..m = {}
  BY <1>1
<1>3. RunIn(g, m) = {m} /\ Lasts(g, m)
  BY <1>2 DEF RunIn, Lasts, Same
<1>4. u.pid = p.pid /\ u.rai = p.rai /\ u.pcr = p.pcr /\ u.data = Payload(p, m)
  BY DEF NewUnit
<1>5. /\ Payload(p, m) \in Seq(Nat \ {0})
      /\ Len(Payload(p, m)) = IF p.size = 0 THEN 0 ELSE 1
      /\ p.size # 0 => Payload(p, m)[1] = m
  BY <1>1, PayloadFacts
<1> HIDE DEF u
<1>6. {u.data[a] : a \in 1..Len(u.data)} = {i \in RunIn(g, m) : g[i].packet.size # 0}
  BY <1>1, <1>3, <1>4, <1>5
<1>7. \A a, b \in 1..Len(u.data) : a < b => u.data[a] < u.data[b]
  BY <1>4, <1>5
<1>8. m \in 1..Len(g)
  BY <1>1
<1>9. IsRun(u, m, g)
  BY <1>1, <1>4, <1>6, <1>7, <1>8 DEF IsRun
<1> QED BY <1>1, <1>3, <1>9 DEF u, m

-----------------------------------------------------------------------------
(* A unit is open exactly when the packets it is made of may still come:   *)
(* its call runs, and no later packet of its flow starts a unit.  With it  *)
(* UnitsAreRuns is inductive.                                              *)
Unfinished(k) ==
  calling /\ fed[opened[k]].call = calls /\ Lasts(fed, opened[k])

RunInv ==
  /\ ListInv
  /\ Len(opened) = Len(units)
  /\ \A i \in 1..Len(fed) : fed[i].call <= calls
  /\ \A k \in 1..Len(units) : IsRun(units[k], opened[k], fed)
  /\ \A k \in 1..Len(units) : IsOpen(k) <=> Unfinished(k)

LEMMA RunInvInit == Init => RunInv
<1> SUFFICES ASSUME Init PROVE RunInv
  OBVIOUS
<1>1. ListInv
  BY ListInit
<1>2. Len(units) = 0 /\ Len(opened) = 0 /\ Len(fed) = 0
  BY EmptySeq DEF Init
<1> QED BY <1>1, <1>2 DEF RunInv

LEMMA FeedLonger ==
  ASSUME TypeOK, NEW p \in Packets, Feed(p), \A i \in 1..Len(fed) : fed[i].call <= calls
  PROVE  /\ Longer(fed, fed', p, calls)
         /\ \A i \in 1..Len(fed') : fed'[i].call <= calls'
<1>1. /\ Len(fed') = Len(fed) + 1
      /\ \A i \in 1..Len(fed) : fed'[i] = fed[i]
      /\ fed'[Len(fed) + 1] = [packet |-> p, call |-> calls]
      /\ Len(fed) \in Nat
  BY FeedFacts
<1>2. calls' = calls /\ calls \in Nat
  BY DEF Feed, TypeOK
<1>3. fed'[Len(fed) + 1].call = calls
  BY <1>1
<1> QED BY <1>1, <1>2, <1>3 DEF Longer

LEMMA RunInvOpenUnit ==
  ASSUME RunInv, ListInv', NEW p \in Packets, OpenUnit(p)
  PROVE  RunInv'
<1> DEFINE N == Len(units) + 1
           m == Len(fed) + 1
<1>1. /\ TypeOK /\ OneOpenPerPid
      /\ Len(opened) = Len(units)
      /\ \A k \in 1..Len(units) : IsRun(units[k], opened[k], fed)
      /\ \A k \in 1..Len(units) : IsOpen(k) <=> Unfinished(k)
  BY DEF RunInv, ListInv
<1>2. /\ p.start /\ calling /\ Feed(p) /\ incomplete' = Reopen(p.pid)
      /\ calls' = calls /\ calling' = calling
  BY DEF OpenUnit, Feed
<1>3. /\ Longer(fed, fed', p, calls)
      /\ \A i \in 1..Len(fed') : fed'[i].call <= calls'
  BY <1>1, <1>2, FeedLonger DEF RunInv
<1>4. /\ Len(units') = N /\ Len(opened') = N /\ Len(units) \in Nat
      /\ \A k \in 1..Len(units) : units'[k] = units[k] /\ opened'[k] = opened[k]
      /\ units'[N] = NewUnit(p, m)
      /\ opened'[N] = m
  BY <1>1, OpenFacts
<1>5. \A k : (\E i \in 1..Len(incomplete') : incomplete'[i] = k)
               <=> k = N \/ (IsOpen(k) /\ units[k].pid # p.pid)
  BY <1>1, <1>2, ReopenFacts
<1>6. ASSUME NEW k \in 1..Len(units)
      PROVE  /\ IsRun(units'[k], opened'[k], fed')
             /\ (\E i \in 1..Len(incomplete') : incomplete'[i] = k) <=>
                  /\ calling /\ fed'[opened'[k]].call = calls
                  /\ Lasts(fed', opened'[k])
  <2>1. PICK n : n = opened[k]
    OBVIOUS
  <2>2. PICK u : u = units[k]
    OBVIOUS
  <2>3. IsRun(u, n, fed)
    BY <1>1, <2>1, <2>2
  <2>4. ~Continues(fed, n, p, calls)
    BY <1>2 DEF Continues
  <2>5. IsRun(u, n, fed')
    BY <1>3, <2>3, <2>4, RunKept
  <2>6. n \in 1..Len(fed) /\ u.pid = fed[n].packet.pid
    BY <2>3 DEF IsRun
  <2>7. Lasts(fed', n) <=> /\ Lasts(fed, n)
                           /\ ~(fed[n].packet.pid = p.pid /\ fed[n].call = calls)
    BY <1>2, <1>3, <2>6, RunLonger
  <2>8. fed'[n] = fed[n]
    BY <1>3, <2>6 DEF Longer
  <2>9. IsOpen(k) <=> fed[n].call = calls /\ Lasts(fed, n)
    BY <1>1, <1>2, <2>1 DEF Unfinished
  <2>10. k # N
    BY <1>4
  <2>11. units'[k] = u /\ opened'[k] = n
    BY <1>4, <2>1, <2>2
  <2> HIDE DEF N
  <2> QED BY <1>2, <1>5, <2>2, <2>5, <2>6, <2>7, <2>8, <2>9, <2>10, <2>11
<1>7. /\ IsRun(units'[N], opened'[N], fed')
      /\ fed'[opened'[N]].call = calls /\ Lasts(fed', opened'[N])
      /\ \E i \in 1..Len(incomplete') : incomplete'[i] = N
  <2>1. /\ IsRun(NewUnit(p, m), m, fed')
        /\ Lasts(fed', m)
        /\ fed'[m].call = calls
    BY <1>2, <1>3, RunStarted
  <2> QED BY <1>4, <1>5, <2>1
<1>8. 1..N = (1..Len(units)) \cup {N}
  BY <1>4
<1> HIDE DEF N, m
<1>9. \A k \in 1..Len(units') : IsRun(units'[k], opened'[k], fed')
  BY <1>4, <1>6, <1>7, <1>8
<1>10. \A k \in 1..Len(units') :
         (\E i \in 1..Len(incomplete') : incomplete'[i] = k) <=>
           /\ calling' /\ fed'[opened'[k]].call = calls'
           /\ Lasts(fed', opened'[k])
  BY <1>2, <1>4, <1>6, <1>7, <1>8
<1> QED BY <1>3, <1>4, <1>9, <1>10 DEF RunInv, IsOpen, Unfinished

(* A packet that starts no unit: at most one unit continues with it.       *)
LEMMA ContinuesIffOpen ==
  ASSUME RunInv, calling, NEW p, ~p.start, NEW k \in 1..Len(units)
  PROVE  Continues(fed, opened[k], p, calls) <=> IsOpen(k) /\ units[k].pid = p.pid
<1>1. IsRun(units[k], opened[k], fed) /\ (IsOpen(k) <=> Unfinished(k))
  BY DEF RunInv
<1>2. units[k].pid = fed[opened[k]].packet.pid
  BY <1>1 DEF IsRun
<1> QED BY <1>1, <1>2 DEF Continues, Unfinished

(* Nor does the packet open or close one.                                  *)
LEMMA UnfinishedKept ==
  ASSUME RunInv, NEW p \in Packets, Feed(p), ~p.start,
         UNCHANGED <<incomplete, opened>>, NEW k \in 1..Len(units)
  PROVE  (\E i \in 1..Len(incomplete') : incomplete'[i] = k) <=>
           /\ calling' /\ fed'[opened'[k]].call = calls'
           /\ Lasts(fed', opened'[k])
<1>1. TypeOK /\ calling' = calling /\ calls' = calls
  BY DEF RunInv, ListInv, Feed
<1>2. Longer(fed, fed', p, calls)
  BY <1>1, FeedLonger DEF RunInv
<1>3. PICK n : n = opened[k]
  OBVIOUS
<1>4. n \in 1..Len(fed)
  BY <1>3 DEF RunInv, IsRun
<1>5. Lasts(fed', n) <=> Lasts(fed, n)
  BY <1>2, <1>4, RunLonger
<1>6. fed'[n] = fed[n]
  BY <1>2, <1>4 DEF Longer
<1>7. IsOpen(k) <=> calling /\ fed[n].call = calls /\ Lasts(fed, n)
  BY <1>3 DEF RunInv, Unfinished
<1>8. IsOpen(k) <=> \E i \in 1..Len(incomplete') : incomplete'[i] = k
  BY DEF IsOpen
<1>9. opened'[k] = n
  BY <1>3
<1> QED BY <1>1, <1>5, <1>6, <1>7, <1>8, <1>9

LEMMA RunInvExtendUnit ==
  ASSUME RunInv, ListInv', NEW p \in Packets, ExtendUnit(p)
  PROVE  RunInv'
<1>1. /\ TypeOK /\ OneOpenPerPid
      /\ Len(opened) = Len(units)
      /\ \A k \in 1..Len(units) : IsRun(units[k], opened[k], fed)
  BY DEF RunInv, ListInv
<1>2. /\ ~p.start /\ calling /\ Feed(p)
      /\ UNCHANGED <<incomplete, opened>>
  BY DEF ExtendUnit, Feed
<1>3. /\ Longer(fed, fed', p, calls)
      /\ \A i \in 1..Len(fed') : fed'[i].call <= calls'
  BY <1>1, <1>2, FeedLonger DEF RunInv
<1>4. Len(units') = Len(units) /\ units \in Seq(UnitType)
  BY <1>1, ExtendFacts DEF TypeOK
<1>5. PICK k \in 1..Len(units) :
        /\ IsOpen(k) /\ units[k].pid = p.pid
        /\ units'[k] = [units[k] EXCEPT !.data = @ \o Payload(p, Len(fed) + 1)]
        /\ \A l \in (1..Len(units)) \ {k} : units'[l] = units[l]
  BY <1>1, ExtendFacts
<1>6. IsRun(units'[k], opened'[k], fed')
  <2>1. PICK n, u : n = opened[k] /\ u = units[k]
    OBVIOUS
  <2>2. u \in UnitType
    BY <1>4, <2>1, ElementOfSeq
  <2>3. IsRun(u, n, fed) /\ Continues(fed, n, p, calls)
    BY <1>1, <1>2, <1>5, <2>1, ContinuesIffOpen
  <2>4. IsRun([u EXCEPT !.data = @ \o Payload(p, Len(fed) + 1)], n, fed')
    BY <1>3, <2>2, <2>3, RunExtended
  <2> QED BY <1>2, <1>5, <2>1, <2>4
<1>7. ASSUME NEW l \in (1..Len(units)) \ {k}
      PROVE  IsRun(units'[l], opened'[l], fed')
  <2>1. PICK n, u : n = opened[l] /\ u = units[l]
    OBVIOUS
  <2>2. ~(IsOpen(l) /\ units[l].pid = p.pid)
    BY <1>1, <1>5 DEF IsOpen, OneOpenPerPid
  <2>3. IsRun(u, n, fed) /\ ~Continues(fed, n, p, calls)
    BY <1>1, <1>2, <2>1, <2>2, ContinuesIffOpen
  <2>4. IsRun(u, n, fed')
    BY <1>3, <2>3, RunKept
  <2> QED BY <1>2, <1>5, <2>1, <2>4
<1>8. \A l \in 1..Len(units') : IsRun(units'[l], opened'[l], fed')
  BY <1>4, <1>6, <1>7
<1>9. \A l \in 1..Len(units') :
        (\E i \in 1..Len(incomplete') : incomplete'[i] = l) <=>
          /\ calling' /\ fed'[opened'[l]].call = calls'
          /\ Lasts(fed', opened'[l])
  BY <1>2, <1>4, UnfinishedKept
<1> QED BY <1>1, <1>2, <1>3, <1>4, <1>8, <1>9 DEF RunInv, IsOpen, Unfinished

LEMMA RunInvDropPacket ==
  ASSUME RunInv, ListInv', NEW p \in Packets, DropPacket(p)
  PROVE  RunInv'
<1>1. /\ TypeOK /\ OneOpenPerPid
      /\ Len(opened) = Len(units)
      /\ \A k \in 1..Len(units) : IsRun(units[k], opened[k], fed)
  BY DEF RunInv, ListInv
<1>2. /\ ~p.start /\ calling /\ Feed(p) /\ Matches(p.pid) = {}
      /\ UNCHANGED <<units, incomplete, opened>>
  BY DEF DropPacket, Feed
<1>3. /\ Longer(fed, fed', p, calls)
      /\ \A i \in 1..Len(fed') : fed'[i].call <= calls'
  BY <1>1, <1>2, FeedLonger DEF RunInv
<1>4. ASSUME NEW l \in 1..Len(units)
      PROVE  IsRun(units'[l], opened'[l], fed')
  <2>1. PICK n, u : n = opened[l] /\ u = units[l]
    OBVIOUS
  <2>2. ~(IsOpen(l) /\ units[l].pid = p.pid)
    BY <1>2 DEF IsOpen, Matches
  <2>3. IsRun(u, n, fed) /\ ~Continues(fed, n, p, calls)
    BY <1>1, <1>2, <2>1, <2>2, ContinuesIffOpen
  <2>4. IsRun(u, n, fed')
    BY <1>3, <2>3, RunKept
  <2> QED BY <1>2, <2>1, <2>4
<1>5. \A l \in 1..Len(units') :
        (\E i \in 1..Len(incomplete') : incomplete'[i] = l) <=>
          /\ calling' /\ fed'[opened'[l]].call = calls'
          /\ Lasts(fed', opened'[l])
  BY <1>2, UnfinishedKept
<1> QED BY <1>1, <1>2, <1>3, <1>4, <1>5 DEF RunInv, IsOpen, Unfinished

LEMMA RunInvStep == RunInv /\ [Next]_vars => RunInv'
<1> SUFFICES ASSUME RunInv, [Next]_vars
             PROVE  RunInv'
  OBVIOUS
<1>1. ListInv'
  BY ListStep DEF RunInv
<1>2. CASE BeginUnpack
  <2>1. /\ UNCHANGED <<units, fed, opened>>
        /\ calls' = calls + 1 /\ calls \in Nat
        /\ Len(incomplete') = 0
    BY <1>2, EmptySeq DEF BeginUnpack, RunInv, ListInv, TypeOK
  <2>2. \A i \in 1..Len(fed) : fed[i].call \in Nat /\ fed[i].call <= calls
    <3>1. \A i \in 1..Len(fed) : fed[i] \in [packet : Packets, call : Nat]
      BY ElementOfSeq DEF RunInv, ListInv, TypeOK
    <3> QED BY <3>1 DEF RunInv
  <2>3. \A k \in 1..Len(units) : fed[opened[k]].call # calls'
    BY <2>1, <2>2 DEF RunInv, IsRun
  <2>4. \A i \in 1..Len(fed') : fed'[i].call <= calls'
    BY <2>1, <2>2
  <2> QED BY <1>1, <2>1, <2>3, <2>4 DEF RunInv, IsOpen, Unfinished
<1>3. CASE EndUnpack
  <2>1. /\ UNCHANGED <<units, fed, opened, calls>>
        /\ ~calling' /\ Len(incomplete') = 0
    BY <1>3, EmptySeq DEF EndUnpack
  <2> QED BY <1>1, <2>1 DEF RunInv, IsOpen, Unfinished
<1>4. CASE UNCHANGED vars
  BY <1>1, <1>4 DEF vars, RunInv, IsOpen, Unfinished
<1> QED BY <1>1, <1>2, <1>3, <1>4, RunInvOpenUnit, RunInvExtendUnit,
           RunInvDropPacket DEF Next

(* ts_units_unpack (ts_units.c:66-94): every unit has exactly the payloads *)
(* of its PID from the packet that opened it to the next start of that PID *)
(* in the same call, in file order, however the PIDs are interleaved and   *)
(* for any number of packets, PIDs and calls.                              *)
THEOREM UnitsRun == Spec => []UnitsAreRuns
<1>1. RunInv => UnitsAreRuns
  <2> SUFFICES ASSUME RunInv, NEW k \in 1..Len(units), IsRun(units[k], opened[k], fed)
               PROVE  LET n == opened[k]
                          d == units[k].data
                      IN /\ n \in 1..Len(fed)
                         /\ Packet(n).start
                         /\ units[k].pid = Packet(n).pid
                         /\ units[k].rai = Packet(n).rai
                         /\ units[k].pcr = Packet(n).pcr
                         /\ Held(k) = {i \in Run(n) : Packet(i).size # 0}
                         /\ \A a, b \in 1..Len(d) : a < b => d[a] < d[b]
    BY DEF RunInv, UnitsAreRuns
  <2>1. Run(opened[k]) = RunIn(fed, opened[k])
    BY DEF Run, RunIn, SameFlow, Same, Starts, Packet
  <2> QED BY <2>1 DEF IsRun, Held, Packet
<1> QED BY <1>1, RunInvInit, RunInvStep, PTL DEF Spec

-----------------------------------------------------------------------------
(* The units are in the order of the packets that opened them, and every   *)
(* packet that starts a unit opened one.                                   *)
InOrder == \A k, l \in 1..Len(opened) : k < l => opened[k] < opened[l]

AllOpened ==
  \A n \in 1..Len(fed) :
    fed[n].packet.start => \E k \in 1..Len(opened) : opened[k] = n

OrderInv == RunInv /\ InOrder /\ AllOpened

LEMMA OrderInit == Init => OrderInv
<1> SUFFICES ASSUME Init PROVE OrderInv
  OBVIOUS
<1>1. RunInv
  BY RunInvInit
<1>2. Len(opened) = 0 /\ Len(fed) = 0
  BY EmptySeq DEF Init
<1> QED BY <1>1, <1>2 DEF OrderInv, InOrder, AllOpened

(* What RunInv says of the packets that opened the units.                  *)
LEMMA OpenedFed ==
  ASSUME RunInv
  PROVE  /\ TypeOK
         /\ Len(fed) \in Nat /\ Len(opened) \in Nat
         /\ Len(opened) = Len(units)
         /\ \A k \in 1..Len(opened) : opened[k] \in 1..Len(fed)
<1>1. TypeOK
  BY DEF RunInv, ListInv
<1>2. Len(fed) \in Nat /\ Len(opened) \in Nat
  BY <1>1, LenProperties DEF TypeOK
<1> QED BY <1>1, <1>2 DEF RunInv, IsRun

LEMMA OrderStep == OrderInv /\ [Next]_vars => OrderInv'
<1> SUFFICES ASSUME OrderInv, [Next]_vars
             PROVE  OrderInv'
  OBVIOUS
<1>1. RunInv'
  BY RunInvStep DEF OrderInv
<1>2. /\ TypeOK
      /\ Len(fed) \in Nat /\ Len(opened) \in Nat
      /\ Len(opened) = Len(units)
      /\ \A k \in 1..Len(opened) : opened[k] \in 1..Len(fed)
  BY OpenedFed DEF OrderInv
<1>3. InOrder /\ AllOpened
  BY DEF OrderInv
<1>4. ASSUME NEW p \in Packets, OpenUnit(p)
      PROVE  InOrder' /\ AllOpened'
  <2> DEFINE N == Len(opened) + 1
             m == Len(fed) + 1
  <2>1. /\ Len(opened') = N
        /\ \A k \in 1..Len(opened) : opened'[k] = opened[k]
        /\ opened'[N] = m
    BY <1>2, <1>4, OpenFacts
  <2>2. /\ Len(fed') = m
        /\ \A i \in 1..Len(fed) : fed'[i] = fed[i]
    BY <1>2, <1>4, FeedFacts DEF OpenUnit
  <2>3. InOrder'
    <3> SUFFICES ASSUME NEW k \in 1..N, NEW l \in 1..N, k < l
                 PROVE  opened'[k] < opened'[l]
      BY <2>1 DEF InOrder
    <3>1. k \in 1..Len(opened) /\ opened'[k] = opened[k]
      BY <1>2, <2>1
    <3>2. CASE l = N
      BY <1>2, <2>1, <3>1, <3>2
    <3>3. CASE l # N
      <4>1. l \in 1..Len(opened) /\ opened'[l] = opened[l]
        BY <1>2, <2>1, <3>3
      <4> QED BY <1>3, <3>1, <4>1 DEF InOrder
    <3> QED BY <3>2, <3>3
  <2>4. AllOpened'
    <3> SUFFICES ASSUME NEW n \in 1..m, fed'[n].packet.start
                 PROVE  \E k \in 1..N : opened'[k] = n
      BY <2>1, <2>2 DEF AllOpened
    <3>1. CASE n = m
      BY <1>2, <2>1, <3>1
    <3>2. CASE n # m
      <4>1. n \in 1..Len(fed) /\ fed'[n] = fed[n]
        BY <1>2, <2>2, <3>2
      <4>2. PICK k \in 1..Len(opened) : opened[k] = n
        BY <1>3, <4>1 DEF AllOpened
      <4>3. k \in 1..N
        BY <1>2
      <4> QED BY <2>1, <4>2, <4>3
    <3> QED BY <3>1, <3>2
  <2> QED BY <2>3, <2>4
<1>5. ASSUME NEW p \in Packets, Feed(p), ~p.start, UNCHANGED opened
      PROVE  InOrder' /\ AllOpened'
  <2>1. /\ Len(fed') = Len(fed) + 1
        /\ \A i \in 1..Len(fed) : fed'[i] = fed[i]
        /\ fed'[Len(fed) + 1] = [packet |-> p, call |-> calls]
    BY <1>2, <1>5, FeedFacts
  <2>2. InOrder'
    BY <1>3, <1>5 DEF InOrder
  <2>3. AllOpened'
    <3> SUFFICES ASSUME NEW n \in 1..Len(fed'), fed'[n].packet.start
                 PROVE  \E k \in 1..Len(opened') : opened'[k] = n
      BY DEF AllOpened
    <3>1. n \in 1..Len(fed) /\ fed'[n] = fed[n]
      BY <1>2, <1>5, <2>1
    <3> QED BY <1>3, <1>5, <3>1 DEF AllOpened
  <2> QED BY <2>2, <2>3
<1>6. ASSUME UNCHANGED <<fed, opened>>
      PROVE  InOrder' /\ AllOpened'
  BY <1>3, <1>6 DEF InOrder, AllOpened
<1>7. InOrder' /\ AllOpened'
  <2>1. ASSUME NEW p \in Packets, ExtendUnit(p) \/ DropPacket(p)
        PROVE  InOrder' /\ AllOpened'
    <3>1. Feed(p) /\ ~p.start /\ UNCHANGED opened
      BY <2>1 DEF ExtendUnit, DropPacket
    <3> QED BY <1>5, <3>1
  <2>2. CASE BeginUnpack \/ EndUnpack \/ UNCHANGED vars
    <3>1. UNCHANGED <<fed, opened>>
      BY <2>2 DEF BeginUnpack, EndUnpack, vars
    <3> QED BY <1>6, <3>1
  <2> QED BY <1>4, <2>1, <2>2 DEF Next
<1> QED BY <1>1, <1>7 DEF OrderInv

(* ts_units_unpack (ts_units.c:88): units->list has a unit for every start *)
(* in the file, in the order of the file.                                  *)
THEOREM OpenedInOrderAlways == Spec => []OpenedInOrder
<1>1. OrderInv => OpenedInOrder
  <2> SUFFICES ASSUME OrderInv PROVE OpenedInOrder
    OBVIOUS
  <2>1. Len(opened) = Len(units)
    BY OpenedFed DEF OrderInv
  <2> QED BY <2>1 DEF OrderInv, InOrder, AllOpened, OpenedInOrder, Packet
<1> QED BY <1>1, OrderInit, OrderStep, PTL DEF Spec

-----------------------------------------------------------------------------
(* A set of natural numbers has a least element.                           *)
LEMMA LeastOf ==
  ASSUME NEW S \in SUBSET Nat, S # {}
  PROVE  \E d \in S : \A e \in S : d <= e
<1> DEFINE R == {s \in Nat \X Nat : s[1] < s[2]}
<1>1. \A x, y \in Nat : <<x, y>> \in R <=> x < y
  OBVIOUS
<1>2. IsWellFoundedOn(R, Nat)
  BY NatLessThanWellFounded DEF OpToRel
<1> HIDE DEF R
<1>3. PICK d \in S : \A e \in S : ~(<<e, d>> \in R)
  BY <1>2, WFMin
<1>4. d \in Nat /\ \A e \in S : e \in Nat /\ ~(e < d)
  BY <1>1, <1>3
<1> QED BY <1>4

(* The last packet at or before i that starts a unit of i's flow is the    *)
(* one whose run i is in, and no other start has i in its run.             *)
LEMMA LatestStart ==
  ASSUME NEW f, Len(f) \in Nat, NEW i \in 1..Len(f),
         NEW n \in 1..i, Same(f, n, i), f[n].packet.start
  PROVE  \E m \in 1..i : f[m].packet.start /\ i \in RunIn(f, m)
<1> DEFINE S == {i - m : m \in {l \in 1..i : Same(f, l, i) /\ f[l].packet.start}}
<1>1. i \in Nat
  OBVIOUS
<1>2. S \in SUBSET Nat /\ i - n \in S
  BY <1>1
<1>3. PICK d \in S : \A e \in S : d <= e
  BY <1>2, LeastOf
<1>4. PICK m \in 1..i : d = i - m /\ Same(f, m, i) /\ f[m].packet.start
  OBVIOUS
<1>5. ASSUME NEW j \in (m + 1)..i, Same(f, j, m), f[j].packet.start
      PROVE  FALSE
  <2>1. j \in 1..i /\ Same(f, j, i)
    BY <1>1, <1>4, <1>5 DEF Same
  <2>2. i - j \in S
    BY <2>1, <1>5
  <2>3. i - m <= i - j
    BY <1>3, <1>4, <2>2
  <2> QED BY <1>1, <2>3
<1>6. i \in m..Len(f) /\ Same(f, i, m)
  BY <1>1, <1>4 DEF Same
<1> QED BY <1>4, <1>5, <1>6 DEF RunIn

LEMMA OneRun ==
  ASSUME NEW f, Len(f) \in Nat, NEW m \in 1..Len(f), NEW n \in 1..Len(f),
         f[m].packet.start, f[n].packet.start,
         NEW i, i \in RunIn(f, m), i \in RunIn(f, n)
  PROVE  m = n
<1>1. /\ i \in m..Len(f) /\ i \in n..Len(f) /\ i \in Nat
      /\ Same(f, i, m) /\ Same(f, i, n)
      /\ \A j \in (m + 1)..i : ~(Same(f, j, m) /\ f[j].packet.start)
      /\ \A j \in (n + 1)..i : ~(Same(f, j, n) /\ f[j].packet.start)
  BY DEF RunIn
<1>2. Same(f, m, n) /\ Same(f, n, m)
  BY <1>1 DEF Same
<1>3. n \notin (m + 1)..i /\ m \notin (n + 1)..i
  BY <1>1, <1>2
<1> QED BY <1>1, <1>3

(* ts_units_unpack (ts_units.c:71-94): a payload is dropped exactly when   *)
(* no packet of its PID started a unit before it in the same call, and no  *)
(* payload is put in two units.                                            *)
THEOREM PlacedOnceAlways == Spec => []PlacedOnce
<1>1. OrderInv => PlacedOnce
  <2> SUFFICES ASSUME OrderInv PROVE PlacedOnce
    OBVIOUS
  <2>1. /\ Len(fed) \in Nat /\ Len(opened) \in Nat
        /\ Len(opened) = Len(units)
        /\ \A k \in 1..Len(opened) : opened[k] \in 1..Len(fed)
    BY OpenedFed DEF OrderInv
  <2>2. \A k \in 1..Len(units) :
          /\ fed[opened[k]].packet.start
          /\ Held(k) = {i \in RunIn(fed, opened[k]) : fed[i].packet.size # 0}
    BY DEF OrderInv, RunInv, IsRun, Held
  <2> SUFFICES ASSUME NEW i \in 1..Len(fed), fed[i].packet.size # 0
               PROVE  /\ (\E k \in 1..Len(units) : i \in Held(k))
                            <=> (\E n \in 1..i : Starts(n, i))
                      /\ \A k, l \in 1..Len(units) :
                           i \in Held(k) /\ i \in Held(l) => k = l
    BY DEF PlacedOnce, Packet
  <2>3. \A n : Starts(n, i) <=> Same(fed, n, i) /\ fed[n].packet.start
    BY DEF Starts, SameFlow, Same, Packet
  <2>4. ASSUME NEW k \in 1..Len(units), i \in Held(k)
        PROVE  \E n \in 1..i : Starts(n, i)
    <3>1. opened[k] \in 1..Len(fed) /\ i \in RunIn(fed, opened[k])
      BY <2>1, <2>2, <2>4
    <3>2. opened[k] \in 1..i /\ Same(fed, opened[k], i)
      BY <2>1, <3>1 DEF RunIn, Same
    <3> QED BY <2>2, <2>3, <3>2
  <2>5. ASSUME NEW n \in 1..i, Starts(n, i)
        PROVE  \E k \in 1..Len(units) : i \in Held(k)
    <3>1. PICK m \in 1..i : fed[m].packet.start /\ i \in RunIn(fed, m)
      BY <2>1, <2>3, <2>5, LatestStart
    <3>2. m \in 1..Len(fed)
      BY <2>1
    <3>3. PICK k \in 1..Len(opened) : opened[k] = m
      BY <3>1, <3>2 DEF OrderInv, AllOpened
    <3> QED BY <2>1, <2>2, <3>1, <3>3
  <2>6. ASSUME NEW k \in 1..Len(units), NEW l \in 1..Len(units),
               i \in Held(k), i \in Held(l)
        PROVE  k = l
    <3>1. /\ i \in RunIn(fed, opened[k]) /\ i \in RunIn(fed, opened[l])
          /\ fed[opened[k]].packet.start /\ fed[opened[l]].packet.start
          /\ opened[k] \in 1..Len(fed) /\ opened[l] \in 1..Len(fed)
      BY <2>1, <2>2, <2>6
    <3>2. opened[k] = opened[l]
      BY <2>1, <3>1, OneRun
    <3>3. ~(k < l) /\ ~(l < k)
      BY <2>1, <3>1, <3>2 DEF OrderInv, InOrder
    <3> QED BY <2>1, <3>3
  <2> QED BY <2>4, <2>5, <2>6
<1> QED BY <1>1, OrderInit, OrderStep, PTL DEF Spec

-----------------------------------------------------------------------------
(* The refinement: the list of open units implements one reassembler for   *)
(* each PID (Flows).  The first state maps to a first state, and every     *)
(* step to a step on the flow of the packet's PID, or to none.             *)
(* The positions of the closed units of a PID, and of the open ones.       *)
ClosedAt(pid) == {k \in 1..Len(units) : units[k].pid = pid /\ ~IsOpen(k)}
OpenAt(pid) == {k \in 1..Len(units) : units[k].pid = pid /\ IsOpen(k)}

FlowPids == {p.pid : p \in Packets}
Mapped == [pid \in FlowPids |-> FlowOf(pid)]

LEMMA FlowParts ==
  ASSUME NEW pid
  PROVE  /\ FlowOf(pid) = [closed |-> {Entry(k) : k \in ClosedAt(pid)},
                           open |-> {Entry(k) : k \in OpenAt(pid)}]
         /\ FlowOf(pid)' = [closed |-> {Entry(k)' : k \in ClosedAt(pid)'},
                            open |-> {Entry(k)' : k \in OpenAt(pid)'}]
BY Zenon DEF FlowOf, ClosedAt, OpenAt

(* A step that keeps a PID's units as they are keeps its flow.             *)
LEMMA FlowKept ==
  ASSUME NEW pid, ClosedAt(pid)' = ClosedAt(pid), OpenAt(pid)' = OpenAt(pid),
         \A k \in ClosedAt(pid) \cup OpenAt(pid) : Entry(k)' = Entry(k)
  PROVE  FlowOf(pid)' = FlowOf(pid)
<1>1. {Entry(k)' : k \in ClosedAt(pid)'} = {Entry(k) : k \in ClosedAt(pid)}
  BY Zenon
<1>2. {Entry(k)' : k \in OpenAt(pid)'} = {Entry(k) : k \in OpenAt(pid)}
  BY Zenon
<1> QED BY <1>1, <1>2, FlowParts, Zenon

(* The flows differ in that of one PID only.                               *)
LEMMA OneFlow ==
  ASSUME NEW pid \in FlowPids, NEW f, FlowOf(pid)' = f,
         \A q \in FlowPids \ {pid} : FlowOf(q)' = FlowOf(q)
  PROVE  Mapped' = [Mapped EXCEPT ![pid] = f]
BY DEF Mapped

LEMMA OpenUnitFeeds ==
  ASSUME RunInv, NEW p \in Packets, OpenUnit(p)
  PROVE  F!Feed(p)
<1> DEFINE new == [from |-> Len(fed) + 1, rai |-> p.rai, pcr |-> p.pcr,
                  data |-> Payload(p, Len(fed) + 1)]
<1>0. PICK N : N = Len(units) + 1
  OBVIOUS
<1>1. TypeOK /\ OneOpenPerPid /\ Len(opened) = Len(units)
  BY DEF RunInv, ListInv
<1>2. /\ p.start /\ Feed(p) /\ incomplete' = Reopen(p.pid)
      /\ calling /\ calling' = calling
  BY DEF OpenUnit, Feed
<1>3. /\ Len(units') = N /\ Len(units) \in Nat
      /\ \A k \in 1..Len(units) : units'[k] = units[k] /\ opened'[k] = opened[k]
      /\ units'[N] = NewUnit(p, Len(fed) + 1) /\ opened'[N] = Len(fed) + 1
  BY <1>0, <1>1, OpenFacts
<1>4. \A k : IsOpen(k)' <=> k = N \/ (IsOpen(k) /\ units[k].pid # p.pid)
  <2>1. \A k : (\E i \in 1..Len(Reopen(p.pid)) : Reopen(p.pid)[i] = k)
                 <=> k = N \/ (IsOpen(k) /\ units[k].pid # p.pid)
    BY <1>0, <1>1, ReopenFacts, ZenonT(30), SMTT(30)
  <2>2. \A k : IsOpen(k)' <=> \E i \in 1..Len(incomplete') : incomplete'[i] = k
    BY Zenon DEF IsOpen
  <2> QED BY <1>2, <2>1, <2>2, Zenon
<1>5. \A k \in 1..Len(units) : Entry(k)' = Entry(k)
  BY <1>3 DEF Entry
<1>6. Entry(N)' = new /\ units'[N].pid = p.pid
  <2>1. /\ units'[N].pid = p.pid /\ units'[N].rai = p.rai
        /\ units'[N].pcr = p.pcr /\ units'[N].data = Payload(p, Len(fed) + 1)
    BY <1>3 DEF NewUnit
  <2>2. Entry(N)' = [from |-> opened'[N], rai |-> units'[N].rai,
                     pcr |-> units'[N].pcr, data |-> units'[N].data]
    BY Zenon DEF Entry
  <2> QED BY <1>3, <2>1, <2>2
<1> HIDE DEF new
<1>7. 1..Len(units') = (1..Len(units)) \cup {N} /\ N \notin 1..Len(units)
  BY <1>0, <1>3
<1>8. ASSUME NEW q \in FlowPids \ {p.pid}
      PROVE  FlowOf(q)' = FlowOf(q)
  <2>1. ClosedAt(q)' = ClosedAt(q)
    BY <1>3, <1>4, <1>6, <1>7 DEF ClosedAt
  <2>2. OpenAt(q)' = OpenAt(q)
    BY <1>3, <1>4, <1>6, <1>7 DEF OpenAt
  <2>3. \A k \in ClosedAt(q) \cup OpenAt(q) : Entry(k)' = Entry(k)
    BY <1>5 DEF ClosedAt, OpenAt
  <2> QED BY <2>1, <2>2, <2>3, FlowKept, Zenon
<1>9. FlowOf(p.pid)' =
        [closed |-> FlowOf(p.pid).closed \cup FlowOf(p.pid).open, open |-> {new}]
  <2>1. ClosedAt(p.pid)' = ClosedAt(p.pid) \cup OpenAt(p.pid)
    BY <1>3, <1>4, <1>7 DEF ClosedAt, OpenAt
  <2>2. OpenAt(p.pid)' = {N}
    BY <1>3, <1>4, <1>6, <1>7 DEF OpenAt
  <2>3. \A k \in ClosedAt(p.pid) \cup OpenAt(p.pid) : Entry(k)' = Entry(k)
    BY <1>5 DEF ClosedAt, OpenAt
  <2>4. {Entry(k)' : k \in ClosedAt(p.pid)'} =
          {Entry(k) : k \in ClosedAt(p.pid)} \cup {Entry(k) : k \in OpenAt(p.pid)}
    BY <2>1, <2>3
  <2>5. {Entry(k)' : k \in OpenAt(p.pid)'} = {new}
    <3>1. {Entry(k)' : k \in {N}} = {Entry(N)'}
      BY Zenon
    <3> QED BY <2>2, <1>6, <3>1, Zenon
  <2>6. /\ FlowOf(p.pid).closed = {Entry(k) : k \in ClosedAt(p.pid)}
        /\ FlowOf(p.pid).open = {Entry(k) : k \in OpenAt(p.pid)}
    BY FlowParts
  <2> QED BY <2>4, <2>5, <2>6, FlowParts, Zenon
<1>10. p.pid \in FlowPids
  BY DEF FlowPids
<1>11. Mapped' = [Mapped EXCEPT ![p.pid] =
         [closed |-> FlowOf(p.pid).closed \cup FlowOf(p.pid).open, open |-> {new}]]
  BY <1>8, <1>9, <1>10, OneFlow
<1>12. Mapped[p.pid] = FlowOf(p.pid)
  BY <1>10 DEF Mapped
<1>13. Len(fed') = Len(fed) + 1
  BY <1>1, <1>2, FeedFacts
<1> QED
  BY <1>2, <1>11, <1>12, <1>13
  DEF F!Feed, F!Close, F!Started, F!Added, new, Payload, Mapped, FlowPids

LEMMA ExtendUnitFeeds ==
  ASSUME RunInv, NEW p \in Packets, ExtendUnit(p)
  PROVE  F!Feed(p)
<1>1. TypeOK /\ OneOpenPerPid /\ Len(opened) = Len(units)
  BY DEF RunInv, ListInv
<1>2. /\ ~p.start /\ Feed(p) /\ UNCHANGED <<incomplete, opened>>
      /\ calling /\ calling' = calling
  BY DEF ExtendUnit, Feed
<1>3. PICK a : a = Payload(p, Len(fed) + 1)
  OBVIOUS
<1>4. /\ Len(units') = Len(units)
      /\ \A k \in 1..Len(units) : units'[k].pid = units[k].pid
  BY <1>1, ExtendFacts
<1>5. PICK n \in 1..Len(units) :
        /\ IsOpen(n) /\ units[n].pid = p.pid
        /\ units'[n] = [units[n] EXCEPT !.data = @ \o a]
        /\ \A l \in (1..Len(units)) \ {n} : units'[l] = units[l]
  BY <1>1, <1>3, ExtendFacts
<1>6. \A k : IsOpen(k)' <=> IsOpen(k)
  BY <1>2 DEF IsOpen
<1>7. \A q : ClosedAt(q)' = ClosedAt(q) /\ OpenAt(q)' = OpenAt(q)
  BY <1>4, <1>6 DEF ClosedAt, OpenAt
<1>8. \A k \in (1..Len(units)) \ {n} : Entry(k)' = Entry(k)
  BY <1>2, <1>5 DEF Entry
<1>9. Entry(n)' = [Entry(n) EXCEPT !.data = @ \o a]
  <2>1. units[n] \in UnitType
    BY <1>1, ElementOfSeq DEF TypeOK
  <2>2. /\ units'[n].rai = units[n].rai /\ units'[n].pcr = units[n].pcr
        /\ units'[n].data = units[n].data \o a
    BY <1>5, <2>1 DEF UnitType
  <2>3. Entry(n)' = [from |-> opened[n], rai |-> units[n].rai,
                     pcr |-> units[n].pcr, data |-> units[n].data \o a]
    BY <1>2, <2>2, Zenon DEF Entry
  <2>4. Entry(n) = [from |-> opened[n], rai |-> units[n].rai,
                    pcr |-> units[n].pcr, data |-> units[n].data]
    BY Zenon DEF Entry
  <2>5. PICK e : e = Entry(n)
    OBVIOUS
  <2>6. [e EXCEPT !.data = @ \o a] =
          [from |-> opened[n], rai |-> units[n].rai, pcr |-> units[n].pcr,
           data |-> units[n].data \o a]
    <3>1. PICK d, i, c, o : /\ d = units[n].data /\ i = units[n].rai
                            /\ c = units[n].pcr /\ o = opened[n]
      BY Zenon
    <3>2. e = [from |-> o, rai |-> i, pcr |-> c, data |-> d]
      BY <2>4, <2>5, <3>1, Zenon
    <3>3. [e EXCEPT !.data = @ \o a] =
            [from |-> o, rai |-> i, pcr |-> c, data |-> d \o a]
      <4>1. e.data = d
        BY <3>2, SMT
      <4>2. ASSUME NEW x
            PROVE  [e EXCEPT !.data = x] =
                     [from |-> o, rai |-> i, pcr |-> c, data |-> x]
        BY <3>2, SMT
      <4>3. PICK x : x = d \o a
        OBVIOUS
      <4>4. [e EXCEPT !.data = @ \o a] = [e EXCEPT !.data = x]
        BY <4>1, <4>3, Zenon
      <4> QED BY <4>2, <4>3, <4>4, Zenon
    <3> QED BY <3>1, <3>3, Zenon
  <2> QED BY <2>3, <2>5, <2>6, Zenon
<1>10. OpenAt(p.pid) = {n}
  <2>1. ASSUME NEW k \in OpenAt(p.pid) PROVE k = n
    BY <1>1, <1>5, <2>1 DEF OpenAt, IsOpen, OneOpenPerPid
  <2>2. n \in OpenAt(p.pid)
    BY <1>5 DEF OpenAt
  <2> QED BY <2>1, <2>2
<1>11. ASSUME NEW q \in FlowPids \ {p.pid}
       PROVE  FlowOf(q)' = FlowOf(q)
  <2>1. \A k \in ClosedAt(q) \cup OpenAt(q) : Entry(k)' = Entry(k)
    BY <1>5, <1>8 DEF ClosedAt, OpenAt
  <2> QED BY <2>1, <1>7, FlowKept, Zenon
<1>12. FlowOf(p.pid)' = [closed |-> FlowOf(p.pid).closed,
                         open |-> {[u EXCEPT !.data = @ \o a] : u \in FlowOf(p.pid).open}]
  <2>1. \A k \in ClosedAt(p.pid) : Entry(k)' = Entry(k)
    BY <1>5, <1>8 DEF ClosedAt
  <2>2. {Entry(k)' : k \in ClosedAt(p.pid)'} = {Entry(k) : k \in ClosedAt(p.pid)}
    BY <2>1, <1>7, Zenon
  <2>3. {Entry(k)' : k \in OpenAt(p.pid)'} = {Entry(n)'}
    BY <1>7, <1>10, Zenon
  <2>4. {Entry(k) : k \in OpenAt(p.pid)} = {Entry(n)}
    BY <1>10, Zenon
  <2>5. /\ FlowOf(p.pid).closed = {Entry(k) : k \in ClosedAt(p.pid)}
        /\ FlowOf(p.pid).open = {Entry(n)}
    BY <2>4, FlowParts
  <2>6. {[u EXCEPT !.data = @ \o a] : u \in FlowOf(p.pid).open} = {Entry(n)'}
    BY <1>9, <2>5, Zenon
  <2> QED BY <2>2, <2>3, <2>5, <2>6, FlowParts, Zenon
<1>13. p.pid \in FlowPids
  BY DEF FlowPids
<1>14. Mapped' = [Mapped EXCEPT ![p.pid] =
         [closed |-> FlowOf(p.pid).closed,
          open |-> {[u EXCEPT !.data = @ \o a] : u \in FlowOf(p.pid).open}]]
  BY <1>11, <1>12, <1>13, OneFlow
<1>15. Mapped[p.pid] = FlowOf(p.pid)
  BY <1>13 DEF Mapped
<1>16. Len(fed') = Len(fed) + 1
  BY <1>1, <1>2, FeedFacts
<1>17. \A u : F!Extended(u, p) = [u EXCEPT !.data = @ \o a]
  BY <1>3 DEF F!Extended, F!Added, Payload
<1>18. {F!Extended(u, p) : u \in FlowOf(p.pid).open} =
         {[u EXCEPT !.data = @ \o a] : u \in FlowOf(p.pid).open}
  BY <1>17, Zenon
<1> QED BY <1>2, <1>14, <1>15, <1>16, <1>18 DEF F!Feed, Mapped, FlowPids

(* A packet dropped is fed to a flow with no open unit.                    *)
LEMMA DropPacketFeeds ==
  ASSUME RunInv, NEW p \in Packets, DropPacket(p)
  PROVE  F!Feed(p)
<1>1. TypeOK /\ OneOpenPerPid
  BY DEF RunInv, ListInv
<1>2. /\ ~p.start /\ Feed(p) /\ UNCHANGED <<units, incomplete, opened>>
      /\ calling /\ calling' = calling /\ Matches(p.pid) = {}
  BY DEF DropPacket, Feed
<1>3. ASSUME NEW q PROVE FlowOf(q)' = FlowOf(q)
  BY <1>2 DEF FlowOf, Entry, IsOpen
<1>4. OpenAt(p.pid) = {}
  BY <1>2 DEF OpenAt, IsOpen, Matches
<1>5. FlowOf(p.pid) = [closed |-> FlowOf(p.pid).closed, open |-> {}]
  <2>1. {Entry(k) : k \in OpenAt(p.pid)} = {}
    BY <1>4
  <2>2. FlowOf(p.pid) = [closed |-> {Entry(k) : k \in ClosedAt(p.pid)},
                         open |-> {Entry(k) : k \in OpenAt(p.pid)}]
    BY FlowParts, Zenon
  <2>3. FlowOf(p.pid).closed = {Entry(k) : k \in ClosedAt(p.pid)}
    BY <2>2
  <2> QED BY <2>1, <2>2, <2>3, Zenon
<1>6. p.pid \in FlowPids
  BY DEF FlowPids
<1>7. Mapped' = [Mapped EXCEPT ![p.pid] = [closed |-> FlowOf(p.pid).closed, open |-> {}]]
  BY <1>3, <1>5, <1>6, OneFlow
<1>8. Mapped[p.pid] = FlowOf(p.pid) /\ FlowOf(p.pid).open = {}
  BY <1>5, <1>6 DEF Mapped
<1>9. Len(fed') = Len(fed) + 1
  BY <1>1, <1>2, FeedFacts
<1>10. {F!Extended(u, p) : u \in FlowOf(p.pid).open} = {}
  BY <1>8
<1> QED
  BY <1>2, <1>7, <1>8, <1>9, <1>10 DEF F!Feed, Mapped, FlowPids

-----------------------------------------------------------------------------
(* Between calls no unit is open.                                          *)
LEMMA BeginBegins ==
  ASSUME RunInv, BeginUnpack
  PROVE  F!Begin
<1>1. /\ ~calling /\ calling' = TRUE
      /\ UNCHANGED <<units, fed, opened>> /\ incomplete' = <<>>
  BY DEF BeginUnpack
<1>2. \A k \in 1..Len(units) : ~IsOpen(k) /\ ~IsOpen(k)'
  BY <1>1, EmptySeq DEF RunInv, Unfinished, IsOpen
<1>3. ASSUME NEW q PROVE FlowOf(q)' = FlowOf(q)
  <2>1. ClosedAt(q)' = ClosedAt(q) /\ OpenAt(q)' = OpenAt(q)
    BY <1>1, <1>2 DEF ClosedAt, OpenAt
  <2>2. \A k : Entry(k)' = Entry(k)
    BY <1>1 DEF Entry
  <2> QED BY <2>1, <2>2, FlowKept, Zenon
<1> QED BY <1>1, <1>3 DEF F!Begin, Mapped

LEMMA EndEnds ==
  ASSUME RunInv, EndUnpack
  PROVE  F!End
<1>1. /\ calling /\ calling' = FALSE
      /\ UNCHANGED <<units, fed, opened>> /\ incomplete' = <<>>
  BY DEF EndUnpack
<1>2. \A k : ~IsOpen(k)'
  BY <1>1, EmptySeq DEF IsOpen
<1>3. \A k : Entry(k)' = Entry(k)
  BY <1>1 DEF Entry
<1>4. ASSUME NEW q
      PROVE  FlowOf(q)' = [closed |-> FlowOf(q).closed \cup FlowOf(q).open, open |-> {}]
  <2>1. ClosedAt(q)' = ClosedAt(q) \cup OpenAt(q) /\ OpenAt(q)' = {}
    BY <1>1, <1>2 DEF ClosedAt, OpenAt
  <2>2. {Entry(k)' : k \in ClosedAt(q)'} =
          {Entry(k) : k \in ClosedAt(q)} \cup {Entry(k) : k \in OpenAt(q)}
    BY <1>3, <2>1
  <2>3. {Entry(k)' : k \in OpenAt(q)'} = {}
    BY <2>1
  <2>4. /\ FlowOf(q).closed = {Entry(k) : k \in ClosedAt(q)}
        /\ FlowOf(q).open = {Entry(k) : k \in OpenAt(q)}
    BY FlowParts
  <2> QED BY <2>2, <2>3, <2>4, FlowParts, Zenon
<1> QED BY <1>1, <1>4 DEF F!End, F!Close, F!Pids, Mapped, FlowPids

LEMMA FlowsInit == Init => F!Init
<1> SUFFICES ASSUME Init PROVE F!Init
  OBVIOUS
<1>1. Len(units) = 0 /\ Len(fed) = 0 /\ calling = FALSE
  BY EmptySeq DEF Init
<1>2. ASSUME NEW q PROVE FlowOf(q) = [closed |-> {}, open |-> {}]
  BY <1>1 DEF FlowOf
<1> QED BY <1>1, <1>2 DEF F!Init, F!Pids, F!EmptyFlow

LEMMA FlowsStep == RunInv /\ [Next]_vars => [F!Next]_F!vars
<1> SUFFICES ASSUME RunInv, [Next]_vars PROVE [F!Next]_F!vars
  OBVIOUS
<1>1. CASE BeginUnpack
  BY <1>1, BeginBegins DEF F!Next
<1>2. ASSUME NEW p \in Packets, OpenUnit(p) \/ ExtendUnit(p) \/ DropPacket(p)
      PROVE  F!Next
  BY <1>2, OpenUnitFeeds, ExtendUnitFeeds, DropPacketFeeds DEF F!Next
<1>3. CASE EndUnpack
  BY <1>3, EndEnds DEF F!Next
<1>4. CASE UNCHANGED vars
  <2>1. \A q : FlowOf(q)' = FlowOf(q)
    BY <1>4 DEF vars, FlowOf, Entry, IsOpen
  <2> QED BY <1>4, <2>1 DEF vars, F!vars
<1> QED BY <1>1, <1>2, <1>3, <1>4 DEF Next

(* ts_units_unpack: for any packets on any PIDs, interleaved in any way,   *)
(* in any number of calls, the linear list of open units does what one     *)
(* reassembler for each PID would do.                                      *)
THEOREM FlowsImplemented == Spec => ImplementsFlows
<1>1. Spec => Init /\ []RunInv /\ [][Next]_vars
  BY RunInvInit, RunInvStep, PTL DEF Spec
<1> QED BY <1>1, FlowsInit, FlowsStep, PTL DEF Spec, ImplementsFlows, F!Spec

=============================================================================

------------------------ MODULE StreamUnpack_proofs ------------------------
(***************************************************************************)
(* Proofs about StreamUnpack, for any units in any number of calls: a PID  *)
(* has one stream, a failed call attaches no PES packet, what a program    *)
(* holds no table changes, a call succeeds exactly when the tables agree,  *)
(* and then the program holds what they say.                               *)
(***************************************************************************)
EXTENDS StreamUnpack, SequenceTheorems, TLAPS

(* Units are numbered from 1 over all calls, and entries are read of a     *)
(* unit of the call.                                                       *)
TypeInv ==
  /\ TypeOK
  /\ Len(input) <= given
  /\ phase = "entries" => at <= Len(input)

Inv == TypeInv /\ OneStreamPerPid

LEMMA SequenceOfUnits ==
  ASSUME NEW n, NEW us \in BoundedSeq(Units, n)
  PROVE  us \in Seq(UnitType) /\ Len(us) \in Nat
<1>1. PICK m \in 0..n : us \in [1..m -> Units]
  BY DEF BoundedSeq, SeqOf
<1>2. us \in [1..m -> UnitType]
  BY <1>1, UnitsAssumption
<1>3. us \in Seq(UnitType)
  BY <1>1, <1>2, SeqDef
<1> QED BY <1>3, LenProperties

LEMMA InputFacts ==
  ASSUME TypeOK, at <= Len(input)
  PROVE  input[at] \in UnitType
<1>1. input \in Seq(UnitType) /\ at \in Nat \ {0}
  BY DEF TypeOK
<1>2. at \in 1..Len(input)
  BY <1>1, LenProperties
<1> QED BY <1>1, <1>2, ElementOfSeq

(* ts_stream_lookup finds the one stream of a PID.                         *)
LEMMA LookupFacts ==
  ASSUME Inv, NEW pid \in Pids
  PROVE  Lookup(pid) \in 1..Len(streams) /\ streams[Lookup(pid)].pid = pid
<1>1. Len(streams) \in Nat
  BY LenProperties DEF Inv, TypeInv, TypeOK
<1>2. PICK s \in 1..Len(streams) : streams[s].pid = pid
  BY DEF Pids
<1>3. \A r \in 1..(s - 1) : streams[r].pid # pid
  <2> SUFFICES ASSUME NEW r \in 1..(s - 1), streams[r].pid = pid PROVE FALSE
    OBVIOUS
  <2>1. r \in 1..Len(streams) /\ r # s
    BY <1>1
  <2> QED BY <1>2, <2>1 DEF Inv, OneStreamPerPid
<1> QED BY <1>2, <1>3 DEF Lookup

(* ts_stream_create.                                                       *)
LEMMA CreatedFacts ==
  ASSUME Inv, NEW e \in EntryType
  PROVE  /\ Created(e) \in Seq(StreamType)
         /\ Len(streams) \in Nat /\ Len(Created(e)) \in Nat
         /\ Len(streams) <= Len(Created(e))
         /\ At(e) \in 1..Len(Created(e))
         /\ \A s \in 1..Len(streams) : Created(e)[s] = streams[s]
         /\ \A s \in 1..Len(Created(e)) :
              s > Len(streams) => Created(e)[s].packets = <<>>
         /\ \A r, s \in 1..Len(Created(e)) :
              Created(e)[r].pid = Created(e)[s].pid => r = s
<1>1. streams \in Seq(StreamType) /\ Len(streams) \in Nat
  BY LenProperties DEF Inv, TypeInv, TypeOK
<1>2. CASE e.pid \in Pids
  BY <1>1, <1>2, LookupFacts DEF Created, At, Inv, OneStreamPerPid
<1>3. CASE e.pid \notin Pids
  <2> DEFINE new == NewStream(e.pid, 0, 0)
  <2>1. new \in StreamType /\ new.pid = e.pid /\ new.packets = <<>>
    BY DEF NewStream, StreamType, EntryType
  <2>2. Created(e) = Append(streams, new) /\ At(e) = Len(streams) + 1
    BY <1>3 DEF Created, At
  <2> HIDE DEF new
  <2>3. /\ Created(e) \in Seq(StreamType)
        /\ Len(Created(e)) = Len(streams) + 1
        /\ \A s \in 1..Len(streams) : Created(e)[s] = streams[s]
        /\ Created(e)[Len(streams) + 1] = new
    BY <1>1, <2>1, <2>2, AppendProperties
  <2>4. \A s \in 1..Len(streams) : streams[s].pid # e.pid
    BY <1>3 DEF Pids
  <2>5. ASSUME NEW r \in 1..Len(Created(e)), NEW s \in 1..Len(Created(e)),
               Created(e)[r].pid = Created(e)[s].pid
        PROVE  r = s
    <3>1. /\ r \in 1..Len(streams) \/ r = Len(streams) + 1
          /\ s \in 1..Len(streams) \/ s = Len(streams) + 1
      BY <1>1, <2>3
    <3>2. CASE r \in 1..Len(streams) /\ s \in 1..Len(streams)
      BY <2>3, <2>5, <3>2 DEF Inv, OneStreamPerPid
    <3>3. CASE r = Len(streams) + 1 \/ s = Len(streams) + 1
      BY <2>1, <2>3, <2>4, <2>5, <3>1, <3>3
    <3> QED BY <3>1, <3>2, <3>3
  <2> QED BY <1>1, <2>1, <2>2, <2>3, <2>5
<1> QED BY <1>2, <1>3

(* What reading an entry of a PMT leaves of the streams: of those there    *)
(* were no PID and no packet changes, nor a type or descriptor once set.   *)
LEMMA ReadEntryFacts ==
  ASSUME Inv, ReadEntry
  PROVE  /\ streams' \in Seq(StreamType)
         /\ Len(streams) \in Nat /\ Len(streams') \in Nat
         /\ Len(streams) <= Len(streams')
         /\ \A s \in 1..Len(streams) :
              /\ streams'[s].pid = streams[s].pid
              /\ streams'[s].packets = streams[s].packets
              /\ streams[s].type # 0 => streams'[s].type = streams[s].type
              /\ streams[s].descriptor # 0 =>
                   streams'[s].descriptor = streams[s].descriptor
         /\ \A s \in 1..Len(streams') :
              s > Len(streams) => streams'[s].packets = <<>>
         /\ OneStreamPerPid'
<1> DEFINE e == input[at].entries[entry]
           c == Created(e)
           i == At(e)
           type == Adopt(c[i].type, e.type)
           descriptor == IF type = e.type THEN Adopt(c[i].descriptor, e.descriptor)
                                          ELSE c[i].descriptor
           row == [c[i] EXCEPT !.type = type, !.descriptor = descriptor]
<1>1. streams' = [c EXCEPT ![i] = row]
  BY DEF ReadEntry
<1>2. e \in EntryType
  <2>1. input \in Seq(UnitType) /\ at \in Nat \ {0} /\ entry \in Nat \ {0}
    BY DEF Inv, TypeInv, TypeOK
  <2>2. at <= Len(input) /\ entry <= Len(input[at].entries)
    BY DEF ReadEntry, Inv, TypeInv
  <2>3. input[at] \in UnitType
    BY <2>1, <2>2, ElementOfSeq, LenProperties
  <2>4. input[at].entries \in Seq(EntryType)
    BY <2>3 DEF UnitType
  <2> QED BY <2>1, <2>2, <2>4, ElementOfSeq, LenProperties
<1>3. /\ c \in Seq(StreamType) /\ i \in 1..Len(c)
      /\ Len(streams) \in Nat /\ Len(c) \in Nat /\ Len(streams) <= Len(c)
      /\ \A s \in 1..Len(streams) : c[s] = streams[s]
      /\ \A s \in 1..Len(c) : s > Len(streams) => c[s].packets = <<>>
      /\ \A r, s \in 1..Len(c) : c[r].pid = c[s].pid => r = s
  BY <1>2, CreatedFacts
<1>4. c[i] \in StreamType
  BY <1>3, ElementOfSeq
<1>5. /\ row \in StreamType
      /\ row.pid = c[i].pid /\ row.packets = c[i].packets
      /\ c[i].type # 0 => row.type = c[i].type
      /\ c[i].descriptor # 0 => row.descriptor = c[i].descriptor
  BY <1>2, <1>4 DEF StreamType, EntryType, Adopt
<1> HIDE DEF c, i, row, type, descriptor
<1>6. /\ streams' \in Seq(StreamType) /\ Len(streams') = Len(c)
      /\ \A s \in 1..Len(c) : streams'[s] = IF s = i THEN row ELSE c[s]
  BY <1>1, <1>3, <1>5, ExceptSeq
<1>7. \A s \in 1..Len(c) :
        streams'[s].pid = c[s].pid /\ streams'[s].packets = c[s].packets
  BY <1>5, <1>6
<1>8. OneStreamPerPid'
  BY <1>3, <1>6, <1>7 DEF OneStreamPerPid
<1>9. ASSUME NEW s \in 1..Len(streams)
      PROVE  /\ streams[s].type # 0 => streams'[s].type = streams[s].type
             /\ streams[s].descriptor # 0 =>
                  streams'[s].descriptor = streams[s].descriptor
  BY <1>3, <1>5, <1>6
<1> QED BY <1>3, <1>6, <1>7, <1>8, <1>9

(* ts_stream_unpack_pes adds one packet to one stream.                     *)
LEMMA ReadPesFacts ==
  ASSUME Inv, ReadPes
  PROVE  /\ streams' \in Seq(StreamType)
         /\ Len(streams) \in Nat /\ Len(streams') = Len(streams)
         /\ \A s \in 1..Len(streams) :
              /\ streams[s] \in StreamType
              /\ streams'[s].pid = streams[s].pid
              /\ streams'[s].type = streams[s].type
              /\ streams'[s].descriptor = streams[s].descriptor
              /\ streams'[s].packets =
                   IF s = at THEN Append(streams[s].packets, Number(entry))
                             ELSE streams[s].packets
<1> DEFINE row == [streams[at] EXCEPT !.packets = Append(@, Number(entry))]
<1>1. /\ streams \in Seq(StreamType) /\ Len(streams) \in Nat
      /\ \A s \in 1..Len(streams) : streams[s] \in StreamType
  BY LenProperties, ElementOfSeq DEF Inv, TypeInv, TypeOK
<1>2. at \in 1..Len(streams) /\ Number(entry) \in Nat \ {0}
  <2>1. /\ Len(input) \in Nat /\ given \in Nat /\ Len(input) <= given
        /\ at \in Nat \ {0} /\ entry \in Nat \ {0}
    BY LenProperties DEF Inv, TypeInv, TypeOK
  <2> QED BY <1>1, <2>1 DEF ReadPes, Number
<1>3. streams[at].packets \in Seq(Nat \ {0})
  BY <1>1, <1>2 DEF StreamType
<1>4. Append(streams[at].packets, Number(entry)) \in Seq(Nat \ {0})
  BY <1>2, <1>3, AppendProperties
<1>5. /\ row \in StreamType
      /\ row.pid = streams[at].pid /\ row.type = streams[at].type
      /\ row.descriptor = streams[at].descriptor
      /\ row.packets = Append(streams[at].packets, Number(entry))
  BY <1>1, <1>2, <1>4 DEF StreamType
<1>6. streams' = [streams EXCEPT ![at] = row]
  BY DEF ReadPes
<1> HIDE DEF row
<1>7. /\ streams' \in Seq(StreamType) /\ Len(streams') = Len(streams)
      /\ \A s \in 1..Len(streams) :
           streams'[s] = IF s = at THEN row ELSE streams[s]
  BY <1>1, <1>2, <1>5, <1>6, ExceptSeq
<1> QED BY <1>1, <1>2, <1>5, <1>7

-----------------------------------------------------------------------------
LEMMA InvInit == Init => Inv
<1> SUFFICES ASSUME Init PROVE Inv
  OBVIOUS
<1>1. /\ streams = <<>> /\ Len(streams) = 0 /\ Len(input) = 0
      /\ streams \in Seq(StreamType) /\ input \in Seq(UnitType)
  BY EmptySeq DEF Init
<1>2. <<0, 0, <<>>>> \in Nat \X Nat \X Seq(StreamType)
  <2> DEFINE rows == Seq(StreamType)
  <2>1. <<>> \in rows
    BY EmptySeq
  <2> HIDE DEF rows
  <2>2. <<0, 0, <<>>>> \in Nat \X Nat \X rows
    BY <2>1
  <2> QED BY <2>2 DEF rows
<1>3. TypeInv
  BY <1>1, <1>2 DEF Init, TypeInv, TypeOK
<1>4. OneStreamPerPid
  BY <1>1 DEF OneStreamPerPid
<1> QED BY <1>3, <1>4 DEF Inv

LEMMA InvNext == Inv /\ [Next]_vars => Inv'
<1> SUFFICES ASSUME Inv, [Next]_vars PROVE Inv'
  OBVIOUS
<1> USE DEF Inv, TypeInv, TypeOK
<1>1. ASSUME NEW us \in BoundedSeq(Units, MaxUnits - given), Begin(us)
      PROVE  Inv'
  <2>1. us \in Seq(UnitType) /\ Len(us) \in Nat
    BY SequenceOfUnits
  <2>2. before' \in Nat \X Nat \X Seq(StreamType)
    BY <1>1 DEF Begin, program
  <2>3. UNCHANGED <<program_pid, pcr_pid, streams>>
    BY <1>1 DEF Begin, program
  <2> QED BY <1>1, <2>1, <2>2, <2>3 DEF Begin, OneStreamPerPid
<1>2. CASE ReadPat
  <2>1. UNCHANGED <<pcr_pid, streams, input, before, given>>
    BY <1>2 DEF ReadPat, Goto, Return, program
  <2>2. program_pid' \in Nat
    <3>1. ASSUME at <= Len(input) PROVE input[at].program \in Nat
      BY <3>1, InputFacts DEF UnitType
    <3> QED BY <1>2, <3>1 DEF ReadPat, Adopt, program
  <2>3. /\ phase' \in {"idle", "pat"} /\ result' \in {-1, 0, 1}
        /\ at' \in Nat \ {0} /\ entry' \in Nat \ {0}
    BY <1>2, SMTT(30) DEF ReadPat, Goto, Return
  <2> QED BY <2>1, <2>2, <2>3 DEF OneStreamPerPid
<1>3. CASE EndPat
  BY <1>3, SMTT(30) DEF EndPat, Goto, Return, program, OneStreamPerPid
<1>4. CASE ReadPmt
  <2>1. UNCHANGED <<program_pid, streams, input, before, given>>
    BY <1>4 DEF ReadPmt, Goto, Return, program
  <2>2. pcr_pid' \in Nat
    <3>1. ASSUME at <= Len(input) PROVE input[at].pcr \in Nat
      BY <3>1, InputFacts DEF UnitType
    <3> QED BY <1>4, <3>1 DEF ReadPmt, Adopt, program
  <2>3. /\ phase' \in {"idle", "pmt", "entries"} /\ result' \in {-1, 0, 1}
        /\ at' \in Nat \ {0} /\ entry' \in Nat \ {0}
        /\ phase' = "entries" => at' <= Len(input)
    BY <1>4, SMTT(30) DEF ReadPmt, Goto, Return
  <2> QED BY <2>1, <2>2, <2>3 DEF OneStreamPerPid
<1>5. CASE ReadEntry
  <2>1. streams' \in Seq(StreamType) /\ OneStreamPerPid'
    BY <1>5, ReadEntryFacts
  <2>2. /\ UNCHANGED <<program_pid, pcr_pid, input, at, before, given>>
        /\ phase' \in {"idle", "entries"} /\ result' \in {-1, 0, 1}
        /\ entry' \in Nat \ {0}
        /\ phase = "entries"
    BY <1>5 DEF ReadEntry, Return
  <2> QED BY <2>1, <2>2
<1>6. CASE EndEntries \/ EndPmt \/ EndUnits
  <2>1. /\ UNCHANGED <<program_pid, pcr_pid, streams, input, before, given, result>>
        /\ phase' \in {"pmt", "pes"}
        /\ at' \in Nat \ {0} /\ entry' \in Nat \ {0}
    BY <1>6, SMTT(30) DEF EndEntries, EndPmt, EndUnits, Goto, program
  <2> QED BY <2>1 DEF OneStreamPerPid
<1>7. CASE ReadPes
  <2>1. /\ streams' \in Seq(StreamType) /\ Len(streams') = Len(streams)
        /\ \A s \in 1..Len(streams) : streams'[s].pid = streams[s].pid
    BY <1>7, ReadPesFacts
  <2>2. /\ UNCHANGED <<program_pid, pcr_pid, input, phase, at, result, before, given>>
        /\ entry' \in Nat \ {0}
    BY <1>7 DEF ReadPes, Advance
  <2> QED BY <2>1, <2>2 DEF OneStreamPerPid
<1>8. CASE SkipUnit \/ EndPes
  <2>1. /\ UNCHANGED <<program_pid, pcr_pid, streams, input, at, before, given>>
        /\ phase' \in {"idle", "pes"} /\ result' \in {-1, 0, 1}
        /\ entry' \in Nat \ {0}
    BY <1>8, SMTT(30) DEF SkipUnit, EndPes, Advance, Return, program
  <2> QED BY <2>1 DEF OneStreamPerPid
<1>9. ASSUME NEW pid \in CallerPids, Create(pid)
      PROVE  Inv'
  <2> DEFINE e == [pid |-> pid, type |-> 0, descriptor |-> 0]
  <2>1. e \in EntryType /\ e.pid = pid
    BY BoundAssumption DEF EntryType
  <2>2. streams' = Created(e)
    BY <1>9, <2>1 DEF Create, Created
  <2>3. streams' \in Seq(StreamType) /\ OneStreamPerPid'
    BY <2>1, <2>2, CreatedFacts DEF OneStreamPerPid
  <2> QED BY <1>9, <2>3 DEF Create
<1>10. ASSUME NEW pid \in CallerPids, Delete(pid)
       PROVE  Inv'
  <2> DEFINE d == Lookup(pid)
             n == Len(streams)
             front == SubSeq(streams, 1, d - 1)
             back == SubSeq(streams, d + 1, n)
  <2>1. d \in 1..n /\ n \in Nat
    BY <1>10, LookupFacts, LenProperties DEF Delete
  <2>2. /\ front \in Seq(StreamType) /\ Len(front) = d - 1
        /\ \A s \in 1..(d - 1) : front[s] = streams[s]
    BY <2>1, SubSeqProperties
  <2>3. /\ back \in Seq(StreamType) /\ Len(back) = n - d
        /\ \A s \in 1..(n - d) : back[s] = streams[d + s]
    BY <2>1, SubSeqProperties, SMTT(30)
  <2>4. streams' = front \o back
    BY <1>10 DEF Delete, RemoveAt
  <2> HIDE DEF d, n, front, back
  <2>5. /\ streams' \in Seq(StreamType) /\ Len(streams') = n - 1
        /\ \A s \in 1..(n - 1) :
             streams'[s] = IF s < d THEN streams[s] ELSE streams[s + 1]
    <3>1. /\ streams' \in Seq(StreamType) /\ Len(streams') = n - 1
          /\ \A s \in 1..(n - 1) :
               streams'[s] = IF s <= d - 1 THEN front[s] ELSE back[s - (d - 1)]
      <4>1. Len(front) + Len(back) = n - 1
        BY <2>1, <2>2, <2>3
      <4>2. /\ front \o back \in Seq(StreamType)
            /\ Len(front \o back) = Len(front) + Len(back)
            /\ \A s \in 1..(Len(front) + Len(back)) :
                 (front \o back)[s] =
                   IF s <= Len(front) THEN front[s] ELSE back[s - Len(front)]
        BY <2>2, <2>3, ConcatProperties, SMTT(30)
      <4> QED BY <2>2, <2>4, <4>1, <4>2
    <3>2. ASSUME NEW s \in 1..(n - 1), s >= d
          PROVE  back[s - (d - 1)] = streams[s + 1]
      <4>1. s - (d - 1) \in 1..(n - d) /\ d + (s - (d - 1)) = s + 1
        BY <2>1, <3>2
      <4> QED BY <2>3, <4>1
    <3>3. ASSUME NEW s \in 1..(n - 1)
          PROVE  streams'[s] = IF s < d THEN streams[s] ELSE streams[s + 1]
      <4>1. CASE s < d
        <5>1. s \in 1..(d - 1) /\ s <= d - 1
          BY <2>1, <4>1
        <5> QED BY <2>2, <3>1, <4>1, <5>1
      <4>2. CASE s >= d
        <5>1. ~(s <= d - 1) /\ ~(s < d)
          BY <2>1, <4>2
        <5>2. back[s - (d - 1)] = streams[s + 1]
          BY <3>2, <4>2
        <5> QED BY <3>1, <5>1, <5>2
      <4> QED BY <2>1, <4>1, <4>2
    <3> QED BY <3>1, <3>3
  <2>6. OneStreamPerPid'
    <3> SUFFICES ASSUME NEW r \in 1..(n - 1), NEW s \in 1..(n - 1),
                        streams'[r].pid = streams'[s].pid
                 PROVE  r = s
      BY <2>5 DEF OneStreamPerPid
    <3> DEFINE old(i) == IF i < d THEN i ELSE i + 1
    <3>1. /\ old(r) \in 1..n /\ old(s) \in 1..n
          /\ streams'[r] = streams[old(r)] /\ streams'[s] = streams[old(s)]
      BY <2>1, <2>5
    <3>2. old(r) = old(s)
      BY <3>1 DEF OneStreamPerPid, n
    <3> QED BY <2>1, <3>2
  <2> QED BY <1>10, <2>5, <2>6 DEF Delete
<1>11. CASE UNCHANGED vars
  BY <1>11 DEF vars, program, OneStreamPerPid
<1> QED
  BY <1>1, <1>2, <1>3, <1>4, <1>5, <1>6, <1>7, <1>8, <1>9, <1>10, <1>11
  DEF Next, Steps

THEOREM InvAlways == Spec => []Inv
<1>1. Spec => Init /\ [][Next]_vars
  BY PTL DEF Spec
<1> QED BY <1>1, InvInit, InvNext, PTL

-----------------------------------------------------------------------------
(* ts_stream_create, ts_stream.c:93: however many tables list a PID, it    *)
(* has one stream.                                                         *)
THEOREM OneStreamPerPidAlways == Spec => []OneStreamPerPid
<1>1. Inv => OneStreamPerPid
  BY DEF Inv
<1> QED BY <1>1, InvAlways, PTL

(* Until the PES packets are read, and after a failure, no packet has been *)
(* attached and no stream removed since the call began.                    *)
NothingAttached ==
  /\ Len(before[3]) <= Len(streams)
  /\ \A s \in 1..Len(streams) :
       streams[s].packets =
         IF s <= Len(before[3]) THEN before[3][s].packets ELSE <<>>

FailureInv ==
  phase \in {"pat", "pmt", "entries"} \/ result = -1 => NothingAttached

(* A running call has not returned.                                        *)
RunningInv == phase # "idle" => result = 0

LEMMA FailureInvNext ==
  Inv /\ FailureInv /\ RunningInv /\ [Next]_vars => FailureInv' /\ RunningInv'
<1> SUFFICES ASSUME Inv, FailureInv, RunningInv, [Next]_vars
             PROVE  FailureInv' /\ RunningInv'
  OBVIOUS
<1> USE DEF RunningInv
<1>1. Len(streams) \in Nat /\ Len(before[3]) \in Nat
  BY LenProperties DEF Inv, TypeInv, TypeOK
<1>2. ASSUME NEW us, Begin(us)
      PROVE  FailureInv' /\ RunningInv'
  <2>1. streams' = streams /\ before'[3] = streams /\ result' = 0
    BY <1>2 DEF Begin, program
  <2>2. NothingAttached'
    BY <1>1, <2>1 DEF NothingAttached
  <2> QED BY <2>1, <2>2 DEF FailureInv
<1>3. CASE ReadPat \/ EndPat \/ ReadPmt \/ EndEntries \/ EndPmt
  <2>1. /\ phase \in {"pat", "pmt", "entries"}
        /\ UNCHANGED <<streams, before>>
        /\ \/ phase' # "idle" /\ result' = result
           \/ phase' = "idle"
    BY <1>3 DEF ReadPat, EndPat, ReadPmt, EndEntries, EndPmt, Goto, Return, program
  <2>2. NothingAttached /\ NothingAttached'
    BY <2>1 DEF FailureInv, NothingAttached
  <2> QED BY <2>1, <2>2 DEF FailureInv
<1>4. CASE ReadEntry
  <2>1. /\ phase = "entries" /\ UNCHANGED before
        /\ \/ phase' = phase /\ result' = result
           \/ phase' = "idle"
    BY <1>4 DEF ReadEntry, Return
  <2>2. NothingAttached
    BY <2>1 DEF FailureInv
  <2>3. NothingAttached'
    BY <1>1, <1>4, <2>1, <2>2, ReadEntryFacts DEF NothingAttached
  <2> QED BY <2>1, <2>3 DEF FailureInv
<1>5. CASE ReadPes \/ SkipUnit \/ EndUnits \/ EndPes
  <2>1. /\ phase = "pes" /\ phase' \in {"pes", "idle"}
        /\ \/ phase' = "pes" /\ result' = result
           \/ phase' = "idle" /\ result' = 1
    BY <1>5 DEF ReadPes, SkipUnit, EndUnits, EndPes, Advance, Goto, Return
  <2> QED BY <2>1 DEF FailureInv
<1>6. ASSUME NEW pid, Create(pid) \/ Delete(pid)
      PROVE  FailureInv' /\ RunningInv'
  BY <1>6 DEF Create, Delete, FailureInv
<1>7. CASE UNCHANGED vars
  BY <1>7 DEF vars, program, FailureInv, NothingAttached
<1> QED BY <1>2, <1>3, <1>4, <1>5, <1>6, <1>7 DEF Next, Steps

(* ts_stream_unpack, ts_stream.c:369-373: a call that returns -1 has given *)
(* no stream a PES packet, whatever its tables did before it failed.       *)
THEOREM FailureAttachesNothingAlways == Spec => []FailureAttachesNothing
<1>1. Init => FailureInv /\ RunningInv
  <2> SUFFICES ASSUME Init PROVE NothingAttached /\ RunningInv
    BY DEF FailureInv
  <2>1. Len(streams) = 0 /\ Len(before[3]) = 0
    BY DEF Init
  <2> QED BY <2>1 DEF Init, NothingAttached, RunningInv
<1>2. FailureInv => FailureAttachesNothing
  BY DEF FailureInv, NothingAttached, FailureAttachesNothing
<1>3. Spec => Init /\ [][Next]_vars
  BY PTL DEF Spec
<1> QED BY <1>1, <1>2, <1>3, InvAlways, FailureInvNext, PTL

-----------------------------------------------------------------------------
(* What HoldsOn says of one step.                                          *)
HoldsOnStep ==
  phase # "idle" =>
    /\ program_pid # 0 => program_pid' = program_pid
    /\ pcr_pid # 0 => pcr_pid' = pcr_pid
    /\ \A s \in 1..Len(streams) :
         LET x == streams[s]
             y == streams'[s]
         IN /\ y.pid = x.pid
            /\ x.type # 0 => y.type = x.type
            /\ x.descriptor # 0 => y.descriptor = x.descriptor
            /\ IsPrefix(x.packets, y.packets)

LEMMA PrefixFacts ==
  ASSUME NEW S, NEW p \in Seq(S)
  PROVE  IsPrefix(p, p) /\ \A e \in S : IsPrefix(p, Append(p, e))
<1>1. IsPrefix(p, p)
  BY LenProperties DEF IsPrefix
<1>2. ASSUME NEW e \in S PROVE IsPrefix(p, Append(p, e))
  <2> DEFINE q == Append(p, e)
  <2>1. /\ q \in Seq(S) /\ Len(q) = Len(p) + 1 /\ Len(p) \in Nat
        /\ \A i \in 1..Len(p) : q[i] = p[i]
    BY AppendProperties, LenProperties
  <2> HIDE DEF q
  <2>2. /\ SubSeq(q, 1, Len(p)) \in Seq(S) /\ SubSeq(p, 1, Len(p)) \in Seq(S)
        /\ Len(SubSeq(q, 1, Len(p))) = Len(p) /\ Len(SubSeq(p, 1, Len(p))) = Len(p)
        /\ \A i \in 1..Len(p) : SubSeq(q, 1, Len(p))[i] = q[i]
        /\ \A i \in 1..Len(p) : SubSeq(p, 1, Len(p))[i] = p[i]
    BY <2>1, SubSeqProperties
  <2>3. SubSeq(p, 1, Len(p)) = SubSeq(q, 1, Len(p))
    BY <2>1, <2>2, SeqEqual
  <2> QED BY <2>1, <2>3 DEF IsPrefix, q
<1> QED BY <1>1, <1>2

LEMMA HoldsOnNext == Inv /\ [Next]_vars => [HoldsOnStep]_vars
<1> SUFFICES ASSUME Inv, Next, phase # "idle" PROVE HoldsOnStep
  BY DEF HoldsOnStep
<1>1. ASSUME NEW s \in 1..Len(streams)
      PROVE  streams[s].packets \in Seq(Nat \ {0})
                /\ IsPrefix(streams[s].packets, streams[s].packets)
  <2>1. streams[s] \in StreamType
    BY ElementOfSeq DEF Inv, TypeInv, TypeOK
  <2> QED BY <2>1, PrefixFacts DEF StreamType
<1>2. ASSUME UNCHANGED streams,
             program_pid # 0 => program_pid' = program_pid,
             pcr_pid # 0 => pcr_pid' = pcr_pid
      PROVE  HoldsOnStep
  BY <1>1, <1>2 DEF HoldsOnStep
<1>3. CASE ReadPat \/ EndPat \/ ReadPmt
  BY <1>2, <1>3 DEF ReadPat, EndPat, ReadPmt, Adopt, program
<1>4. CASE EndEntries \/ EndPmt \/ SkipUnit \/ EndUnits \/ EndPes
  BY <1>2, <1>4 DEF EndEntries, EndPmt, SkipUnit, EndUnits, EndPes, Advance, program
<1>5. CASE ReadEntry
  <2>1. program_pid' = program_pid /\ pcr_pid' = pcr_pid
    BY <1>5 DEF ReadEntry
  <2> QED BY <1>1, <1>5, <2>1, ReadEntryFacts DEF HoldsOnStep
<1>6. CASE ReadPes
  <2>1. program_pid' = program_pid /\ pcr_pid' = pcr_pid
    BY <1>6 DEF ReadPes, Advance
  <2>2. Number(entry) \in Nat \ {0}
    <3>1. /\ Len(input) \in Nat /\ given \in Nat /\ Len(input) <= given
          /\ entry \in Nat \ {0}
      BY LenProperties DEF Inv, TypeInv, TypeOK
    <3> QED BY <3>1 DEF Number
  <2>3. ASSUME NEW s \in 1..Len(streams)
        PROVE  IsPrefix(streams[s].packets, streams'[s].packets)
    <3>1. \/ streams'[s].packets = streams[s].packets
          \/ streams'[s].packets = Append(streams[s].packets, Number(entry))
      BY <1>6, ReadPesFacts
    <3> QED BY <1>1, <2>2, <3>1, PrefixFacts
  <2> QED BY <1>6, <2>1, <2>3, ReadPesFacts DEF HoldsOnStep
<1>7. CASE \E us \in BoundedSeq(Units, MaxUnits - given) : Begin(us)
  BY <1>7 DEF Begin
<1>8. CASE \E pid \in CallerPids : Create(pid) \/ Delete(pid)
  BY <1>8 DEF Create, Delete
<1> QED BY <1>3, <1>4, <1>5, <1>6, <1>7, <1>8 DEF Next, Steps

(* ts_stream_unpack, ts_stream.c:165, 240, 251 and 258: no table changes   *)
(* what a program holds, and a call only adds PES packets to a stream.     *)
THEOREM HoldsOnAlways == Spec => HoldsOn
<1>1. Spec => Init /\ [][Next]_vars
  BY PTL DEF Spec
<1>2. Spec => [][HoldsOnStep]_vars
  BY <1>1, InvAlways, HoldsOnNext, PTL
<1> QED BY <1>2, PTL DEF HoldsOn, HoldsOnStep

-----------------------------------------------------------------------------
(* What the tables say, in turn.  c is what was agreed on at the places P:  *)
(* the only value given there that is not 0, or 0.                         *)
Follows(c, said, P) ==
  /\ \A p, q \in P : Earlier(p, q) /\ said[p] # 0 => said[q] = said[p]
  /\ \A p \in P : said[p] # 0 => said[p] = c
  /\ c # 0 => \E p \in P : said[p] = c

(* The places before the k-th of unit n.                                   *)
Before(said, n, k) == {p \in DOMAIN said : Earlier(p, <<n, k>>)}

LEMMA FollowsAll ==
  ASSUME NEW said, NEW c, Follows(c, said, DOMAIN said)
  PROVE  Agreed(said) /\ AgreedOn(said) = c
<1>1. Agreed(said)
  BY Zenon DEF Follows, Agreed
<1>2. CASE \E p \in DOMAIN said : said[p] # 0
  <2> DEFINE r == CHOOSE p \in DOMAIN said : said[p] # 0
  <2>1. r \in DOMAIN said /\ said[r] # 0
    BY <1>2, Zenon
  <2>2. AgreedOn(said) = said[r]
    BY <1>2, Zenon DEF AgreedOn
  <2> QED BY <1>1, <2>1, <2>2, Zenon DEF Follows
<1>3. CASE ~\E p \in DOMAIN said : said[p] # 0
  <2>1. AgreedOn(said) = 0
    BY <1>3, Zenon DEF AgreedOn
  <2> QED BY <1>1, <1>3, <2>1, Zenon DEF Follows
<1> QED BY <1>2, <1>3

(* The next to speak agrees with what was agreed on, or contradicts one    *)
(* before it.                                                              *)
LEMMA SpeaksNext ==
  ASSUME NEW said, NEW c, NEW P, Follows(c, said, P), NEW q,
         \A p \in P : Earlier(p, q) /\ ~Earlier(q, p)
  PROVE  /\ Adopt(c, said[q]) = said[q] => Follows(said[q], said, P \cup {q})
         /\ Adopt(c, said[q]) # said[q] =>
              \E p \in P : Earlier(p, q) /\ said[p] # 0 /\ said[q] # said[p]
<1> DEFINE v == said[q]
<1>1. ASSUME Adopt(c, v) = v
      PROVE  Follows(v, said, P \cup {q})
  <2>1. \A p \in P : said[p] # 0 => said[p] = v
    BY <1>1, Zenon DEF Adopt, Follows
  <2>2. ASSUME NEW p \in P \cup {q}, NEW r \in P \cup {q}, Earlier(p, r), said[p] # 0
        PROVE  said[r] = said[p]
    <3>1. CASE p \in P /\ r \in P
      BY <2>2, <3>1, Zenon DEF Follows
    <3>2. CASE r = q
      BY <2>1, <2>2, <3>2, Zenon
    <3>3. CASE p = q /\ r \in P
      BY <2>2, <3>3, Zenon
    <3> QED BY <3>1, <3>2, <3>3
  <2> QED BY <2>1, <2>2, Zenon DEF Follows
<1>2. ASSUME Adopt(c, v) # v
      PROVE  \E p \in P : Earlier(p, q) /\ said[p] # 0 /\ v # said[p]
  <2>1. c # 0 /\ c # v
    BY <1>2, Zenon DEF Adopt
  <2> QED BY <2>1, Zenon DEF Follows
<1> QED BY <1>1, <1>2

LEMMA Unagreed ==
  ASSUME NEW said, NEW q \in DOMAIN said, NEW p \in DOMAIN said,
         Earlier(p, q), said[p] # 0, said[q] # said[p]
  PROVE  ~Agreed(said)
BY Zenon DEF Agreed

LEMMA FollowsNothing ==
  ASSUME NEW said PROVE Follows(0, said, {})
BY Zenon DEF Follows

LEMMA FollowsOne ==
  ASSUME NEW said, NEW q
  PROVE  Follows(said[q], said, {q})
BY Zenon DEF Follows

(* Places are pairs of numbers.                                            *)
LEMMA PlaceFacts ==
  ASSUME NEW n \in Nat, NEW k \in Nat
  PROVE  /\ <<n, k>>[1] = n /\ <<n, k>>[2] = k
         /\ \A p \in Nat \X Nat :
              /\ p[1] \in Nat /\ p[2] \in Nat /\ p = <<p[1], p[2]>>
              /\ Earlier(p, <<n, k>>) <=> p[1] < n \/ (p[1] = n /\ p[2] < k)
              /\ Earlier(p, <<n, k>>) => ~Earlier(<<n, k>>, p)
              /\ Earlier(p, <<n, k + 1>>) <=> Earlier(p, <<n, k>>) \/ p = <<n, k>>
<1>1. <<n, k>>[1] = n /\ <<n, k>>[2] = k
  OBVIOUS
<1>2. ASSUME NEW i \in Nat, NEW j \in Nat
      PROVE  /\ <<i, j>>[1] = i /\ <<i, j>>[2] = j
             /\ Earlier(<<i, j>>, <<n, k>>) <=> i < n \/ (i = n /\ j < k)
             /\ Earlier(<<i, j>>, <<n, k>>) => ~Earlier(<<n, k>>, <<i, j>>)
             /\ Earlier(<<i, j>>, <<n, k + 1>>) <=>
                  Earlier(<<i, j>>, <<n, k>>) \/ <<i, j>> = <<n, k>>
  BY DEF Earlier
<1>3. ASSUME NEW p \in Nat \X Nat
      PROVE  /\ p[1] \in Nat /\ p[2] \in Nat /\ p = <<p[1], p[2]>>
             /\ Earlier(p, <<n, k>>) <=> p[1] < n \/ (p[1] = n /\ p[2] < k)
             /\ Earlier(p, <<n, k>>) => ~Earlier(<<n, k>>, p)
             /\ Earlier(p, <<n, k + 1>>) <=> Earlier(p, <<n, k>>) \/ p = <<n, k>>
  <2>1. p[1] \in Nat /\ p[2] \in Nat /\ p = <<p[1], p[2]>>
    OBVIOUS
  <2>2. PICK i, j : i = p[1] /\ j = p[2]
    OBVIOUS
  <2>3. i \in Nat /\ j \in Nat /\ p = <<i, j>>
    BY <2>1, <2>2, Zenon
  <2>4. /\ Earlier(p, <<n, k>>) <=> i < n \/ (i = n /\ j < k)
        /\ Earlier(p, <<n, k>>) => ~Earlier(<<n, k>>, p)
        /\ Earlier(p, <<n, k + 1>>) <=> Earlier(p, <<n, k>>) \/ p = <<n, k>>
    BY <1>2, <2>3, Zenon
  <2> QED BY <2>1, <2>2, <2>4, Zenon
<1> QED BY <1>1, <1>3, Zenon

-----------------------------------------------------------------------------
(* Where the tables of a call speak.                                       *)
LEMMA SaidFacts ==
  ASSUME TypeOK
  PROVE  /\ Len(input) \in Nat /\ Len(before[3]) \in Nat /\ Len(streams) \in Nat
         /\ at \in Nat /\ at >= 1 /\ entry \in Nat /\ entry >= 1
         /\ DOMAIN ProgramPids = ({0} \cup UnitsOn(0)) \X {1}
         /\ DOMAIN PcrPids = ({0} \cup Tables) \X {1}
         /\ \A pid : DOMAIN Types(pid) = Rows(pid) /\ DOMAIN Descriptors(pid) = Rows(pid)
         /\ \A pid : \A p \in Rows(pid) :
              Types(pid)[p] = Row(p).type /\ Descriptors(pid)[p] = Row(p).descriptor
         /\ \A pid : UnitsOn(pid) \subseteq 1..Len(input)
<1>1. /\ Len(input) \in Nat /\ Len(streams) \in Nat
      /\ at \in Nat /\ at >= 1 /\ entry \in Nat /\ entry >= 1
  BY LenProperties DEF TypeOK
<1>2. Len(before[3]) \in Nat
  <2>1. before[3] \in Seq(StreamType)
    BY DEF TypeOK
  <2> QED BY <2>1, LenProperties
<1>3. /\ DOMAIN ProgramPids = ({0} \cup UnitsOn(0)) \X {1}
      /\ DOMAIN PcrPids = ({0} \cup Tables) \X {1}
  BY Zenon DEF ProgramPids, PcrPids
<1>4. /\ \A pid : DOMAIN Types(pid) = Rows(pid) /\ DOMAIN Descriptors(pid) = Rows(pid)
      /\ \A pid : \A p \in Rows(pid) :
           Types(pid)[p] = Row(p).type /\ Descriptors(pid)[p] = Row(p).descriptor
  BY Zenon DEF Types, Descriptors
<1>5. \A pid : UnitsOn(pid) \subseteq 1..Len(input)
  BY Zenon DEF UnitsOn
<1> QED BY <1>1, <1>2, <1>3, <1>4, <1>5, Zenon

(* The entries of the tables and the streams held.                         *)
LEMMA EntryFacts ==
  ASSUME TypeOK
  PROVE  /\ \A n, k : <<n, k>> \in Entries <=>
              n \in Tables /\ input[n].kind = "pmt" /\ k \in 1..Len(input[n].entries)
         /\ \A n, k : <<n, k>> \in Held <=> n = 0 /\ k \in 1..Len(before[3])
         /\ \A p \in Held \cup Entries : p \in Nat \X Nat /\ p[2] >= 1
         /\ \A p \in Held : p[1] = 0
         /\ \A p \in Entries : p[1] \in 1..Len(input)
<1>1. ASSUME NEW n, NEW k
      PROVE  <<n, k>> \in Entries <=>
               n \in Tables /\ input[n].kind = "pmt" /\ k \in 1..Len(input[n].entries)
  <2> DEFINE T == {m \in Tables : input[m].kind = "pmt"}
             E(m) == {m} \X (1..Len(input[m].entries))
  <2>1. Entries = UNION {E(m) : m \in T}
    BY Zenon DEF Entries
  <2>2. \A m : <<n, k>> \in E(m) <=> n = m /\ k \in 1..Len(input[m].entries)
    BY Zenon
  <2> HIDE DEF E
  <2>3. <<n, k>> \in Entries <=> \E m \in T : <<n, k>> \in E(m)
    BY <2>1, Zenon
  <2> QED BY <2>2, <2>3, Zenon
<1>2. \A n, k : <<n, k>> \in Held <=> n = 0 /\ k \in 1..Len(before[3])
  BY Zenon DEF Held
<1>3. \A p \in Held : p[1] = 0 /\ p \in Nat \X Nat /\ p[2] >= 1
  BY SMTT(30) DEF Held
<1>4. ASSUME NEW p \in Entries
      PROVE  p \in Nat \X Nat /\ p[2] >= 1 /\ p[1] \in 1..Len(input)
  <2>1. PICK n \in Tables : p \in {n} \X (1..Len(input[n].entries))
    BY Zenon DEF Entries
  <2>2. n \in 1..Len(input) /\ Len(input) \in Nat
    BY SaidFacts, Zenon DEF Tables
  <2> DEFINE m == Len(input[n].entries)
  <2>3. PICK k \in 1..m : p = <<n, k>>
    <3> DEFINE K == 1..m
    <3> HIDE DEF K
    <3>1. p \in {n} \X K
      BY <2>1, Zenon DEF K
    <3>2. \E k \in K : p = <<n, k>>
      BY <3>1
    <3> QED BY <3>2, Zenon DEF K
  <2>4. m \in Nat
    <3>1. input[n] \in UnitType
      BY <2>2, ElementOfSeq DEF TypeOK
    <3>2. input[n].entries \in Seq(EntryType)
      BY <3>1 DEF UnitType
    <3> QED BY <3>2, LenProperties
  <2> HIDE DEF m
  <2>5. n \in Nat /\ k \in Nat /\ k >= 1
    BY <2>2, <2>3, <2>4
  <2> QED BY <2>2, <2>3, <2>5
<1> QED BY <1>1, <1>2, <1>3, <1>4, Zenon

(* q may speak next after the places P.                                    *)
MaySpeak(q, said, P) ==
  /\ DOMAIN said \subseteq Nat \X Nat
  /\ q \in DOMAIN said /\ P \subseteq DOMAIN said
  /\ \A p \in P : Earlier(p, q)

LEMMA Speaks ==
  ASSUME NEW said, NEW P, NEW q, MaySpeak(q, said, P), NEW c, Follows(c, said, P)
  PROVE  /\ Adopt(c, said[q]) = said[q] => Follows(said[q], said, P \cup {q})
         /\ Adopt(c, said[q]) # said[q] => ~Agreed(said)
<1>1. \A p \in P : Earlier(p, q) /\ ~Earlier(q, p)
  <2> SUFFICES ASSUME NEW p \in P PROVE Earlier(p, q) /\ ~Earlier(q, p)
    OBVIOUS
  <2>1. p \in Nat \X Nat /\ q \in Nat \X Nat /\ Earlier(p, q)
    BY Zenon DEF MaySpeak
  <2>2. p[1] \in Nat /\ p[2] \in Nat /\ q[1] \in Nat /\ q[2] \in Nat
    BY <2>1
  <2> QED BY <2>1, <2>2 DEF Earlier
<1>2. /\ Adopt(c, said[q]) = said[q] => Follows(said[q], said, P \cup {q})
      /\ Adopt(c, said[q]) # said[q] =>
           \E p \in P : Earlier(p, q) /\ said[p] # 0 /\ said[q] # said[p]
  BY <1>1, SpeaksNext
<1>3. ASSUME Adopt(c, said[q]) # said[q] PROVE ~Agreed(said)
  <2>1. PICK p \in P : Earlier(p, q) /\ said[p] # 0 /\ said[q] # said[p]
    BY <1>2, <1>3, Zenon
  <2>2. p \in DOMAIN said /\ q \in DOMAIN said
    BY Zenon DEF MaySpeak
  <2> QED BY <2>1, <2>2, Unagreed, Zenon
<1> QED BY <1>2, <1>3, Zenon

(* Units that say one thing, after what the program held.                  *)
LEMMA NextUnit ==
  ASSUME NEW said, NEW U, \A m \in U : m \in Nat /\ m >= 1,
         DOMAIN said = ({0} \cup U) \X {1}, NEW n \in Nat, n >= 1
  PROVE  /\ n \in U => MaySpeak(<<n, 1>>, said, Before(said, n, 1))
         /\ n \in U => Before(said, n + 1, 1) = Before(said, n, 1) \cup {<<n, 1>>}
         /\ n \notin U => Before(said, n + 1, 1) = Before(said, n, 1)
         /\ (\A m \in U : m < n) => Before(said, n, 1) = DOMAIN said
         /\ Before(said, 1, 1) = {<<0, 1>>}
<1>1. ASSUME NEW p \in DOMAIN said
      PROVE  \E m \in {0} \cup U : p = <<m, 1>> /\ m \in Nat
  <2> DEFINE V == {0} \cup U
  <2>1. \A m \in V : m \in Nat
    OBVIOUS
  <2> HIDE DEF V
  <2>2. p \in V \X {1}
    BY DEF V
  <2>3. \E m \in V : p = <<m, 1>>
    BY <2>2
  <2> QED BY <2>1, <2>3, Zenon DEF V
<1>2. \A m \in {0} \cup U : <<m, 1>> \in DOMAIN said
  BY Zenon
<1>3. ASSUME NEW m \in Nat, NEW i \in Nat
      PROVE  Earlier(<<m, 1>>, <<i, 1>>) <=> m < i
  BY DEF Earlier
<1>4. DOMAIN said \subseteq Nat \X Nat
  BY <1>1
<1>5. \A i \in Nat : \A p \in DOMAIN said :
        p \in Before(said, i, 1) <=> \E m \in {0} \cup U : p = <<m, 1>> /\ m < i
  <2> SUFFICES ASSUME NEW i \in Nat, NEW p \in DOMAIN said
               PROVE  p \in Before(said, i, 1) <=> \E m \in {0} \cup U : p = <<m, 1>> /\ m < i
    OBVIOUS
  <2>1. PICK m \in {0} \cup U : p = <<m, 1>> /\ m \in Nat
    BY <1>1
  <2>2. p \in Before(said, i, 1) <=> m < i
    BY <1>3, <2>1, Zenon DEF Before
  <2>3. \A l : p = <<l, 1>> => l = m
    BY <2>1
  <2> QED BY <2>1, <2>2, <2>3, Zenon
<1>6. \A i : Before(said, i, 1) \subseteq DOMAIN said
  BY Zenon DEF Before
<1>7. \A p \in Before(said, n, 1) : Earlier(p, <<n, 1>>)
  BY Zenon DEF Before
<1>8. \A m \in {0} \cup U : m \in Nat
  OBVIOUS
<1>9. ASSUME n \in U PROVE Before(said, n + 1, 1) = Before(said, n, 1) \cup {<<n, 1>>}
  <2>1. \A m \in {0} \cup U : m < n + 1 <=> m < n \/ m = n
    BY <1>8
  <2>2. \A p \in DOMAIN said : p \in Before(said, n + 1, 1) <=>
          p \in Before(said, n, 1) \/ p = <<n, 1>>
    BY <1>5, <1>9, <2>1 
  <2>3. <<n, 1>> \in DOMAIN said
    BY <1>2, <1>9, Zenon
  <2> QED BY <1>6, <2>2, <2>3, Zenon
<1>10. ASSUME n \notin U PROVE Before(said, n + 1, 1) = Before(said, n, 1)
  <2>1. \A m \in {0} \cup U : m < n + 1 <=> m < n
    BY <1>8, <1>10
  <2>2. \A p \in DOMAIN said : p \in Before(said, n + 1, 1) <=> p \in Before(said, n, 1)
    BY <1>5, <2>1
  <2> QED BY <1>6, <2>2, Zenon
<1>11. ASSUME \A m \in U : m < n PROVE Before(said, n, 1) = DOMAIN said
  <2>1. \A m \in {0} \cup U : m < n
    BY <1>11
  <2>2. \A p \in DOMAIN said : p \in Before(said, n, 1)
    BY <1>1, <1>5, <2>1, Zenon
  <2> QED BY <1>6, <2>2, Zenon
<1>12. Before(said, 1, 1) = {<<0, 1>>}
  <2>1. \A m \in {0} \cup U : m < 1 <=> m = 0
    BY <1>8
  <2>2. \A p \in DOMAIN said : p \in Before(said, 1, 1) <=> p = <<0, 1>>
    <3>1. 0 \in {0} \cup U /\ 1 \in Nat
      OBVIOUS
    <3> QED BY <1>5, <2>1, <3>1, Zenon
  <2>3. <<0, 1>> \in DOMAIN said
    BY <1>2, Zenon
  <2> QED BY <1>6, <2>2, <2>3, Zenon
<1>13. n \in U => MaySpeak(<<n, 1>>, said, Before(said, n, 1))
  BY <1>2, <1>4, <1>6, <1>7, Zenon DEF MaySpeak
<1> QED BY <1>9, <1>10, <1>11, <1>12, <1>13, Zenon

-----------------------------------------------------------------------------
(* The PATs before unit n leave the program's PID pid.                     *)
PatsTo(pid, n) ==
  /\ \A m \in UnitsOn(0) : m < n => input[m].kind \in {"pat", "short"}
  /\ Follows(pid, ProgramPids, Before(ProgramPids, n, 1))

(* The PMTs before unit n leave the PCR PID pid.                           *)
PmtsTo(pid, n) ==
  /\ \A m \in Tables : m < n => input[m].kind \in {"pmt", "short"}
  /\ Follows(pid, PcrPids, Before(PcrPids, n, 1))

LEMMA PatStep ==
  ASSUME TypeOK, NEW c, NEW n \in 1..Len(input), PatsTo(c, n),
         NEW v, v = IF input[n].kind = "pat" THEN input[n].program ELSE 0
  PROVE  /\ input[n].pid # 0 => PatsTo(c, n + 1)
         /\ input[n].pid = 0 /\ input[n].kind \notin {"pat", "short"} => ~Loadable
         /\ input[n].pid = 0 /\ input[n].kind \in {"pat", "short"} =>
              /\ Adopt(c, v) = v => PatsTo(v, n + 1)
              /\ Adopt(c, v) # v => ~Loadable
<1> DEFINE U == UnitsOn(0)
           B(i) == Before(ProgramPids, i, 1)
           q == <<n, 1>>
<1>1. /\ \A m \in U : m \in Nat /\ m >= 1
      /\ n \in Nat /\ n >= 1
  BY SaidFacts
<1>2. DOMAIN ProgramPids = ({0} \cup U) \X {1}
  BY SaidFacts, Zenon
<1>3. /\ n \in U => MaySpeak(q, ProgramPids, B(n))
      /\ n \in U => B(n + 1) = B(n) \cup {q}
      /\ n \notin U => B(n + 1) = B(n)
  BY <1>1, <1>2, NextUnit, Zenon
<1>4. n \in U <=> input[n].pid = 0
  BY Zenon DEF UnitsOn
<1>5. \A m \in U : m < n + 1 <=> m < n \/ m = n
  BY <1>1
<1>6. ASSUME n \in U PROVE ProgramPids[q] = v
  <2>1. q \in ({0} \cup U) \X {1} /\ q[1] = n /\ n # 0
    BY <1>1, <1>6
  <2> QED BY <1>6, <2>1, Zenon DEF ProgramPids
<1>7. CASE input[n].pid # 0
  <2>1. \A m \in U : m < n + 1 <=> m < n
    BY <1>4, <1>5, <1>7, Zenon
  <2> QED BY <1>3, <1>4, <1>7, <2>1, Zenon DEF PatsTo
<1>8. CASE input[n].pid = 0 /\ input[n].kind \notin {"pat", "short"}
  BY <1>4, <1>8, Zenon DEF Loadable
<1>9. CASE input[n].pid = 0 /\ input[n].kind \in {"pat", "short"}
  <2>1. /\ MaySpeak(q, ProgramPids, B(n)) /\ B(n + 1) = B(n) \cup {q}
        /\ v = ProgramPids[q]
        /\ Follows(c, ProgramPids, B(n))
    BY <1>3, <1>4, <1>6, <1>9, Zenon DEF PatsTo
  <2> HIDE DEF B
  <2>2. /\ Adopt(c, v) = v => Follows(v, ProgramPids, B(n) \cup {q})
        /\ Adopt(c, v) # v => ~Agreed(ProgramPids)
    <3> HIDE DEF q
    <3>1. /\ Adopt(c, ProgramPids[q]) = ProgramPids[q] =>
               Follows(ProgramPids[q], ProgramPids, B(n) \cup {q})
          /\ Adopt(c, ProgramPids[q]) # ProgramPids[q] => ~Agreed(ProgramPids)
      BY <2>1, Speaks, Zenon
    <3> QED BY <2>1, <3>1, Zenon
  <2>3. \A m \in U : m < n + 1 => input[m].kind \in {"pat", "short"}
    BY <1>5, <1>9, Zenon DEF PatsTo
  <2>4. Adopt(c, v) = v => PatsTo(v, n + 1)
    BY <2>1, <2>2, <2>3, Zenon DEF PatsTo, B
  <2>5. Adopt(c, v) # v => ~Loadable
    BY <2>2, Zenon DEF Loadable
  <2> QED BY <1>9, <2>4, <2>5, Zenon
<1> QED BY <1>7, <1>8, <1>9, Zenon

(* All PATs read.                                                          *)
LEMMA PatsRead ==
  ASSUME TypeOK, NEW c, NEW n \in Nat, n > Len(input), PatsTo(c, n)
  PROVE  /\ Agreed(ProgramPids) /\ AgreedOn(ProgramPids) = c
         /\ \A m \in UnitsOn(0) : input[m].kind \in {"pat", "short"}
         /\ Tables = UnitsOn(c)
<1>1. /\ \A m \in UnitsOn(0) : m \in Nat /\ m >= 1 /\ m < n
      /\ n >= 1
  BY SaidFacts
<1>2. DOMAIN ProgramPids = ({0} \cup UnitsOn(0)) \X {1}
  BY SaidFacts, Zenon
<1>3. Before(ProgramPids, n, 1) = DOMAIN ProgramPids
  BY <1>1, <1>2, NextUnit, Zenon
<1>4. Follows(c, ProgramPids, DOMAIN ProgramPids)
  BY <1>3, Zenon DEF PatsTo
<1>5. Agreed(ProgramPids) /\ AgreedOn(ProgramPids) = c
  BY <1>4, FollowsAll, Zenon
<1> QED BY <1>1, <1>5, Zenon DEF PatsTo, Tables

(* What the program held speaks first.                                     *)
LEMMA FirstPat ==
  TypeOK /\ program_pid = before[1] => PatsTo(program_pid, 1)
<1> SUFFICES ASSUME TypeOK, program_pid = before[1] PROVE PatsTo(program_pid, 1)
  OBVIOUS
<1>1. /\ \A m \in UnitsOn(0) : m \in Nat /\ m >= 1 /\ ~(m < 1)
      /\ 1 \in Nat /\ 1 >= 1
  BY SaidFacts
<1>2. DOMAIN ProgramPids = ({0} \cup UnitsOn(0)) \X {1}
  BY SaidFacts, Zenon
<1>3. Before(ProgramPids, 1, 1) = {<<0, 1>>}
  BY <1>1, <1>2, NextUnit, Zenon
<1>4. ProgramPids[<<0, 1>>] = before[1]
  <2>1. <<0, 1>> \in ({0} \cup UnitsOn(0)) \X {1} /\ <<0, 1>>[1] = 0
    OBVIOUS
  <2> QED BY <2>1, Zenon DEF ProgramPids
<1> QED BY <1>1, <1>3, <1>4, FollowsOne, Zenon DEF PatsTo

LEMMA FirstPmt ==
  ASSUME TypeOK, pcr_pid = before[2]
  PROVE  PmtsTo(pcr_pid, 1)
<1>1. /\ \A m \in Tables : m \in Nat /\ m >= 1 /\ ~(m < 1)
      /\ 1 \in Nat /\ 1 >= 1
  BY SaidFacts DEF Tables
<1>2. DOMAIN PcrPids = ({0} \cup Tables) \X {1}
  BY SaidFacts, Zenon
<1>3. Before(PcrPids, 1, 1) = {<<0, 1>>}
  BY <1>1, <1>2, NextUnit, Zenon
<1>4. PcrPids[<<0, 1>>] = before[2]
  <2>1. <<0, 1>> \in ({0} \cup Tables) \X {1} /\ <<0, 1>>[1] = 0
    OBVIOUS
  <2> QED BY <2>1, Zenon DEF PcrPids
<1> QED BY <1>1, <1>3, <1>4, FollowsOne, Zenon DEF PmtsTo

LEMMA PmtStep ==
  ASSUME TypeOK, NEW c, NEW n \in 1..Len(input), PmtsTo(c, n),
         NEW v, v = IF input[n].kind = "pmt" THEN input[n].pcr ELSE 0
  PROVE  /\ n \notin Tables => PmtsTo(c, n + 1)
         /\ n \in Tables /\ input[n].kind \notin {"pmt", "short"} => ~Loadable
         /\ n \in Tables /\ input[n].kind \in {"pmt", "short"} =>
              /\ Adopt(c, v) = v => PmtsTo(v, n + 1)
              /\ Adopt(c, v) # v => ~Loadable
<1> DEFINE U == Tables
           B(i) == Before(PcrPids, i, 1)
           q == <<n, 1>>
<1>1. /\ \A m \in U : m \in Nat /\ m >= 1
      /\ n \in Nat /\ n >= 1
  BY SaidFacts DEF Tables
<1>2. DOMAIN PcrPids = ({0} \cup U) \X {1}
  BY SaidFacts, Zenon
<1>3. /\ n \in U => MaySpeak(q, PcrPids, B(n))
      /\ n \in U => B(n + 1) = B(n) \cup {q}
      /\ n \notin U => B(n + 1) = B(n)
  BY <1>1, <1>2, NextUnit, Zenon
<1>4. \A m \in U : m < n + 1 <=> m < n \/ m = n
  BY <1>1
<1>5. ASSUME n \in U PROVE PcrPids[q] = v
  <2>1. q \in ({0} \cup U) \X {1} /\ q[1] = n /\ n # 0
    BY <1>1, <1>5
  <2> QED BY <1>5, <2>1, Zenon DEF PcrPids
<1>6. CASE n \notin Tables
  <2>1. \A m \in U : m < n + 1 <=> m < n
    BY <1>4, <1>6, Zenon
  <2> QED BY <1>3, <1>6, <2>1, Zenon DEF PmtsTo
<1>7. CASE n \in Tables /\ input[n].kind \notin {"pmt", "short"}
  BY <1>7, Zenon DEF Loadable
<1>8. CASE n \in Tables /\ input[n].kind \in {"pmt", "short"}
  <2>1. /\ MaySpeak(q, PcrPids, B(n)) /\ B(n + 1) = B(n) \cup {q}
        /\ v = PcrPids[q]
        /\ Follows(c, PcrPids, B(n))
    BY <1>3, <1>5, <1>8, Zenon DEF PmtsTo
  <2> HIDE DEF B
  <2>2. /\ Adopt(c, v) = v => Follows(v, PcrPids, B(n) \cup {q})
        /\ Adopt(c, v) # v => ~Agreed(PcrPids)
    <3> HIDE DEF q
    <3>1. /\ Adopt(c, PcrPids[q]) = PcrPids[q] =>
               Follows(PcrPids[q], PcrPids, B(n) \cup {q})
          /\ Adopt(c, PcrPids[q]) # PcrPids[q] => ~Agreed(PcrPids)
      BY <2>1, Speaks, Zenon
    <3> QED BY <2>1, <3>1, Zenon
  <2>3. \A m \in U : m < n + 1 => input[m].kind \in {"pmt", "short"}
    BY <1>4, <1>8, Zenon DEF PmtsTo
  <2>4. Adopt(c, v) = v => PmtsTo(v, n + 1)
    BY <2>1, <2>2, <2>3, Zenon DEF PmtsTo, B
  <2>5. Adopt(c, v) # v => ~Loadable
    BY <2>2, Zenon DEF Loadable
  <2> QED BY <1>8, <2>4, <2>5, Zenon
<1> QED BY <1>6, <1>7, <1>8, Zenon

LEMMA PmtsRead ==
  ASSUME TypeOK, NEW c, NEW n \in Nat, n > Len(input), PmtsTo(c, n)
  PROVE  /\ Agreed(PcrPids) /\ AgreedOn(PcrPids) = c
         /\ \A m \in Tables : input[m].kind \in {"pmt", "short"}
<1>1. /\ \A m \in Tables : m \in Nat /\ m >= 1 /\ m < n
      /\ n >= 1
  BY SaidFacts DEF Tables
<1>2. DOMAIN PcrPids = ({0} \cup Tables) \X {1}
  BY SaidFacts, Zenon
<1>3. Before(PcrPids, n, 1) = DOMAIN PcrPids
  BY <1>1, <1>2, NextUnit, Zenon
<1>4. Follows(c, PcrPids, DOMAIN PcrPids)
  BY <1>3, Zenon DEF PmtsTo
<1>5. Agreed(PcrPids) /\ AgreedOn(PcrPids) = c
  BY <1>4, FollowsAll, Zenon
<1> QED BY <1>1, <1>5, Zenon DEF PmtsTo

-----------------------------------------------------------------------------
(* The streams held and the entries of the tables before the k-th of unit  *)
(* n.                                                                      *)
Spoken(n, k) == {p \in Held \cup Entries : Earlier(p, <<n, k>>)}

(* The streams that the entries P leave.                                   *)
RowsTo(rows, P) ==
  /\ Len(before[3]) <= Len(rows)
  /\ \A s \in 1..Len(before[3]) : rows[s].pid = before[3][s].pid
  /\ \A s \in 1..Len(rows) : \E p \in P : Row(p).pid = rows[s].pid
  /\ \A p \in P : \E s \in 1..Len(rows) : rows[s].pid = Row(p).pid
  /\ \A r, s \in 1..Len(rows) :
       r < s => \E p \in Rows(rows[r].pid) :
                  \A q \in Rows(rows[s].pid) : Earlier(p, q)
  /\ \A s \in 1..Len(rows) :
       LET x == rows[s]
       IN /\ Follows(x.type, Types(x.pid), P \cap Rows(x.pid))
          /\ Follows(x.descriptor, Descriptors(x.pid), P \cap Rows(x.pid))

LEMMA SpokenFacts ==
  ASSUME TypeOK, NEW n \in Nat, NEW k \in Nat, n >= 1, k >= 1
  PROVE  /\ <<n, k>> \in Entries => Spoken(n, k + 1) = Spoken(n, k) \cup {<<n, k>>}
         /\ (\A j \in Nat : j >= k => <<n, j>> \notin Entries) =>
              Spoken(n + 1, 1) = Spoken(n, k)
         /\ Spoken(1, 1) = Held
         /\ n > Len(input) => Spoken(n, 1) = Held \cup Entries
<1>1. \A p \in Held \cup Entries : p \in Nat \X Nat /\ p[2] >= 1
  BY EntryFacts, Zenon
<1>2. \A p \in Held \cup Entries :
        /\ Earlier(p, <<n, k + 1>>) <=> Earlier(p, <<n, k>>) \/ p = <<n, k>>
        /\ Earlier(p, <<n, k>>) <=> p[1] < n \/ (p[1] = n /\ p[2] < k)
        /\ p[1] \in Nat /\ p[2] \in Nat /\ p = <<p[1], p[2]>>
  BY <1>1, PlaceFacts, Zenon
<1>3. ASSUME <<n, k>> \in Entries
      PROVE  Spoken(n, k + 1) = Spoken(n, k) \cup {<<n, k>>}
  BY <1>2, <1>3, Zenon DEF Spoken
<1>4. ASSUME \A j \in Nat : j >= k => <<n, j>> \notin Entries
      PROVE  Spoken(n + 1, 1) = Spoken(n, k)
  <2>1. ASSUME NEW p \in Held \cup Entries
        PROVE  Earlier(p, <<n + 1, 1>>) <=> Earlier(p, <<n, k>>)
    <3>1. p[1] \in Nat /\ p[2] \in Nat /\ p[2] >= 1 /\ p = <<p[1], p[2]>>
      BY <1>1, <1>2, Zenon
    <3>2. Earlier(p, <<n, k>>) <=> p[1] < n \/ (p[1] = n /\ p[2] < k)
      BY <1>2, Zenon
    <3>3. Earlier(p, <<n + 1, 1>>) <=> p[1] < n + 1 \/ (p[1] = n + 1 /\ p[2] < 1)
      BY DEF Earlier
    <3>4. ~(p[1] = n /\ p[2] >= k)
      <4> SUFFICES ASSUME p[1] = n, p[2] >= k PROVE FALSE
        OBVIOUS
      <4>1. p \in Entries
        <5>1. p \in Held => p[1] = 0
          BY EntryFacts, Zenon
        <5>2. n # 0
          OBVIOUS
        <5> QED BY <5>1, <5>2
      <4>2. <<n, p[2]>> \in Entries
        BY <3>1, <4>1
      <4> QED BY <1>4, <3>1, <4>2
    <3> QED BY <3>1, <3>2, <3>3, <3>4
  <2> QED BY <2>1, Zenon DEF Spoken
<1>5. Spoken(1, 1) = Held
  <2>1. ASSUME NEW p \in Held PROVE Earlier(p, <<1, 1>>)
    <3>1. p[1] = 0
      BY EntryFacts, Zenon
    <3> QED BY <3>1 DEF Earlier
  <2>2. ASSUME NEW p \in Entries PROVE ~Earlier(p, <<1, 1>>)
    <3>1. p[1] \in 1..Len(input) /\ p \in Nat \X Nat /\ p[2] >= 1
      BY EntryFacts, Zenon
    <3>2. p[1] \in Nat /\ p[2] \in Nat /\ p[1] >= 1
      BY <3>1
    <3> QED BY <3>1, <3>2 DEF Earlier
  <2> QED BY <2>1, <2>2, Zenon DEF Spoken
<1>6. ASSUME n > Len(input) PROVE Spoken(n, 1) = Held \cup Entries
  <2>1. ASSUME NEW p \in Held \cup Entries PROVE Earlier(p, <<n, 1>>)
    <3>1. p[1] = 0 \/ p[1] \in 1..Len(input)
      BY EntryFacts, Zenon
    <3>2. p[1] < n
      BY <1>6, <3>1, SaidFacts
    <3> QED BY <3>2 DEF Earlier
  <2> QED BY <2>1, Zenon DEF Spoken
<1> QED BY <1>3, <1>4, <1>5, <1>6, Zenon

(* All entries read.                                                       *)
LEMMA RowsRead ==
  ASSUME TypeOK, NEW rows, RowsTo(rows, Held \cup Entries)
  PROVE  /\ \A s \in 1..Len(rows) :
              /\ rows[s].type = AgreedOn(Types(rows[s].pid))
              /\ rows[s].descriptor = AgreedOn(Descriptors(rows[s].pid))
         /\ \A p \in Entries :
              Agreed(Types(Row(p).pid)) /\ Agreed(Descriptors(Row(p).pid))
<1>1. ASSUME NEW s \in 1..Len(rows)
      PROVE  LET pid == rows[s].pid
             IN /\ rows[s].type = AgreedOn(Types(pid)) /\ Agreed(Types(pid))
                /\ rows[s].descriptor = AgreedOn(Descriptors(pid))
                /\ Agreed(Descriptors(pid))
  <2> DEFINE pid == rows[s].pid
  <2>1. (Held \cup Entries) \cap Rows(pid) = Rows(pid)
    BY Zenon DEF Rows
  <2>2. DOMAIN Types(pid) = Rows(pid) /\ DOMAIN Descriptors(pid) = Rows(pid)
    BY SaidFacts, Zenon
  <2>3. /\ Follows(rows[s].type, Types(pid), Rows(pid))
        /\ Follows(rows[s].descriptor, Descriptors(pid), Rows(pid))
    BY <2>1, Zenon DEF RowsTo
  <2> HIDE DEF pid
  <2>4. /\ Follows(rows[s].type, Types(pid), DOMAIN Types(pid))
        /\ Follows(rows[s].descriptor, Descriptors(pid), DOMAIN Descriptors(pid))
    BY <2>2, <2>3, Zenon
  <2>5. /\ rows[s].type = AgreedOn(Types(pid)) /\ Agreed(Types(pid))
        /\ rows[s].descriptor = AgreedOn(Descriptors(pid))
        /\ Agreed(Descriptors(pid))
    BY <2>4, FollowsAll, Zenon
  <2> QED BY <2>5, Zenon DEF pid
<1>2. ASSUME NEW p \in Entries
      PROVE  Agreed(Types(Row(p).pid)) /\ Agreed(Descriptors(Row(p).pid))
  <2>1. PICK s \in 1..Len(rows) : rows[s].pid = Row(p).pid
    BY Zenon DEF RowsTo
  <2> QED BY <1>1, <2>1, Zenon
<1> QED BY <1>1, <1>2, Zenon

(* Before the first entry the program has the streams it held.             *)
LEMMA FirstRows ==
  ASSUME TypeOK, OneStreamPerPid, streams = before[3]
  PROVE  RowsTo(streams, Held)
<1> DEFINE n == Len(streams)
           place(s) == <<0, s>>
<1>1. /\ \A s \in 1..n : place(s) \in Held /\ Row(place(s)) = streams[s]
      /\ \A p \in Held : \E s \in 1..n : p = place(s)
  <2>1. \A s \in 1..n : place(s) \in Held
    BY EntryFacts, Zenon
  <2>2. \A s \in 1..n : Row(place(s)) = streams[s]
    BY DEF Row
  <2>3. \A p \in Held : \E s \in 1..n : p = place(s)
    <3> DEFINE S == 1..n
    <3>1. Held = {0} \X S
      BY Zenon DEF Held
    <3> HIDE DEF S
    <3>2. \A p \in {0} \X S : \E s \in S : p = <<0, s>>
      OBVIOUS
    <3> QED BY <3>1, <3>2, Zenon DEF S
  <2> QED BY <2>1, <2>2, <2>3, Zenon
<1>2. \A r, s \in 1..n : r < s => Earlier(place(r), place(s))
  BY DEF Earlier
<1>3. \A s \in 1..n : \A p \in Entries : Earlier(place(s), p)
  <2> SUFFICES ASSUME NEW s \in 1..n, NEW p \in Entries PROVE Earlier(place(s), p)
    OBVIOUS
  <2>1. p[1] \in 1..Len(input)
    BY EntryFacts, Zenon
  <2>2. 0 < p[1]
    BY <2>1
  <2> QED BY <2>2 DEF Earlier
<1> HIDE DEF place
<1>4. \A s \in 1..n : place(s) \in Rows(streams[s].pid)
  BY <1>1, Zenon DEF Rows
<1>5. ASSUME NEW s \in 1..n
      PROVE  Held \cap Rows(streams[s].pid) = {place(s)}
  <2>1. ASSUME NEW p \in Held, p \in Rows(streams[s].pid) PROVE p = place(s)
    <3>1. PICK r \in 1..n : p = place(r)
      BY <1>1, Zenon
    <3>2. Row(p) = streams[r]
      BY <1>1, <3>1, Zenon
    <3>3. Row(p).pid = streams[s].pid
      BY <2>1, Zenon DEF Rows
    <3>4. r = s
      BY <3>2, <3>3, Zenon DEF OneStreamPerPid
    <3> QED BY <3>1, <3>4, Zenon
  <2> QED BY <1>1, <1>4, <2>1, Zenon
<1>6. ASSUME NEW r \in 1..n, NEW s \in 1..n, r < s
      PROVE  \A q \in Rows(streams[s].pid) : Earlier(place(r), q)
  <2> SUFFICES ASSUME NEW q \in Rows(streams[s].pid) PROVE Earlier(place(r), q)
    OBVIOUS
  <2>1. CASE q \in Held
    <3>1. q = place(s)
      BY <1>5, <2>1, Zenon
    <3> QED BY <1>2, <1>6, <3>1, Zenon
  <2>2. CASE q \in Entries
    BY <1>3, <2>2, Zenon
  <2> QED BY <2>1, <2>2, Zenon DEF Rows
<1>7. ASSUME NEW s \in 1..n
      PROVE  LET x == streams[s]
             IN /\ Follows(x.type, Types(x.pid), Held \cap Rows(x.pid))
                /\ Follows(x.descriptor, Descriptors(x.pid), Held \cap Rows(x.pid))
  <2> DEFINE pid == streams[s].pid
  <2>1. /\ Types(pid)[place(s)] = streams[s].type
        /\ Descriptors(pid)[place(s)] = streams[s].descriptor
    <3>1. place(s) \in Rows(pid) /\ Row(place(s)) = streams[s]
      BY <1>1, <1>4, Zenon
    <3> HIDE DEF pid
    <3>2. /\ Types(pid)[place(s)] = Row(place(s)).type
          /\ Descriptors(pid)[place(s)] = Row(place(s)).descriptor
      BY <3>1, SaidFacts, Zenon
    <3> QED BY <3>1, <3>2
  <2> HIDE DEF pid
  <2>2. /\ Follows(Types(pid)[place(s)], Types(pid), {place(s)})
        /\ Follows(Descriptors(pid)[place(s)], Descriptors(pid), {place(s)})
    BY FollowsOne, Zenon
  <2> QED BY <1>5, <2>1, <2>2, Zenon DEF pid
<1>8. Len(before[3]) <= n
  BY SaidFacts
<1> QED BY <1>1, <1>4, <1>6, <1>7, <1>8, Zenon DEF RowsTo

(* P are the places before the entry q.                                    *)
ComesAfter(q, P) ==
  /\ P \subseteq Held \cup Entries /\ q \in Entries
  /\ \A p \in Held \cup Entries : p \in P <=> Earlier(p, q)

(* ts_stream_create: the row an entry finds or creates.                    *)
CreatedFits(e, P) ==
  /\ Created(e)[At(e)].pid = e.pid
  /\ \A s \in 1..Len(Created(e)) : s # At(e) => s \in 1..Len(streams)
  /\ Follows(Created(e)[At(e)].type, Types(e.pid), P \cap Rows(e.pid))
  /\ Follows(Created(e)[At(e)].descriptor, Descriptors(e.pid), P \cap Rows(e.pid))
  /\ \A r, s \in 1..Len(Created(e)) :
       r < s => \E p \in Rows(Created(e)[r].pid) :
                  \A o \in Rows(Created(e)[s].pid) : Earlier(p, o)

LEMMA CreatedRows ==
  ASSUME Inv, NEW P, RowsTo(streams, P), NEW q, ComesAfter(q, P),
         NEW e \in EntryType, Row(q) = e
  PROVE  CreatedFits(e, P)
<1>1. streams \in Seq(StreamType) /\ Len(streams) \in Nat
  BY LenProperties DEF Inv, TypeInv, TypeOK
<1> USE DEF ComesAfter, CreatedFits
<1>2. CASE e.pid \in Pids
  <2>1. Created(e) = streams /\ At(e) = Lookup(e.pid)
    BY <1>2, Zenon DEF Created, At
  <2>2. At(e) \in 1..Len(streams) /\ streams[At(e)].pid = e.pid
    BY <1>2, <2>1, LookupFacts, Zenon
  <2>3. LET x == streams[At(e)]
        IN /\ Follows(x.type, Types(e.pid), P \cap Rows(e.pid))
           /\ Follows(x.descriptor, Descriptors(e.pid), P \cap Rows(e.pid))
    BY <2>2, Zenon DEF RowsTo
  <2>4. \A r, s \in 1..Len(streams) :
          r < s => \E p \in Rows(streams[r].pid) :
                     \A o \in Rows(streams[s].pid) : Earlier(p, o)
    BY Zenon DEF RowsTo
  <2> QED BY <2>1, <2>2, <2>3, <2>4
<1>3. CASE e.pid \notin Pids
  <2> DEFINE new == NewStream(e.pid, 0, 0)
             m == Len(streams)
             c == Created(e)
  <2>1. /\ new \in StreamType
        /\ new.pid = e.pid /\ new.type = 0 /\ new.descriptor = 0
    BY DEF NewStream, StreamType, EntryType
  <2>2. c = Append(streams, new) /\ At(e) = m + 1
    BY <1>3, Zenon DEF Created, At
  <2> HIDE DEF new
  <2>3. /\ Len(c) = m + 1 /\ c[m + 1] = new
        /\ \A s \in 1..m : c[s] = streams[s]
    BY <1>1, <2>1, <2>2, AppendProperties
  <2>4. \A p \in P : Row(p).pid # e.pid
    <3> SUFFICES ASSUME NEW p \in P, Row(p).pid = e.pid PROVE FALSE
      OBVIOUS
    <3>1. PICK s \in 1..m : streams[s].pid = Row(p).pid
      BY Zenon DEF RowsTo
    <3>2. e.pid \in Pids
      BY <3>1, Zenon DEF Pids
    <3> QED BY <1>3, <3>2
  <2>5. P \cap Rows(e.pid) = {}
    BY <2>4, Zenon DEF Rows
  <2>6. /\ Follows(0, Types(e.pid), P \cap Rows(e.pid))
        /\ Follows(0, Descriptors(e.pid), P \cap Rows(e.pid))
    BY <2>5, FollowsNothing, Zenon
  <2>7. \A s \in 1..Len(c) : s = m + 1 \/ s \in 1..m
    BY <1>1, <2>3
  <2>8. ASSUME NEW r \in 1..Len(c), NEW s \in 1..Len(c), r < s
        PROVE  \E p \in Rows(c[r].pid) : \A o \in Rows(c[s].pid) : Earlier(p, o)
    <3>1. r \in 1..m
      BY <1>1, <2>3, <2>8
    <3>2. CASE s \in 1..m
      BY <2>3, <2>8, <3>1, <3>2, Zenon DEF RowsTo
    <3>3. CASE s = m + 1
      <4>1. PICK p \in P : Row(p).pid = streams[r].pid
        BY <3>1, Zenon DEF RowsTo
      <4>2. p \in Rows(c[r].pid)
        BY <2>3, <3>1, <4>1, Zenon DEF Rows
      <4>3. ASSUME NEW o \in Rows(c[s].pid) PROVE Earlier(p, o)
        <5>1. o \in Held \cup Entries /\ Row(o).pid = e.pid
          BY <2>1, <2>3, <3>3, Zenon DEF Rows
        <5>2. o \notin P
          BY <2>4, <5>1, Zenon
        <5>3. Earlier(p, q) /\ ~Earlier(o, q)
          BY <5>1, <5>2, Zenon
        <5>4. p \in Nat \X Nat /\ o \in Nat \X Nat /\ q \in Nat \X Nat
          <6>1. p \in Held \cup Entries /\ q \in Held \cup Entries /\ TypeOK
            BY Zenon DEF Inv, TypeInv
          <6> QED BY <5>1, <6>1, EntryFacts, Zenon
        <5>5. /\ p[1] \in Nat /\ p[2] \in Nat /\ o[1] \in Nat /\ o[2] \in Nat
              /\ q[1] \in Nat /\ q[2] \in Nat
          BY <5>4
        <5> QED BY <5>3, <5>5 DEF Earlier
      <4> QED BY <4>2, <4>3, Zenon
    <3> QED BY <2>7, <3>2, <3>3, Zenon
  <2> QED BY <2>1, <2>2, <2>3, <2>6, <2>7, <2>8, Zenon
<1> QED BY <1>2, <1>3, Zenon

LEMMA RowTyped ==
  ASSUME NEW x \in StreamType, NEW t \in Nat, NEW d \in Nat
  PROVE  [x EXCEPT !.type = t, !.descriptor = d] \in StreamType
BY DEF StreamType

Replaced(rows, c, i, row) == rows = [c EXCEPT ![i] = row]

LEMMA RowReplaced ==
  ASSUME NEW c \in Seq(StreamType), NEW i \in 1..Len(c), NEW row \in StreamType,
         NEW rows, Replaced(rows, c, i, row)
  PROVE  /\ Len(rows) = Len(c)
         /\ \A s \in 1..Len(c) : rows[s] = IF s = i THEN row ELSE c[s]
BY ExceptSeq DEF Replaced

(* What reading the entry e at q makes of the stream x it finds or creates. *)
EntryRead(q, e, x, type, descriptor, rows) ==
  /\ q \in Entries /\ e \in EntryType /\ e = Row(q)
  /\ x = Created(e)[At(e)]
  /\ type = Adopt(x.type, e.type)
  /\ descriptor = IF type = e.type THEN Adopt(x.descriptor, e.descriptor)
                                   ELSE x.descriptor
  /\ Replaced(rows, Created(e), At(e),
              [x EXCEPT !.type = type, !.descriptor = descriptor])

LEMMA EntryStep ==
  ASSUME Inv, NEW n, NEW k, NEW e, NEW x, NEW type, NEW descriptor, NEW rows,
         EntryRead(<<n, k>>, e, x, type, descriptor, rows),
         n \in Nat /\ k \in Nat /\ n >= 1 /\ k >= 1,
         RowsTo(streams, Spoken(n, k))
  PROVE  /\ type = e.type /\ descriptor = e.descriptor =>
              RowsTo(rows, Spoken(n, k + 1))
         /\ type # e.type \/ descriptor # e.descriptor => ~Loadable
<1> DEFINE q == <<n, k>>
           P == Spoken(n, k)
           c == Created(e)
           i == At(e)
           row == [x EXCEPT !.type = type, !.descriptor = descriptor]
           T == Types(e.pid)
           D == Descriptors(e.pid)
<1>0. /\ q \in Entries /\ e \in EntryType /\ e = Row(q)
      /\ x = Created(e)[At(e)]
      /\ type = Adopt(x.type, e.type)
      /\ descriptor = IF type = e.type THEN Adopt(x.descriptor, e.descriptor)
                                       ELSE x.descriptor
      /\ Replaced(rows, Created(e), At(e), row)
  BY Zenon DEF EntryRead
<1> USE <1>0
<1>1. /\ TypeOK /\ Len(before[3]) \in Nat
      /\ P \subseteq Held \cup Entries /\ q \in Entries /\ Row(q) = e
      /\ \A p \in Held \cup Entries : p \in P <=> Earlier(p, q)
  BY SaidFacts, Zenon DEF Inv, TypeInv, Spoken
<1>2. Spoken(n, k + 1) = P \cup {q}
  BY <1>1, SpokenFacts, Zenon
<1>3. q \in Rows(e.pid) /\ T[q] = e.type /\ D[q] = e.descriptor
  <2>1. q \in Rows(e.pid)
    BY <1>1, Zenon DEF Rows
  <2>2. T[q] = Row(q).type /\ D[q] = Row(q).descriptor
    BY <1>1, <2>1, SaidFacts, Zenon
  <2> QED BY <1>1, <2>1, <2>2
<1> HIDE DEF q, P, T, D
<1>4. /\ c[i].pid = e.pid
      /\ \A s \in 1..Len(c) : s # i => s \in 1..Len(streams)
      /\ Follows(c[i].type, T, P \cap Rows(e.pid))
      /\ Follows(c[i].descriptor, D, P \cap Rows(e.pid))
      /\ \A r, s \in 1..Len(c) :
           r < s => \E p \in Rows(c[r].pid) : \A o \in Rows(c[s].pid) : Earlier(p, o)
  <2>1. RowsTo(streams, P) /\ ComesAfter(q, P) /\ Row(q) = e /\ e \in EntryType
    BY <1>1, Zenon DEF P, ComesAfter
  <2>2. CreatedFits(e, P)
    BY <2>1, CreatedRows, Zenon
  <2> QED BY <2>2, Zenon DEF CreatedFits, T, D
<1>5. /\ c \in Seq(StreamType) /\ i \in 1..Len(c)
      /\ Len(streams) \in Nat /\ Len(c) \in Nat /\ Len(streams) <= Len(c)
      /\ \A s \in 1..Len(streams) : c[s] = streams[s]
      /\ \A r, s \in 1..Len(c) : c[r].pid = c[s].pid => r = s
  BY CreatedFacts, Zenon
<1>6. x \in StreamType
  BY <1>5, ElementOfSeq
<1>7. /\ row.pid = x.pid /\ row.type = type /\ row.descriptor = descriptor
  BY <1>6 DEF StreamType
<1> HIDE DEF c, i, row
<1>8. /\ Len(rows) = Len(c)
      /\ \A s \in 1..Len(c) : rows[s] = IF s = i THEN row ELSE c[s]
  <2>1. type \in Nat /\ descriptor \in Nat
    BY <1>6 DEF StreamType, EntryType, Adopt
  <2>2. row \in StreamType
    BY <1>6, <2>1, RowTyped, Zenon DEF row
  <2>3. Replaced(rows, c, i, row)
    BY Zenon DEF c, i, row
  <2>4. c \in Seq(StreamType) /\ i \in 1..Len(c)
    BY <1>5, Zenon
  <2> QED BY <2>2, <2>3, <2>4, RowReplaced
<1>9. \A s \in 1..Len(c) : rows[s].pid = c[s].pid
  BY <1>7, <1>8 DEF c, i
<1>10. MaySpeak(q, T, P \cap Rows(e.pid)) /\ MaySpeak(q, D, P \cap Rows(e.pid))
  <2>1. DOMAIN T = Rows(e.pid) /\ DOMAIN D = Rows(e.pid)
    BY <1>1, SaidFacts, Zenon DEF T, D
  <2>2. Rows(e.pid) \subseteq Nat \X Nat
    BY <1>1, EntryFacts, Zenon DEF Rows
  <2> QED BY <1>1, <1>3, <2>1, <2>2, Zenon DEF MaySpeak
<1>11. /\ Adopt(x.type, e.type) = e.type =>
             Follows(e.type, T, (P \cap Rows(e.pid)) \cup {q})
       /\ Adopt(x.type, e.type) # e.type => ~Agreed(T)
       /\ Adopt(x.descriptor, e.descriptor) = e.descriptor =>
             Follows(e.descriptor, D, (P \cap Rows(e.pid)) \cup {q})
       /\ Adopt(x.descriptor, e.descriptor) # e.descriptor => ~Agreed(D)
  <2>1. /\ Follows(x.type, T, P \cap Rows(e.pid))
        /\ Follows(x.descriptor, D, P \cap Rows(e.pid))
    BY <1>4 DEF c, i
  <2>2. /\ Adopt(x.type, T[q]) = T[q] => Follows(T[q], T, (P \cap Rows(e.pid)) \cup {q})
        /\ Adopt(x.type, T[q]) # T[q] => ~Agreed(T)
    BY <1>10, <2>1, Speaks, Zenon
  <2>3. /\ Adopt(x.descriptor, D[q]) = D[q] =>
              Follows(D[q], D, (P \cap Rows(e.pid)) \cup {q})
        /\ Adopt(x.descriptor, D[q]) # D[q] => ~Agreed(D)
    BY <1>10, <2>1, Speaks, Zenon
  <2> QED BY <1>3, <2>2, <2>3
<1>12. ASSUME type # e.type \/ descriptor # e.descriptor
       PROVE  ~Loadable
  <2>1. ~Agreed(T) \/ ~Agreed(D)
    BY <1>11, <1>12
  <2>2. ~Agreed(Types(Row(q).pid)) \/ ~Agreed(Descriptors(Row(q).pid))
    BY <1>1, <2>1, Zenon DEF T, D
  <2> QED BY <1>1, <2>2, Zenon DEF Loadable
<1>13. ASSUME type = e.type, descriptor = e.descriptor
       PROVE  RowsTo(rows, P \cup {q})
  <2>1. /\ Len(before[3]) <= Len(streams)
        /\ \A s \in 1..Len(before[3]) : streams[s].pid = before[3][s].pid
        /\ \A s \in 1..Len(streams) : \E p \in P : Row(p).pid = streams[s].pid
        /\ \A p \in P : \E s \in 1..Len(streams) : streams[s].pid = Row(p).pid
    BY Zenon DEF RowsTo, P
  <2>2. \A s \in 1..Len(streams) : s \in 1..Len(rows) /\ rows[s].pid = streams[s].pid
    <3>1. \A s \in 1..Len(streams) : s \in 1..Len(c)
      BY <1>5
    <3>2. \A s \in 1..Len(streams) : rows[s].pid = c[s].pid /\ c[s] = streams[s]
      BY <1>5, <1>9, <3>1, Zenon
    <3> QED BY <1>8, <3>1, <3>2
  <2>3. /\ Len(before[3]) <= Len(rows)
        /\ \A s \in 1..Len(before[3]) : rows[s].pid = before[3][s].pid
    <3> DEFINE m == Len(before[3])
    <3>1. /\ m \in Nat /\ m <= Len(streams)
          /\ \A s \in 1..m : streams[s].pid = before[3][s].pid
      BY <1>1, <2>1, Zenon
    <3> HIDE DEF m
    <3>2. m <= Len(rows) /\ \A s \in 1..m : s \in 1..Len(streams)
      BY <1>5, <1>8, <3>1
    <3> QED BY <2>2, <3>1, <3>2, Zenon DEF m
  <2>4. /\ i \in 1..Len(rows) /\ rows[i].pid = e.pid
        /\ \A s \in 1..Len(rows) : s # i => s \in 1..Len(streams)
    BY <1>4, <1>5, <1>8, <1>9
  <2>5. \A s \in 1..Len(rows) : \E p \in P \cup {q} : Row(p).pid = rows[s].pid
    <3> SUFFICES ASSUME NEW s \in 1..Len(rows)
                 PROVE  \E p \in P \cup {q} : Row(p).pid = rows[s].pid
      OBVIOUS
    <3>1. CASE s = i
      <4>1. Row(q).pid = rows[s].pid
        BY <1>1, <2>4, <3>1
      <4> QED BY <4>1, Zenon
    <3>2. CASE s # i
      <4>1. s \in 1..Len(streams) /\ rows[s].pid = streams[s].pid
        BY <2>2, <2>4, <3>2
      <4>2. PICK p \in P : Row(p).pid = streams[s].pid
        BY <2>1, <4>1
      <4> QED BY <4>1, <4>2
    <3> QED BY <3>1, <3>2
  <2>6. \A p \in P \cup {q} : \E s \in 1..Len(rows) : rows[s].pid = Row(p).pid
    <3>1. rows[i].pid = Row(q).pid
      BY <1>1, <2>4
    <3>2. \A p \in P : \E s \in 1..Len(rows) : rows[s].pid = Row(p).pid
      BY <2>1, <2>2
    <3> QED BY <2>4, <3>1, <3>2, Zenon
  <2>7. ASSUME NEW r \in 1..Len(rows), NEW s \in 1..Len(rows), r < s
        PROVE  \E p \in Rows(rows[r].pid) : \A o \in Rows(rows[s].pid) : Earlier(p, o)
    <3>1. \E p \in Rows(c[r].pid) : \A o \in Rows(c[s].pid) : Earlier(p, o)
      BY <1>4, <1>8, <2>7, Zenon
    <3>2. rows[r].pid = c[r].pid /\ rows[s].pid = c[s].pid
      BY <1>8, <1>9
    <3> QED BY <3>1, <3>2
  <2>8. ASSUME NEW s \in 1..Len(rows)
        PROVE  LET y == rows[s]
                   Q == (P \cup {q}) \cap Rows(y.pid)
               IN /\ Follows(y.type, Types(y.pid), Q)
                  /\ Follows(y.descriptor, Descriptors(y.pid), Q)
    <3> DEFINE y == rows[s]
    <3>1. CASE s = i
      <4>1. y.pid = e.pid /\ y.type = e.type /\ y.descriptor = e.descriptor
        BY <1>7, <1>8, <1>13, <2>4, <3>1
      <4>2. (P \cup {q}) \cap Rows(e.pid) = (P \cap Rows(e.pid)) \cup {q}
        BY <1>3, Zenon
      <4>3. /\ Follows(e.type, T, (P \cap Rows(e.pid)) \cup {q})
            /\ Follows(e.descriptor, D, (P \cap Rows(e.pid)) \cup {q})
        BY <1>11, <1>13
      <4> HIDE DEF y
      <4>4. LET Q == (P \cup {q}) \cap Rows(y.pid)
            IN Follows(y.type, Types(y.pid), Q) /\ Follows(y.descriptor, Descriptors(y.pid), Q)
        BY <4>1, <4>2, <4>3 DEF T, D
      <4> QED BY <4>4 DEF y
    <3>2. CASE s # i
      <4>1. s \in 1..Len(streams) /\ y = streams[s] /\ y.pid # e.pid
        BY <1>4, <1>5, <1>8, <2>4, <3>2
      <4> HIDE DEF y
      <4>2. q \notin Rows(y.pid)
        BY <1>1, <4>1 DEF Rows
      <4>3. (P \cup {q}) \cap Rows(y.pid) = P \cap Rows(y.pid)
        BY <4>2, Zenon
      <4>4. /\ Follows(y.type, Types(y.pid), P \cap Rows(y.pid))
            /\ Follows(y.descriptor, Descriptors(y.pid), P \cap Rows(y.pid))
        <5>1. RowsTo(streams, P)
          BY DEF P
        <5>2. /\ Follows(streams[s].type, Types(streams[s].pid), P \cap Rows(streams[s].pid))
              /\ Follows(streams[s].descriptor, Descriptors(streams[s].pid),
                         P \cap Rows(streams[s].pid))
          BY <4>1, <5>1, Zenon DEF RowsTo
        <5> QED BY <4>1, <5>2
      <4> QED BY <4>3, <4>4 DEF y
    <3> QED BY <3>1, <3>2
  <2> QED BY <2>3, <2>5, <2>6, <2>7, <2>8, Zenon DEF RowsTo
<1> QED BY <1>2, <1>12, <1>13, Zenon

-----------------------------------------------------------------------------
(* The packets of a stream are those it held and one of each of the units. *)
HeldPackets(s) == IF s <= Len(before[3]) THEN before[3][s].packets ELSE <<>>

PacketsTo(packets, held, units) ==
  /\ Len(held) <= Len(packets)
  /\ \A i \in 1..Len(held) : packets[i] = held[i]
  /\ \A i \in (Len(held) + 1)..Len(packets) : \E n \in units : packets[i] = Number(n)
  /\ \A n \in units : \E i \in (Len(held) + 1)..Len(packets) : packets[i] = Number(n)
  /\ \A i, j \in (Len(held) + 1)..Len(packets) : i < j => packets[i] < packets[j]

PesBefore(pid, n) == {m \in PesUnits(pid) : m < n}

LEMMA PacketAdded ==
  ASSUME TypeOK, NEW packets \in Seq(Nat \ {0}), NEW held, Len(held) \in Nat,
         NEW units, NEW n \in Nat, \A m \in units : m \in Nat /\ m < n,
         PacketsTo(packets, held, units)
  PROVE  PacketsTo(Append(packets, Number(n)), held, units \cup {n})
<1> DEFINE more == Append(packets, Number(n))
           h == Len(held)
           l == Len(packets)
<1>1. given \in Int /\ Len(input) \in Nat
  BY LenProperties DEF TypeOK
<1>2. /\ Len(more) = l + 1 /\ more[l + 1] = Number(n) /\ l \in Nat /\ h \in Nat
      /\ \A i \in 1..l : more[i] = packets[i]
  <2>1. packets \in Seq(Int) /\ Number(n) \in Int
    BY <1>1, LenProperties DEF Number
  <2> QED BY <2>1, AppendProperties, LenProperties
<1>3. \A m \in units : Number(m) < Number(n)
  BY <1>1 DEF Number
<1>4. /\ h <= l
      /\ \A i \in 1..h : packets[i] = held[i]
      /\ \A i \in (h + 1)..l : \E m \in units : packets[i] = Number(m)
      /\ \A m \in units : \E i \in (h + 1)..l : packets[i] = Number(m)
      /\ \A i, j \in (h + 1)..l : i < j => packets[i] < packets[j]
  BY Zenon DEF PacketsTo
<1> HIDE DEF more, h, l
<1>5. /\ \A i \in (h + 1)..(l + 1) : i \in (h + 1)..l \/ i = l + 1
      /\ \A i \in (h + 1)..l : i \in (h + 1)..(l + 1) /\ i \in 1..l
      /\ \A i \in 1..h : i \in 1..l
      /\ l + 1 \in (h + 1)..(l + 1) /\ h <= l + 1
  BY <1>2, <1>4
<1>6. \A i \in 1..h : more[i] = held[i]
  BY <1>2, <1>4, <1>5, Zenon
<1>7. \A i \in (h + 1)..(l + 1) : \E m \in units \cup {n} : more[i] = Number(m)
  <2> SUFFICES ASSUME NEW i \in (h + 1)..(l + 1)
               PROVE  \E m \in units \cup {n} : more[i] = Number(m)
    OBVIOUS
  <2>1. CASE i = l + 1
    BY <1>2, <2>1, Zenon
  <2>2. CASE i \in (h + 1)..l
    <3>1. PICK m \in units : packets[i] = Number(m)
      BY <1>4, <2>2, Zenon
    <3>2. more[i] = packets[i]
      BY <1>2, <1>5, <2>2, Zenon
    <3> QED BY <3>1, <3>2, Zenon
  <2> QED BY <1>5, <2>1, <2>2, Zenon
<1>8. \A m \in units \cup {n} : \E i \in (h + 1)..(l + 1) : more[i] = Number(m)
  <2> SUFFICES ASSUME NEW m \in units \cup {n}
               PROVE  \E i \in (h + 1)..(l + 1) : more[i] = Number(m)
    OBVIOUS
  <2>1. CASE m \in units
    <3>1. PICK i \in (h + 1)..l : packets[i] = Number(m)
      BY <1>4, <2>1, Zenon
    <3>2. more[i] = packets[i] /\ i \in (h + 1)..(l + 1)
      BY <1>2, <1>5, Zenon
    <3> QED BY <3>1, <3>2, Zenon
  <2>2. CASE m = n
    BY <1>2, <1>5, <2>2, Zenon
  <2> QED BY <2>1, <2>2, Zenon
<1>9. ASSUME NEW i \in (h + 1)..(l + 1), NEW j \in (h + 1)..(l + 1), i < j
      PROVE  more[i] < more[j]
  <2>1. i \in (h + 1)..l /\ more[i] = packets[i]
    <3>1. i \in (h + 1)..l
      BY <1>2, <1>9
    <3> QED BY <1>2, <1>5, <3>1, Zenon
  <2>2. CASE j \in (h + 1)..l
    BY <1>2, <1>4, <1>5, <1>9, <2>1, <2>2
  <2>3. CASE j = l + 1
    <3>1. PICK m \in units : packets[i] = Number(m)
      BY <1>4, <2>1, Zenon
    <3> QED BY <1>2, <1>3, <2>1, <2>3, <3>1
  <2> QED BY <1>5, <2>2, <2>3, Zenon
<1>10. PacketsTo(more, held, units \cup {n})
  BY <1>2, <1>5, <1>6, <1>7, <1>8, <1>9, Zenon DEF PacketsTo, h
<1> QED BY <1>10, Zenon DEF more

-----------------------------------------------------------------------------
(* What the call has read, up to where it is.                              *)
TablesTo(n) ==
  /\ program_pid # 0
  /\ PatsTo(program_pid, Len(input) + 1)
  /\ PmtsTo(pcr_pid, n)

(* The s-th stream's packets when the call is at unit n of stream m.       *)
PesTo(m, n) ==
  \A s \in 1..Len(streams) :
    PacketsTo(streams[s].packets, HeldPackets(s),
              PesBefore(streams[s].pid,
                        IF s < m THEN Len(input) + 1 ELSE IF s = m THEN n ELSE 1))

(* The units of the call are read.                                         *)
AllRead ==
  /\ TypeOK /\ TablesTo(Len(input) + 1) /\ RowsTo(streams, Held \cup Entries)
  /\ \A s \in 1..Len(streams) :
       PacketsTo(streams[s].packets, HeldPackets(s), PesUnits(streams[s].pid))

ProgressInv ==
  /\ phase = "pat" =>
       streams = before[3] /\ pcr_pid = before[2] /\ PatsTo(program_pid, at)
  /\ phase = "pmt" => TablesTo(at) /\ RowsTo(streams, Spoken(at, 1))
  /\ phase = "entries" =>
       /\ TablesTo(at + 1) /\ RowsTo(streams, Spoken(at, entry))
       /\ at \in Tables /\ input[at].kind = "pmt"
  /\ phase = "pes" =>
       /\ TablesTo(Len(input) + 1) /\ RowsTo(streams, Held \cup Entries)
       /\ PesTo(at, entry)
  /\ phase = "idle" => SucceedsIfTablesAgree /\ (result = 1 => AllRead)

(* What the tables say depends on what the call began with.                *)
LEMMA SaidSame ==
  ASSUME UNCHANGED <<input, before>>
  PROVE  /\ \A pid : UnitsOn(pid)' = UnitsOn(pid) /\ PesUnits(pid)' = PesUnits(pid)
         /\ ProgramPids' = ProgramPids /\ Tables' = Tables /\ PcrPids' = PcrPids
         /\ Held' = Held /\ Entries' = Entries
         /\ \A p : Row(p)' = Row(p)
         /\ \A pid : /\ Rows(pid)' = Rows(pid)
                     /\ Types(pid)' = Types(pid)
                     /\ Descriptors(pid)' = Descriptors(pid)
         /\ \A n, k : Spoken(n, k)' = Spoken(n, k)
<1>1. input' = input /\ before' = before
  OBVIOUS
<1>2. \A pid : UnitsOn(pid)' = UnitsOn(pid)
  BY <1>1, Zenon DEF UnitsOn
<1>3. \A pid : PesUnits(pid)' = PesUnits(pid)
  BY <1>1, <1>2, Zenon DEF PesUnits
<1>4. ProgramPids' = ProgramPids
  BY <1>1, <1>2, Zenon DEF ProgramPids
<1>5. Tables' = Tables
  BY <1>2, <1>4, Zenon DEF Tables
<1>6. PcrPids' = PcrPids
  BY <1>1, <1>5, Zenon DEF PcrPids
<1>7. Held' = Held
  BY <1>1, Zenon DEF Held
<1>8. Entries' = Entries
  BY <1>1, <1>5, Zenon DEF Entries
<1>9. \A p : Row(p)' = Row(p)
  BY <1>1, Zenon DEF Row
<1>10. \A pid : Rows(pid)' = Rows(pid)
  BY <1>7, <1>8, <1>9, Zenon DEF Rows
<1>11. \A pid : Types(pid)' = Types(pid) /\ Descriptors(pid)' = Descriptors(pid)
  BY <1>9, <1>10, Zenon DEF Types, Descriptors
<1>12. \A n, k : Spoken(n, k)' = Spoken(n, k)
  BY <1>7, <1>8, Zenon DEF Spoken
<1> QED BY <1>2, <1>3, <1>4, <1>5, <1>6, <1>7, <1>8, <1>9, <1>10, <1>11, <1>12, Zenon

LEMMA ReadSame ==
  ASSUME UNCHANGED <<input, before, given>>
  PROVE  /\ \A c, n : PatsTo(c, n)' <=> PatsTo(c, n)
         /\ \A c, n : PmtsTo(c, n)' <=> PmtsTo(c, n)
         /\ \A rows, P : RowsTo(rows, P)' <=> RowsTo(rows, P)
         /\ \A p, h, u : PacketsTo(p, h, u)' <=> PacketsTo(p, h, u)
         /\ \A s : HeldPackets(s)' = HeldPackets(s)
         /\ \A pid, n : PesBefore(pid, n)' = PesBefore(pid, n)
         /\ Loadable' <=> Loadable
<1>1. /\ input' = input /\ before' = before /\ given' = given
      /\ UNCHANGED <<input, before>>
  OBVIOUS
<1>2. \A c, n : PatsTo(c, n)' <=> PatsTo(c, n)
  BY <1>1, SaidSame, Zenon DEF PatsTo
<1>3. \A c, n : PmtsTo(c, n)' <=> PmtsTo(c, n)
  BY <1>1, SaidSame, Zenon DEF PmtsTo
<1>4. \A rows, P : RowsTo(rows, P)' <=> RowsTo(rows, P)
  <2> SUFFICES ASSUME NEW rows, NEW P PROVE RowsTo(rows, P)' <=> RowsTo(rows, P)
    OBVIOUS
  <2>1. /\ before' = before
        /\ \A p : Row(p)' = Row(p)
        /\ \A pid : /\ Rows(pid)' = Rows(pid)
                    /\ Types(pid)' = Types(pid)
                    /\ Descriptors(pid)' = Descriptors(pid)
    BY <1>1, SaidSame, Zenon
  <2> QED BY <2>1, Zenon DEF RowsTo
<1>5. \A n : Number(n)' = Number(n)
  BY <1>1, Zenon DEF Number
<1>6. \A p, h, u : PacketsTo(p, h, u)' <=> PacketsTo(p, h, u)
  BY <1>5, ZenonT(40) DEF PacketsTo
<1>7. \A s : HeldPackets(s)' = HeldPackets(s)
  BY <1>1, Zenon DEF HeldPackets
<1>8. \A pid, n : PesBefore(pid, n)' = PesBefore(pid, n)
  BY <1>1, SaidSame, Zenon DEF PesBefore
<1>9. Loadable' <=> Loadable
  BY <1>1, SaidSame, Zenon DEF Loadable
<1> QED BY <1>2, <1>3, <1>4, <1>6, <1>7, <1>8, <1>9, Zenon

-----------------------------------------------------------------------------
(* A call fails when its tables do not agree.                              *)
LEMMA Fails ==
  ASSUME Return(-1), ~Loadable
  PROVE  ProgressInv'
<1>1. phase' = "idle" /\ result' = -1 /\ UNCHANGED <<input, before, given>>
  BY Zenon DEF Return
<1>2. ~Loadable'
  BY <1>1, ReadSame, Zenon
<1>3. -1 # 1
  OBVIOUS
<1>4. SucceedsIfTablesAgree'
  BY <1>1, <1>2, <1>3 DEF SucceedsIfTablesAgree
<1>5. ~(result' = 1)
  BY <1>1, <1>3
<1> QED BY <1>1, <1>4, <1>5, Zenon DEF ProgressInv

LEMMA ReadPatProgress ==
  ASSUME Inv, ProgressInv, ReadPat
  PROVE  ProgressInv'
<1> DEFINE u == input[at]
           named == IF u.kind = "pat" THEN u.program ELSE 0
<1>1. phase = "pat" /\ TypeOK /\ at \in 1..Len(input)
  <2>1. phase = "pat" /\ TypeOK /\ at <= Len(input)
    BY Zenon DEF ReadPat, Inv, TypeInv
  <2> QED BY <2>1, SaidFacts
<1>2. streams = before[3] /\ pcr_pid = before[2] /\ PatsTo(program_pid, at)
  BY <1>1, Zenon DEF ProgressInv
<1>3. /\ u.pid # 0 => PatsTo(program_pid, at + 1)
      /\ u.pid = 0 /\ u.kind \notin {"pat", "short"} => ~Loadable
      /\ u.pid = 0 /\ u.kind \in {"pat", "short"} =>
           /\ Adopt(program_pid, named) = named => PatsTo(named, at + 1)
           /\ Adopt(program_pid, named) # named => ~Loadable
  BY <1>1, <1>2, PatStep, Zenon
<1>4. UNCHANGED <<pcr_pid, streams, input, before, given>>
  BY Zenon DEF ReadPat, Goto, Return, program
<1>5. ASSUME Goto("pat", at + 1), PatsTo(program_pid', at + 1)
      PROVE  ProgressInv'
  <2>1. phase' = "pat" /\ at' = at + 1
    BY <1>5, Zenon DEF Goto
  <2>2. PatsTo(program_pid, at)'
    BY <1>4, <1>5, <2>1, ReadSame
  <2> QED BY <1>2, <1>4, <2>1, <2>2 DEF ProgressInv
<1>6. CASE u.pid # 0 /\ Goto("pat", at + 1) /\ UNCHANGED program
  <2>1. program_pid' = program_pid
    BY <1>6 DEF program
  <2> QED BY <1>3, <1>5, <1>6, <2>1
<1>7. CASE u.pid = 0 /\ u.kind \notin {"pat", "short"} /\ Return(-1)
  BY <1>3, <1>7, Fails, Zenon
<1>8. CASE /\ u.pid = 0 /\ u.kind \in {"pat", "short"}
           /\ program_pid' = Adopt(program_pid, named)
           /\ IF program_pid' = named THEN Goto("pat", at + 1) ELSE Return(-1)
  <2>1. CASE program_pid' = named
    <3>1. Goto("pat", at + 1) /\ Adopt(program_pid, named) = named
      BY <1>8, <2>1
    <3>2. PatsTo(program_pid', at + 1)
      BY <1>3, <1>8, <2>1, <3>1
    <3> QED BY <1>5, <3>1, <3>2
  <2>2. CASE program_pid' # named
    <3>1. Return(-1) /\ Adopt(program_pid, named) # named
      BY <1>8, <2>2
    <3>2. ~Loadable
      BY <1>3, <1>8, <3>1, Zenon
    <3> QED BY <3>1, <3>2, Fails, Zenon
  <2> QED BY <2>1, <2>2
<1> QED BY <1>6, <1>7, <1>8, Zenon DEF ReadPat

LEMMA EndPatProgress ==
  ASSUME Inv, ProgressInv, EndPat
  PROVE  ProgressInv'
<1>1. /\ phase = "pat" /\ TypeOK /\ OneStreamPerPid /\ Len(input) \in Nat
      /\ at \in Nat /\ at > Len(input)
  <2>1. phase = "pat" /\ TypeOK /\ OneStreamPerPid /\ at > Len(input)
    BY Zenon DEF EndPat, Inv, TypeInv
  <2> QED BY <2>1, SaidFacts
<1>2. streams = before[3] /\ pcr_pid = before[2] /\ PatsTo(program_pid, at)
  BY <1>1, Zenon DEF ProgressInv
<1>3. /\ AgreedOn(ProgramPids) = program_pid
      /\ \A m \in UnitsOn(0) : input[m].kind \in {"pat", "short"}
      /\ Before(ProgramPids, at, 1) = Before(ProgramPids, Len(input) + 1, 1)
  <2>1. /\ AgreedOn(ProgramPids) = program_pid
        /\ \A m \in UnitsOn(0) : input[m].kind \in {"pat", "short"}
    BY <1>1, <1>2, PatsRead, Zenon
  <2>2. \A n \in Nat : n > Len(input) => Before(ProgramPids, n, 1) = DOMAIN ProgramPids
    <3> SUFFICES ASSUME NEW n \in Nat, n > Len(input)
                 PROVE  Before(ProgramPids, n, 1) = DOMAIN ProgramPids
      OBVIOUS
    <3>1. /\ \A m \in UnitsOn(0) : m \in Nat /\ m >= 1 /\ m < n
          /\ n >= 1
      BY <1>1, SaidFacts
    <3>2. DOMAIN ProgramPids = ({0} \cup UnitsOn(0)) \X {1}
      BY <1>1, SaidFacts, Zenon
    <3> QED BY <3>1, <3>2, NextUnit, Zenon
  <2>3. Len(input) + 1 \in Nat /\ Len(input) + 1 > Len(input)
    BY <1>1
  <2> QED BY <1>1, <2>1, <2>2, <2>3, Zenon
<1>4. PatsTo(program_pid, Len(input) + 1)
  BY <1>2, <1>3, Zenon DEF PatsTo
<1>5. PmtsTo(pcr_pid, 1) /\ RowsTo(streams, Spoken(1, 1))
  <2>1. Spoken(1, 1) = Held
    <3>1. 1 \in Nat /\ 1 >= 1
      OBVIOUS
    <3> QED BY <1>1, <3>1, SpokenFacts, Zenon
  <2> QED BY <1>1, <1>2, <2>1, FirstPmt, FirstRows, Zenon
<1>6. UNCHANGED <<program_pid, pcr_pid, streams, input, before, given>>
  BY Zenon DEF EndPat, Goto, Return, program
<1>7. CASE program_pid = 0
  <2>1. Return(-1)
    BY <1>7, Zenon DEF EndPat
  <2>2. ~Loadable
    BY <1>3, <1>7, Zenon DEF Loadable
  <2> QED BY <2>1, <2>2, Fails, Zenon
<1>8. CASE program_pid # 0
  <2>1. phase' = "pmt" /\ at' = 1
    BY <1>8, Zenon DEF EndPat, Goto
  <2>2. TablesTo(1)'
    BY <1>4, <1>5, <1>6, <1>8, ReadSame DEF TablesTo
  <2>3. RowsTo(streams, Spoken(1, 1))'
    <3>1. UNCHANGED <<input, before, given>> /\ UNCHANGED <<input, before>>
      BY <1>6
    <3>2. Spoken(1, 1)' = Spoken(1, 1)
      BY <3>1, SaidSame, Zenon
    <3> QED BY <1>5, <1>6, <3>1, <3>2, ReadSame
  <2> QED BY <2>1, <2>2, <2>3 DEF ProgressInv
<1> QED BY <1>7, <1>8

(* A unit that is no table of the program has no entries.                  *)
LEMMA NoEntries ==
  ASSUME TypeOK, NEW n \in Nat, n >= 1, ~(n \in Tables /\ input[n].kind = "pmt")
  PROVE  Spoken(n + 1, 1) = Spoken(n, 1)
<1>1. \A j \in Nat : j >= 1 => <<n, j>> \notin Entries
  BY EntryFacts, Zenon
<1>2. 1 \in Nat /\ 1 >= 1
  OBVIOUS
<1> QED BY <1>1, <1>2, SpokenFacts, Zenon

LEMMA TablesFacts ==
  ASSUME TypeOK, NEW n, TablesTo(n)
  PROVE  /\ Tables = UnitsOn(program_pid)
         /\ Agreed(ProgramPids) /\ AgreedOn(ProgramPids) = program_pid
         /\ \A m \in UnitsOn(0) : input[m].kind \in {"pat", "short"}
<1>1. Len(input) + 1 \in Nat /\ Len(input) + 1 > Len(input)
  BY SaidFacts
<1>2. PatsTo(program_pid, Len(input) + 1)
  BY Zenon DEF TablesTo
<1> QED BY <1>1, <1>2, PatsRead, Zenon

LEMMA ReadPmtProgress ==
  ASSUME Inv, ProgressInv, ReadPmt
  PROVE  ProgressInv'
<1> DEFINE u == input[at]
           named == IF u.kind = "pmt" THEN u.pcr ELSE 0
<1>1. /\ phase = "pmt" /\ TypeOK /\ at \in 1..Len(input)
      /\ at \in Nat /\ at >= 1
  <2>1. phase = "pmt" /\ TypeOK /\ at <= Len(input)
    BY Zenon DEF ReadPmt, Inv, TypeInv
  <2> QED BY <2>1, SaidFacts
<1>2. TablesTo(at) /\ RowsTo(streams, Spoken(at, 1))
  BY <1>1, Zenon DEF ProgressInv
<1>3. at \in Tables <=> u.pid = program_pid
  <2>1. Tables = UnitsOn(program_pid)
    BY <1>1, <1>2, TablesFacts, Zenon
  <2> QED BY <1>1, <2>1, Zenon DEF UnitsOn
<1>4. /\ at \notin Tables => PmtsTo(pcr_pid, at + 1)
      /\ at \in Tables /\ u.kind \notin {"pmt", "short"} => ~Loadable
      /\ at \in Tables /\ u.kind \in {"pmt", "short"} =>
           /\ Adopt(pcr_pid, named) = named => PmtsTo(named, at + 1)
           /\ Adopt(pcr_pid, named) # named => ~Loadable
  <2>1. PmtsTo(pcr_pid, at)
    BY <1>2, Zenon DEF TablesTo
  <2> QED BY <1>1, <2>1, PmtStep, Zenon
<1>5. UNCHANGED <<program_pid, streams, input, before, given>>
  BY Zenon DEF ReadPmt, Goto, Return, program
<1>6. ASSUME Goto("pmt", at + 1), PmtsTo(pcr_pid', at + 1),
             ~(at \in Tables /\ u.kind = "pmt")
      PROVE  ProgressInv'
  <2>1. phase' = "pmt" /\ at' = at + 1
    BY <1>6, Zenon DEF Goto
  <2>2. TablesTo(at)'
    BY <1>2, <1>5, <1>6, <2>1, ReadSame DEF TablesTo
  <2>3. Spoken(at + 1, 1) = Spoken(at, 1)
    BY <1>1, <1>6, NoEntries, Zenon
  <2>4. RowsTo(streams, Spoken(at, 1))'
    <3>1. Spoken(at, 1)' = Spoken(at, 1)
      BY <1>5, <2>1, <2>3, SaidSame
    <3> QED BY <1>2, <1>5, <3>1, ReadSame
  <2> QED BY <2>1, <2>2, <2>4 DEF ProgressInv
<1>7. CASE u.pid # program_pid /\ Goto("pmt", at + 1) /\ UNCHANGED program
  <2>1. pcr_pid' = pcr_pid
    BY <1>7 DEF program
  <2> QED BY <1>3, <1>4, <1>6, <1>7, <2>1
<1>8. CASE u.pid = program_pid /\ u.kind \notin {"pmt", "short"} /\ Return(-1)
  BY <1>3, <1>4, <1>8, Fails, Zenon
<1>9. CASE /\ u.pid = program_pid /\ u.kind \in {"pmt", "short"}
            /\ pcr_pid' = Adopt(pcr_pid, named)
            /\ \/ pcr_pid' # named /\ Return(-1)
               \/ pcr_pid' = named /\ u.kind = "pmt" /\ Goto("entries", at)
               \/ pcr_pid' = named /\ u.kind = "short" /\ Goto("pmt", at + 1)
  <2>1. CASE pcr_pid' # named /\ Return(-1)
    <3>1. Adopt(pcr_pid, named) # named
      BY <1>9, <2>1
    <3>2. ~Loadable
      BY <1>3, <1>4, <1>9, <3>1, Zenon
    <3> QED BY <2>1, <3>2, Fails, Zenon
  <2>2. CASE pcr_pid' = named
    <3>1. PmtsTo(named, at + 1)
      <4>1. Adopt(pcr_pid, named) = named
        BY <1>9, <2>2
      <4> QED BY <1>3, <1>4, <1>9, <4>1, Zenon
    <3>2. PmtsTo(pcr_pid', at + 1)
      BY <2>2, <3>1
    <3>3. CASE u.kind = "short" /\ Goto("pmt", at + 1)
      BY <1>6, <3>2, <3>3
    <3>4. CASE u.kind = "pmt" /\ Goto("entries", at)
      <4>1. phase' = "entries" /\ at' = at /\ entry' = 1
        BY <3>4, Zenon DEF Goto
      <4>2. TablesTo(at + 1)'
        BY <1>2, <1>5, <3>2, <4>1, ReadSame DEF TablesTo
      <4>3. Spoken(at, entry)' = Spoken(at, 1)
        BY <1>5, <4>1, SaidSame
      <4>4. RowsTo(streams, Spoken(at, entry))'
        BY <1>2, <1>5, <4>3, ReadSame
      <4>5. (at \in Tables /\ input[at].kind = "pmt")'
        BY <1>3, <1>5, <1>9, <3>4, <4>1, SaidSame
      <4> QED BY <4>1, <4>2, <4>4, <4>5 DEF ProgressInv
    <3> QED BY <1>9, <2>2, <3>3, <3>4, Zenon
  <2> QED BY <1>9, <2>1, <2>2
<1> QED BY <1>7, <1>8, <1>9, Zenon DEF ReadPmt

LEMMA ReadEntryProgress ==
  ASSUME Inv, ProgressInv, ReadEntry
  PROVE  ProgressInv'
<1> DEFINE e == input[at].entries[entry]
           x == Created(e)[At(e)]
           type == Adopt(x.type, e.type)
           descriptor == IF type = e.type THEN Adopt(x.descriptor, e.descriptor)
                                          ELSE x.descriptor
           row == [x EXCEPT !.type = type, !.descriptor = descriptor]
<1>1. /\ phase = "entries" /\ TypeOK /\ at \in 1..Len(input)
      /\ at \in Nat /\ at >= 1 /\ entry \in Nat /\ entry >= 1 /\ at # 0
  <2>1. phase = "entries" /\ TypeOK /\ at <= Len(input)
    BY Zenon DEF ReadEntry, Inv, TypeInv
  <2> QED BY <2>1, SaidFacts
<1>2. /\ TablesTo(at + 1) /\ RowsTo(streams, Spoken(at, entry))
      /\ at \in Tables /\ input[at].kind = "pmt"
  BY <1>1, Zenon DEF ProgressInv
<1>3. entry \in 1..Len(input[at].entries) /\ e \in EntryType
  <2>1. input[at] \in UnitType
    BY <1>1, ElementOfSeq DEF TypeOK
  <2>2. input[at].entries \in Seq(EntryType)
    BY <2>1 DEF UnitType
  <2>3. entry <= Len(input[at].entries)
    BY Zenon DEF ReadEntry
  <2>4. Len(input[at].entries) \in Nat
    BY <2>2, LenProperties
  <2>5. entry \in 1..Len(input[at].entries)
    BY <1>1, <2>3, <2>4
  <2> QED BY <2>2, <2>5, ElementOfSeq
<1>4. <<at, entry>> \in Entries /\ e = Row(<<at, entry>>)
  <2>1. <<at, entry>> \in Entries
    BY <1>1, <1>2, <1>3, EntryFacts, Zenon
  <2>2. <<at, entry>>[1] = at /\ <<at, entry>>[2] = entry
    OBVIOUS
  <2> QED BY <1>1, <2>1, <2>2, Zenon DEF Row
<1>5. /\ streams' = [Created(e) EXCEPT ![At(e)] = row]
      /\ IF type = e.type /\ descriptor = e.descriptor
           THEN /\ entry' = entry + 1
                /\ UNCHANGED <<phase, at, input, result, before, given>>
           ELSE Return(-1)
      /\ UNCHANGED <<program_pid, pcr_pid>>
  BY Zenon DEF ReadEntry
<1>6. Replaced(streams', Created(e), At(e), row)
  BY <1>5, Zenon DEF Replaced
<1> HIDE DEF e, type, descriptor
<1>7. /\ type = e.type /\ descriptor = e.descriptor =>
           RowsTo(streams', Spoken(at, entry + 1))
      /\ type # e.type \/ descriptor # e.descriptor => ~Loadable
  <2>1. /\ type = Adopt(x.type, e.type)
        /\ descriptor = IF type = e.type THEN Adopt(x.descriptor, e.descriptor)
                                         ELSE x.descriptor
    BY Zenon DEF type, descriptor
  <2> HIDE DEF x
  <2>2. x = Created(e)[At(e)]
    BY Zenon DEF x
  <2>3. EntryRead(<<at, entry>>, e, x, type, descriptor, streams')
    BY <1>3, <1>4, <1>6, <2>1, <2>2, Zenon DEF EntryRead
  <2>4. /\ at \in Nat /\ entry \in Nat /\ at >= 1 /\ entry >= 1
        /\ RowsTo(streams, Spoken(at, entry))
    BY <1>1, <1>2, Zenon
  <2> QED BY <2>3, <2>4, EntryStep, SMTT(30)
<1>8. CASE type = e.type /\ descriptor = e.descriptor
  <2>1. /\ entry' = entry + 1
        /\ UNCHANGED <<phase, at, input, result, before, given>>
    BY <1>5, <1>8, Zenon
  <2>2. UNCHANGED <<input, before, given>> /\ UNCHANGED <<input, before>>
    BY <2>1
  <2>3. RowsTo(streams, Spoken(at, entry))'
    <3>1. Spoken(at, entry)' = Spoken(at, entry + 1)
      BY <2>1, <2>2, SaidSame
    <3>2. RowsTo(streams', Spoken(at, entry + 1))
      BY <1>7, <1>8, Zenon
    <3> QED BY <2>2, <3>1, <3>2, ReadSame
  <2>4. TablesTo(at + 1)'
    BY <1>2, <1>5, <2>1, <2>2, ReadSame DEF TablesTo
  <2>5. (at \in Tables /\ input[at].kind = "pmt")'
    BY <1>2, <2>1, <2>2, SaidSame
  <2>6. phase' = "entries"
    BY <1>1, <2>1
  <2> QED BY <2>3, <2>4, <2>5, <2>6 DEF ProgressInv
<1>9. CASE ~(type = e.type /\ descriptor = e.descriptor)
  <2>1. Return(-1)
    BY <1>5, <1>9, Zenon
  <2>2. ~Loadable
    BY <1>7, <1>9, Zenon
  <2> QED BY <2>1, <2>2, Fails, Zenon
<1> QED BY <1>8, <1>9, Zenon

LEMMA EndEntriesProgress ==
  ASSUME Inv, ProgressInv, EndEntries
  PROVE  ProgressInv'
<1>1. /\ phase = "entries" /\ TypeOK /\ at \in Nat /\ at >= 1
      /\ entry \in Nat /\ entry >= 1 /\ entry > Len(input[at].entries)
      /\ at \in 1..Len(input)
  <2>1. phase = "entries" /\ TypeOK /\ entry > Len(input[at].entries) /\ at <= Len(input)
    BY Zenon DEF EndEntries, Inv, TypeInv
  <2> QED BY <2>1, SaidFacts
<1>2. TablesTo(at + 1) /\ RowsTo(streams, Spoken(at, entry))
  BY <1>1, Zenon DEF ProgressInv
<1>3. Spoken(at + 1, 1) = Spoken(at, entry)
  <2>1. \A j \in Nat : j >= entry => <<at, j>> \notin Entries
    <3> DEFINE l == Len(input[at].entries)
    <3>1. l \in Nat
      <4>1. input[at] \in UnitType
        BY <1>1, ElementOfSeq DEF TypeOK
      <4>2. input[at].entries \in Seq(EntryType)
        BY <4>1 DEF UnitType
      <4> QED BY <4>2, LenProperties
    <3>2. \A j \in Nat : <<at, j>> \in Entries => j \in 1..l
      BY <1>1, EntryFacts, Zenon
    <3> HIDE DEF l
    <3>3. \A j \in Nat : j >= entry /\ entry > l => j \notin 1..l
      BY <1>1, <3>1
    <3> QED BY <1>1, <3>2, <3>3, Zenon DEF l
  <2> QED BY <1>1, <2>1, SpokenFacts, Zenon
<1>4. /\ UNCHANGED <<program_pid, pcr_pid, streams, input, before, given>>
      /\ phase' = "pmt" /\ at' = at + 1
  BY Zenon DEF EndEntries, Goto, program
<1>5. TablesTo(at)'
  BY <1>2, <1>4, ReadSame DEF TablesTo
<1>6. RowsTo(streams, Spoken(at, 1))'
  <2>1. Spoken(at, 1)' = Spoken(at, entry)
    BY <1>3, <1>4, SaidSame
  <2> QED BY <1>2, <1>4, <2>1, ReadSame
<1> QED BY <1>4, <1>5, <1>6 DEF ProgressInv

(* All units behind the last are the same.                                 *)
LEMMA PmtsEnd ==
  ASSUME TypeOK, NEW c, NEW n \in Nat, n > Len(input), PmtsTo(c, n)
  PROVE  PmtsTo(c, Len(input) + 1)
<1>1. \A m \in Tables : m \in Nat /\ m >= 1 /\ m < n /\ m < Len(input) + 1
  BY SaidFacts DEF Tables
<1>2. /\ Len(input) + 1 \in Nat /\ Len(input) + 1 >= 1 /\ n >= 1
  BY SaidFacts
<1>3. DOMAIN PcrPids = ({0} \cup Tables) \X {1}
  BY SaidFacts, Zenon
<1>4. Before(PcrPids, n, 1) = DOMAIN PcrPids
  BY <1>1, <1>2, <1>3, NextUnit, Zenon
<1>5. Before(PcrPids, Len(input) + 1, 1) = DOMAIN PcrPids
  BY <1>1, <1>2, <1>3, NextUnit, Zenon
<1> QED BY <1>1, <1>4, <1>5, Zenon DEF PmtsTo

LEMMA EndPmtProgress ==
  ASSUME Inv, FailureInv, ProgressInv, EndPmt
  PROVE  ProgressInv'
<1>1. /\ phase = "pmt" /\ TypeOK /\ at \in Nat /\ at > Len(input) /\ at >= 1
      /\ 1 \in Nat /\ 1 >= 1
  <2>1. phase = "pmt" /\ TypeOK /\ at > Len(input)
    BY Zenon DEF EndPmt, Inv, TypeInv
  <2> QED BY <2>1, SaidFacts
<1>2. TablesTo(at) /\ RowsTo(streams, Spoken(at, 1))
  BY <1>1, Zenon DEF ProgressInv
<1>3. /\ UNCHANGED <<program_pid, pcr_pid, streams, input, before, given>>
      /\ phase' = "pes" /\ at' = 1 /\ entry' = 1
  BY Zenon DEF EndPmt, Goto, program
<1>4. UNCHANGED <<input, before, given>> /\ UNCHANGED <<input, before>>
  BY <1>3
<1>5. TablesTo(Len(input) + 1)'
  <2>1. PmtsTo(pcr_pid, Len(input) + 1)
    BY <1>1, <1>2, PmtsEnd, Zenon DEF TablesTo
  <2> QED BY <1>2, <1>3, <1>4, <2>1, ReadSame DEF TablesTo
<1>6. RowsTo(streams, Held \cup Entries)'
  <2>1. Spoken(at, 1) = Held \cup Entries
    BY <1>1, SpokenFacts, Zenon
  <2> QED BY <1>2, <1>3, <1>4, <2>1, SaidSame, ReadSame
<1>7. \A s \in 1..Len(streams) : streams[s].packets = HeldPackets(s)
  BY <1>1, Zenon DEF FailureInv, NothingAttached, HeldPackets
<1>8. \A pid : PesBefore(pid, 1) = {}
  <2>1. \A pid : \A m \in PesUnits(pid) : ~(m < 1)
    BY <1>1, SaidFacts DEF PesUnits
  <2> QED BY <2>1, Zenon DEF PesBefore
<1>9. ASSUME NEW s \in 1..Len(streams)
      PROVE  PacketsTo(streams[s].packets, HeldPackets(s), {})
  <2> DEFINE h == HeldPackets(s)
  <2>1. Len(h) \in Nat
    <3>1. streams[s] \in StreamType
      BY <1>1, ElementOfSeq DEF TypeOK
    <3>2. h \in Seq(Nat \ {0})
      BY <1>7, <3>1 DEF StreamType
    <3> QED BY <3>2, LenProperties
  <2> HIDE DEF h
  <2>2. PacketsTo(h, h, {})
    BY <2>1 DEF PacketsTo
  <2> QED BY <1>7, <2>2, Zenon DEF h
<1>10. PesTo(1, 1)
  <2> SUFFICES ASSUME NEW s \in 1..Len(streams)
               PROVE  PacketsTo(streams[s].packets, HeldPackets(s),
                                PesBefore(streams[s].pid,
                                          IF s < 1 THEN Len(input) + 1
                                          ELSE IF s = 1 THEN 1 ELSE 1))
    BY Zenon DEF PesTo
  <2>1. ~(s < 1)
    BY <1>1, SaidFacts
  <2>2. (IF s < 1 THEN Len(input) + 1 ELSE IF s = 1 THEN 1 ELSE 1) = 1
    BY <2>1, Zenon
  <2> QED BY <1>8, <1>9, <2>2, Zenon
<1>11. PesTo(at, entry)'
  BY <1>3, <1>4, <1>10, ReadSame DEF PesTo
<1> QED BY <1>3, <1>5, <1>6, <1>11 DEF ProgressInv

(* The tables see of a stream its PID, type and descriptor.                *)
LEMMA RowsAlike ==
  ASSUME NEW rows, NEW more, NEW P, RowsTo(rows, P), Len(more) = Len(rows),
         \A s \in 1..Len(rows) :
           /\ more[s].pid = rows[s].pid /\ more[s].type = rows[s].type
           /\ more[s].descriptor = rows[s].descriptor,
         Len(before[3]) \in Nat, Len(rows) \in Nat
  PROVE  RowsTo(more, P)
<1>1. \A s \in 1..Len(before[3]) : s \in 1..Len(rows)
  BY DEF RowsTo
<1>2. /\ Len(before[3]) <= Len(more)
      /\ \A s \in 1..Len(before[3]) : more[s].pid = before[3][s].pid
  BY <1>1 DEF RowsTo
<1>3. /\ \A s \in 1..Len(more) : \E p \in P : Row(p).pid = more[s].pid
      /\ \A p \in P : \E s \in 1..Len(more) : more[s].pid = Row(p).pid
  BY DEF RowsTo
<1>4. ASSUME NEW r \in 1..Len(more), NEW s \in 1..Len(more), r < s
      PROVE  \E p \in Rows(more[r].pid) : \A q \in Rows(more[s].pid) : Earlier(p, q)
  <2>1. /\ \E p \in Rows(rows[r].pid) : \A q \in Rows(rows[s].pid) : Earlier(p, q)
        /\ more[r].pid = rows[r].pid /\ more[s].pid = rows[s].pid
    BY <1>4, Zenon DEF RowsTo
  <2> QED BY <2>1
<1>5. ASSUME NEW s \in 1..Len(more)
      PROVE  LET x == more[s]
             IN /\ Follows(x.type, Types(x.pid), P \cap Rows(x.pid))
                /\ Follows(x.descriptor, Descriptors(x.pid), P \cap Rows(x.pid))
  <2>1. LET x == rows[s]
        IN /\ Follows(x.type, Types(x.pid), P \cap Rows(x.pid))
           /\ Follows(x.descriptor, Descriptors(x.pid), P \cap Rows(x.pid))
           /\ more[s].pid = x.pid /\ more[s].type = x.type
           /\ more[s].descriptor = x.descriptor
    BY <1>5, Zenon DEF RowsTo
  <2> QED BY <2>1
<1> QED BY <1>2, <1>3, <1>4, <1>5, Zenon DEF RowsTo

(* The PES units of a stream before the next unit.                         *)
LEMMA NextPes ==
  ASSUME TypeOK, NEW n \in Nat, NEW pid
  PROVE  /\ n \in PesUnits(pid) => PesBefore(pid, n + 1) = PesBefore(pid, n) \cup {n}
         /\ n \notin PesUnits(pid) => PesBefore(pid, n + 1) = PesBefore(pid, n)
         /\ n > Len(input) => PesBefore(pid, n) = PesUnits(pid)
         /\ PesBefore(pid, Len(input) + 1) = PesUnits(pid)
         /\ \A m \in PesBefore(pid, n) : m \in Nat /\ m < n
<1>1. \A m \in PesUnits(pid) : m \in 1..Len(input) /\ Len(input) \in Nat
  BY SaidFacts, Zenon DEF PesUnits
<1>2. \A m \in PesUnits(pid) :
        /\ m \in Nat /\ m < Len(input) + 1
        /\ m < n + 1 <=> m < n \/ m = n
        /\ n > Len(input) => m < n
  BY <1>1
<1>3. n \in PesUnits(pid) => n < n + 1
  OBVIOUS
<1> QED BY <1>2, <1>3, Zenon DEF PesBefore

(* What stays while the PES packets are read.                              *)
LEMMA PesPhase ==
  ASSUME Inv, ProgressInv, phase = "pes",
         UNCHANGED <<program_pid, pcr_pid, input, before, given>>,
         streams' = streams \/ ReadPes
  PROVE  /\ TablesTo(Len(input) + 1)'
         /\ RowsTo(streams, Held \cup Entries)'
<1>1. UNCHANGED <<input, before, given>> /\ UNCHANGED <<input, before>>
  OBVIOUS
<1>2. TablesTo(Len(input) + 1) /\ RowsTo(streams, Held \cup Entries)
  BY Zenon DEF ProgressInv
<1>3. TablesTo(Len(input) + 1)'
  BY <1>1, <1>2, ReadSame DEF TablesTo
<1>4. RowsTo(streams', Held \cup Entries)
  <2>1. CASE streams' = streams
    BY <1>2, <2>1
  <2>2. CASE ReadPes
    <3>1. /\ Len(streams) \in Nat /\ Len(streams') = Len(streams)
          /\ \A s \in 1..Len(streams) :
              /\ streams'[s].pid = streams[s].pid
              /\ streams'[s].type = streams[s].type
              /\ streams'[s].descriptor = streams[s].descriptor
      BY <2>2, ReadPesFacts
    <3>2. Len(before[3]) \in Nat
      BY SaidFacts DEF Inv, TypeInv
    <3> QED BY <1>2, <3>1, <3>2, RowsAlike
  <2> QED BY <2>1, <2>2
<1>5. RowsTo(streams, Held \cup Entries)'
  BY <1>1, <1>4, SaidSame, ReadSame
<1> QED BY <1>3, <1>5

LEMMA ReadPesProgress ==
  ASSUME Inv, ProgressInv, ReadPes \/ SkipUnit
  PROVE  ProgressInv'
<1>1. /\ phase = "pes" /\ TypeOK
      /\ at <= Len(streams) /\ entry <= Len(input)
      /\ UNCHANGED <<program_pid, pcr_pid, input, phase, at, result, before, given>>
      /\ entry' = entry + 1
      /\ streams' = streams \/ ReadPes
  BY Zenon DEF ReadPes, SkipUnit, Advance, Inv, TypeInv
<1>2. PesTo(at, entry)
  BY <1>1, Zenon DEF ProgressInv
<1>3. /\ at \in 1..Len(streams) /\ entry \in 1..Len(input) /\ entry \in Nat
      /\ Len(streams) \in Nat
  BY <1>1, SaidFacts
<1>4. /\ Len(streams') = Len(streams)
      /\ \A s \in 1..Len(streams) :
           /\ streams'[s].pid = streams[s].pid
           /\ s # at => streams'[s].packets = streams[s].packets
  <2>1. CASE ReadPes
    BY <2>1, ReadPesFacts
  <2>2. CASE streams' = streams
    BY <2>2
  <2> QED BY <1>1, <2>1, <2>2
<1> DEFINE pid == streams[at].pid
<1>5. PacketsTo(streams[at].packets, HeldPackets(at), PesBefore(pid, entry))
  BY <1>2, <1>3 DEF PesTo
<1>6. entry \in PesUnits(pid) <=> IsPesOf(input[entry], streams[at])
  BY <1>3, Zenon DEF PesUnits, UnitsOn, IsPesOf
<1>7. PacketsTo(streams'[at].packets, HeldPackets(at), PesBefore(pid, entry + 1))
  <2>1. CASE ReadPes
    <3>1. /\ entry \in PesUnits(pid)
          /\ streams'[at].packets = Append(streams[at].packets, Number(entry))
      BY <1>3, <1>6, <2>1, ReadPesFacts DEF ReadPes
    <3>2. /\ PesBefore(pid, entry + 1) = PesBefore(pid, entry) \cup {entry}
          /\ \A m \in PesBefore(pid, entry) : m \in Nat /\ m < entry
      BY <1>1, <1>3, <3>1, NextPes, Zenon
    <3>3. streams[at].packets \in Seq(Nat \ {0})
      <4>1. streams[at] \in StreamType
        BY <1>1, <1>3, ElementOfSeq DEF TypeOK
      <4> QED BY <4>1 DEF StreamType
    <3>4. Len(HeldPackets(at)) \in Nat
      <4>1. CASE at <= Len(before[3])
        <5>1. before[3] \in Seq(StreamType) /\ at \in 1..Len(before[3])
          BY <1>1, <1>3, <4>1, SaidFacts DEF TypeOK
        <5>2. before[3][at] \in StreamType
          BY <5>1, ElementOfSeq
        <5>3. before[3][at].packets \in Seq(Nat \ {0})
          BY <5>2 DEF StreamType
        <5> QED BY <4>1, <5>3, LenProperties DEF HeldPackets
      <4>2. CASE ~(at <= Len(before[3]))
        BY <4>2, EmptySeq DEF HeldPackets
      <4> QED BY <4>1, <4>2
    <3> HIDE DEF pid
    <3>5. PacketsTo(Append(streams[at].packets, Number(entry)), HeldPackets(at),
                    PesBefore(pid, entry) \cup {entry})
      BY <1>1, <1>3, <1>5, <3>2, <3>3, <3>4, PacketAdded, Zenon
    <3> QED BY <3>1, <3>2, <3>5
  <2>2. CASE SkipUnit
    <3>1. streams' = streams /\ entry \notin PesUnits(pid)
      BY <1>6, <2>2, Zenon DEF SkipUnit
    <3>2. PesBefore(pid, entry + 1) = PesBefore(pid, entry)
      BY <1>1, <1>3, <3>1, NextPes, Zenon
    <3> QED BY <1>5, <3>1, <3>2
  <2> QED BY <2>1, <2>2
<1>8. ASSUME NEW s \in 1..Len(streams)
      PROVE  PacketsTo(streams'[s].packets, HeldPackets(s),
                       PesBefore(streams'[s].pid,
                                 IF s < at THEN Len(input) + 1
                                 ELSE IF s = at THEN entry + 1 ELSE 1))
  <2>1. CASE s = at
    <3>1. ~(s < at) /\ streams'[s].pid = pid
      BY <1>3, <1>4, <2>1
    <3> HIDE DEF pid
    <3> QED BY <1>7, <2>1, <3>1
  <2>2. CASE s # at
    <3>1. PacketsTo(streams[s].packets, HeldPackets(s),
                    PesBefore(streams[s].pid,
                              IF s < at THEN Len(input) + 1 ELSE 1))
      BY <1>2, <2>2 DEF PesTo
    <3>2. streams'[s].packets = streams[s].packets /\ streams'[s].pid = streams[s].pid
      BY <1>4, <2>2
    <3> QED BY <2>2, <3>1, <3>2
  <2> QED BY <2>1, <2>2
<1>9. PesTo(at, entry)'
  <2>1. UNCHANGED <<input, before, given>>
    BY <1>1
  <2> QED BY <1>1, <1>4, <1>8, <2>1, ReadSame DEF PesTo
<1>10. TablesTo(Len(input) + 1)' /\ RowsTo(streams, Held \cup Entries)'
  BY <1>1, PesPhase
<1>11. phase' = "pes"
  BY <1>1
<1> QED BY <1>9, <1>10, <1>11 DEF ProgressInv

LEMMA EndUnitsProgress ==
  ASSUME Inv, ProgressInv, EndUnits
  PROVE  ProgressInv'
<1>1. /\ phase = "pes" /\ TypeOK /\ at <= Len(streams) /\ entry > Len(input)
      /\ UNCHANGED <<program_pid, pcr_pid, streams, input, before, given>>
      /\ phase' = "pes" /\ at' = at + 1 /\ entry' = 1
  BY Zenon DEF EndUnits, Goto, Inv, TypeInv, program
<1>2. /\ at \in Nat /\ entry \in Nat /\ Len(streams) \in Nat
  BY <1>1, SaidFacts
<1>3. PesTo(at, entry)
  BY <1>1, Zenon DEF ProgressInv
<1>4. PesTo(at + 1, 1)
  <2> SUFFICES ASSUME NEW s \in 1..Len(streams)
               PROVE  PacketsTo(streams[s].packets, HeldPackets(s),
                                PesBefore(streams[s].pid,
                                          IF s < at + 1 THEN Len(input) + 1
                                          ELSE IF s = at + 1 THEN 1 ELSE 1))
    BY Zenon DEF PesTo
  <2>1. PacketsTo(streams[s].packets, HeldPackets(s),
                  PesBefore(streams[s].pid,
                            IF s < at THEN Len(input) + 1 ELSE IF s = at THEN entry ELSE 1))
    BY <1>3, Zenon DEF PesTo
  <2>2. PesBefore(streams[s].pid, entry) = PesBefore(streams[s].pid, Len(input) + 1)
    BY <1>1, <1>2, NextPes, Zenon
  <2>3. /\ s < at => s < at + 1
        /\ s = at => ~(s < at) /\ s < at + 1
        /\ ~(s < at) /\ s # at => ~(s < at + 1)
    BY <1>2
  <2> QED BY <2>1, <2>2, <2>3
<1>5. PesTo(at, entry)'
  <2>1. UNCHANGED <<input, before, given>>
    BY <1>1
  <2> QED BY <1>1, <1>4, <2>1, ReadSame DEF PesTo
<1>6. TablesTo(Len(input) + 1)' /\ RowsTo(streams, Held \cup Entries)'
  BY <1>1, PesPhase
<1> QED BY <1>1, <1>5, <1>6 DEF ProgressInv

LEMMA PrefixOf ==
  ASSUME NEW S, NEW p \in Seq(S), NEW q \in Seq(S), Len(p) <= Len(q),
         \A i \in 1..Len(p) : q[i] = p[i]
  PROVE  IsPrefix(p, q)
<1>1. Len(p) \in Nat /\ Len(q) \in Nat
  BY LenProperties
<1>2. /\ SubSeq(q, 1, Len(p)) \in Seq(S) /\ SubSeq(p, 1, Len(p)) \in Seq(S)
      /\ Len(SubSeq(q, 1, Len(p))) = Len(p) /\ Len(SubSeq(p, 1, Len(p))) = Len(p)
      /\ \A i \in 1..Len(p) : SubSeq(q, 1, Len(p))[i] = q[i]
      /\ \A i \in 1..Len(p) : SubSeq(p, 1, Len(p))[i] = p[i]
  BY <1>1, SubSeqProperties
<1>3. SubSeq(p, 1, Len(p)) = SubSeq(q, 1, Len(p))
  BY <1>2, SeqEqual
<1> QED BY <1>3 DEF IsPrefix

LEMMA AllReadLoadable ==
  AllRead => Loadable
<1> SUFFICES ASSUME AllRead PROVE Loadable
  OBVIOUS
<1>1. /\ TypeOK /\ TablesTo(Len(input) + 1) /\ RowsTo(streams, Held \cup Entries)
      /\ program_pid # 0 /\ PmtsTo(pcr_pid, Len(input) + 1)
  BY Zenon DEF AllRead, TablesTo
<1>2. Len(input) + 1 \in Nat /\ Len(input) + 1 > Len(input)
  BY <1>1, SaidFacts
<1>3. /\ Agreed(ProgramPids) /\ AgreedOn(ProgramPids) = program_pid
      /\ \A m \in UnitsOn(0) : input[m].kind \in {"pat", "short"}
  BY <1>1, TablesFacts, Zenon
<1>4. /\ Agreed(PcrPids)
      /\ \A m \in Tables : input[m].kind \in {"pmt", "short"}
  BY <1>1, <1>2, PmtsRead, Zenon
<1>5. \A p \in Entries :
        Agreed(Types(Row(p).pid)) /\ Agreed(Descriptors(Row(p).pid))
  BY <1>1, RowsRead, Zenon
<1> QED BY <1>1, <1>3, <1>4, <1>5, Zenon DEF Loadable

LEMMA PacketsRead ==
  ASSUME TypeOK, NEW s \in 1..Len(streams),
         PacketsTo(streams[s].packets, HeldPackets(s), PesUnits(streams[s].pid))
  PROVE  LET x == streams[s]
             new == (Len(HeldPackets(s)) + 1)..Len(x.packets)
         IN /\ IsPrefix(HeldPackets(s), x.packets)
            /\ {x.packets[i] : i \in new} = {Number(n) : n \in PesUnits(x.pid)}
            /\ \A i, j \in new : i < j => x.packets[i] < x.packets[j]
<1> DEFINE x == streams[s]
           h == HeldPackets(s)
           new == (Len(h) + 1)..Len(x.packets)
<1>1. x.packets \in Seq(Nat \ {0})
  <2>1. x \in StreamType
    BY ElementOfSeq DEF TypeOK
  <2> QED BY <2>1 DEF StreamType
<1>2. h \in Seq(Nat \ {0})
  <2>1. CASE s <= Len(before[3])
    <3>1. before[3] \in Seq(StreamType) /\ s \in 1..Len(before[3])
      BY <2>1, SaidFacts DEF TypeOK
    <3>2. before[3][s] \in StreamType
      BY <3>1, ElementOfSeq
    <3> QED BY <2>1, <3>2 DEF HeldPackets, StreamType
  <2>2. CASE ~(s <= Len(before[3]))
    BY <2>2, EmptySeq DEF HeldPackets
  <2> QED BY <2>1, <2>2
<1> HIDE DEF h
<1>3. PacketsTo(x.packets, h, PesUnits(x.pid))
  BY Zenon DEF h
<1>4. IsPrefix(h, x.packets)
  <2>1. Len(h) <= Len(x.packets) /\ \A i \in 1..Len(h) : x.packets[i] = h[i]
    BY <1>3, Zenon DEF PacketsTo
  <2> QED BY <1>1, <1>2, <2>1, PrefixOf
<1>5. {x.packets[i] : i \in new} = {Number(n) : n \in PesUnits(x.pid)}
  <2>1. /\ \A i \in new : \E n \in PesUnits(x.pid) : x.packets[i] = Number(n)
        /\ \A n \in PesUnits(x.pid) : \E i \in new : x.packets[i] = Number(n)
    BY <1>3, Zenon DEF PacketsTo
  <2> HIDE DEF new, x
  <2> QED BY <2>1
<1>6. \A i, j \in new : i < j => x.packets[i] < x.packets[j]
  BY <1>3, Zenon DEF PacketsTo
<1> QED BY <1>4, <1>5, <1>6, Zenon DEF h

LEMMA AllReadLoaded ==
  AllRead => LoadsWhatTablesSay
<1> SUFFICES ASSUME AllRead PROVE LoadsWhatTablesSay
  OBVIOUS
<1>1. /\ TypeOK /\ TablesTo(Len(input) + 1) /\ RowsTo(streams, Held \cup Entries)
      /\ program_pid # 0 /\ PmtsTo(pcr_pid, Len(input) + 1)
  BY Zenon DEF AllRead, TablesTo
<1>2. Len(input) + 1 \in Nat /\ Len(input) + 1 > Len(input)
  BY <1>1, SaidFacts
<1>3. program_pid = AgreedOn(ProgramPids) /\ pcr_pid = AgreedOn(PcrPids)
  <2>1. AgreedOn(ProgramPids) = program_pid
    BY <1>1, TablesFacts, Zenon
  <2>2. AgreedOn(PcrPids) = pcr_pid
    BY <1>1, <1>2, PmtsRead, Zenon
  <2> QED BY <2>1, <2>2
<1>4. Pids = {Row(p).pid : p \in Held \cup Entries}
  <2>1. /\ \A s \in 1..Len(streams) :
             \E p \in Held \cup Entries : Row(p).pid = streams[s].pid
        /\ \A p \in Held \cup Entries :
             \E s \in 1..Len(streams) : streams[s].pid = Row(p).pid
    BY <1>1, Zenon DEF RowsTo
  <2> DEFINE places == Held \cup Entries
             numbers == 1..Len(streams)
  <2> HIDE DEF places, numbers
  <2>2. {streams[s].pid : s \in numbers} = {Row(p).pid : p \in places}
    <3>1. /\ \A s \in numbers : \E p \in places : Row(p).pid = streams[s].pid
          /\ \A p \in places : \E s \in numbers : streams[s].pid = Row(p).pid
      BY <2>1, Zenon DEF places, numbers
    <3> QED BY <3>1
  <2> QED BY <2>2, Zenon DEF Pids, places, numbers
<1>5. \A r, s \in 1..Len(streams) :
        r < s => \E p \in Rows(streams[r].pid) :
                   \A q \in Rows(streams[s].pid) : Earlier(p, q)
  BY <1>1, Zenon DEF RowsTo
<1>6. ASSUME NEW s \in 1..Len(streams)
      PROVE  LET x == streams[s]
                 held == IF s <= Len(before[3]) THEN before[3][s].packets ELSE <<>>
                 new == (Len(held) + 1)..Len(x.packets)
             IN /\ s <= Len(before[3]) => x.pid = before[3][s].pid
                /\ x.type = AgreedOn(Types(x.pid))
                /\ x.descriptor = AgreedOn(Descriptors(x.pid))
                /\ IsPrefix(held, x.packets)
                /\ {x.packets[i] : i \in new} = {Number(n) : n \in PesUnits(x.pid)}
                /\ \A i, j \in new : i < j => x.packets[i] < x.packets[j]
  <2>1. s <= Len(before[3]) => streams[s].pid = before[3][s].pid
    <3>1. s <= Len(before[3]) => s \in 1..Len(before[3])
      BY <1>1, SaidFacts
    <3> QED BY <1>1, <3>1, Zenon DEF RowsTo
  <2>2. /\ streams[s].type = AgreedOn(Types(streams[s].pid))
        /\ streams[s].descriptor = AgreedOn(Descriptors(streams[s].pid))
    BY <1>1, RowsRead, Zenon
  <2>3. LET x == streams[s]
            new == (Len(HeldPackets(s)) + 1)..Len(x.packets)
        IN /\ IsPrefix(HeldPackets(s), x.packets)
           /\ {x.packets[i] : i \in new} = {Number(n) : n \in PesUnits(x.pid)}
           /\ \A i, j \in new : i < j => x.packets[i] < x.packets[j]
    <3>1. PacketsTo(streams[s].packets, HeldPackets(s), PesUnits(streams[s].pid))
      BY Zenon DEF AllRead
    <3> QED BY <1>1, <3>1, PacketsRead, Zenon
  <2> QED BY <2>1, <2>2, <2>3, Zenon DEF HeldPackets
<1> QED BY <1>3, <1>4, <1>5, <1>6, Zenon DEF LoadsWhatTablesSay

LEMMA EndPesProgress ==
  ASSUME Inv, Inv', ProgressInv, EndPes
  PROVE  ProgressInv'
<1>1. /\ phase = "pes" /\ TypeOK /\ TypeOK' /\ at > Len(streams)
      /\ UNCHANGED <<program_pid, pcr_pid, streams, input, before, given>>
      /\ phase' = "idle" /\ result' = 1
  BY Zenon DEF EndPes, Return, Inv, TypeInv, program
<1>2. PesTo(at, entry)
  BY <1>1, Zenon DEF ProgressInv
<1>3. TablesTo(Len(input) + 1)' /\ RowsTo(streams, Held \cup Entries)'
  BY <1>1, PesPhase
<1>4. ASSUME NEW s \in 1..Len(streams)
      PROVE  PacketsTo(streams[s].packets, HeldPackets(s), PesUnits(streams[s].pid))
  <2>1. s < at
    BY <1>1, SaidFacts
  <2>2. PacketsTo(streams[s].packets, HeldPackets(s),
                  PesBefore(streams[s].pid, Len(input) + 1))
    BY <1>2, <2>1 DEF PesTo
  <2>3. PesBefore(streams[s].pid, Len(input) + 1) = PesUnits(streams[s].pid)
    <3>1. 0 \in Nat
      OBVIOUS
    <3> QED BY <1>1, <3>1, NextPes, Zenon
  <2> QED BY <2>2, <2>3
<1>5. AllRead'
  <2>1. UNCHANGED <<input, before, given>> /\ UNCHANGED <<input, before>>
    BY <1>1
  <2> QED BY <1>1, <1>3, <1>4, <2>1, SaidSame, ReadSame DEF AllRead
<1>6. Loadable'
  BY <1>5, AllReadLoadable, PTL
<1>7. SucceedsIfTablesAgree'
  BY <1>1, <1>6 DEF SucceedsIfTablesAgree
<1> QED BY <1>1, <1>5, <1>7, Zenon DEF ProgressInv

(* Between calls, and when one begins.                                     *)
LEMMA IdleProgress ==
  ASSUME phase' = "idle", result' = 0
  PROVE  ProgressInv'
<1>1. 0 # 1
  OBVIOUS
<1>2. ~(result' = 1) /\ ~(result' # 0)
  BY <1>1
<1>3. SucceedsIfTablesAgree'
  BY <1>2, Zenon DEF SucceedsIfTablesAgree
<1> QED BY <1>2, <1>3, Zenon DEF ProgressInv

LEMMA BeginProgress ==
  ASSUME Inv', NEW us, Begin(us)
  PROVE  ProgressInv'
<1>1. /\ phase' = "pat" /\ at' = 1
      /\ UNCHANGED <<program_pid, pcr_pid, streams>>
      /\ before' = <<program_pid, pcr_pid, streams>>
  BY Zenon DEF Begin, program
<1>2. /\ program_pid' = before'[1] /\ pcr_pid' = before'[2] /\ streams' = before'[3]
  BY <1>1
<1>3. (TypeOK /\ program_pid = before[1])'
  BY <1>2, Zenon DEF Inv, TypeInv
<1>4. PatsTo(program_pid, 1)'
  BY <1>3, FirstPat, PTL
<1>5. PatsTo(program_pid, at)'
  BY <1>1, <1>4
<1> QED BY <1>1, <1>2, <1>5, Zenon DEF ProgressInv

LEMMA SameProgress ==
  ASSUME Inv', ProgressInv, UNCHANGED vars
  PROVE  ProgressInv'
<1>1. /\ UNCHANGED <<program_pid, pcr_pid, streams, input, before, given>>
      /\ UNCHANGED <<phase, at, entry, result>>
  BY Zenon DEF vars, program
<1>2. UNCHANGED <<input, before, given>> /\ UNCHANGED <<input, before>>
  BY <1>1
<1>3. phase = "pat" => PatsTo(program_pid, at)'
  BY <1>1, <1>2, ReadSame DEF ProgressInv
<1>4. /\ phase = "pmt" => TablesTo(at)' /\ RowsTo(streams, Spoken(at, 1))'
  BY <1>1, <1>2, SaidSame, ReadSame DEF ProgressInv, TablesTo
<1>5. phase = "entries" =>
        /\ TablesTo(at + 1)' /\ RowsTo(streams, Spoken(at, entry))'
        /\ (at \in Tables /\ input[at].kind = "pmt")'
  BY <1>1, <1>2, SaidSame, ReadSame DEF ProgressInv, TablesTo
<1>6. phase = "pes" =>
        /\ TablesTo(Len(input) + 1)' /\ RowsTo(streams, Held \cup Entries)'
        /\ PesTo(at, entry)'
  BY <1>1, <1>2, SaidSame, ReadSame DEF ProgressInv, TablesTo, PesTo
<1>7. phase = "idle" => SucceedsIfTablesAgree' /\ (result = 1 => AllRead)'
  <2> SUFFICES ASSUME phase = "idle"
               PROVE  SucceedsIfTablesAgree' /\ (result = 1 => AllRead)'
    OBVIOUS
  <2>1. SucceedsIfTablesAgree /\ (result = 1 => AllRead)
    BY Zenon DEF ProgressInv
  <2>2. SucceedsIfTablesAgree'
    BY <1>1, <1>2, <2>1, ReadSame DEF SucceedsIfTablesAgree
  <2>3. AllRead => AllRead'
    <3>1. TypeOK'
      BY Zenon DEF Inv, TypeInv
    <3> QED BY <1>1, <1>2, <3>1, SaidSame, ReadSame DEF AllRead, TablesTo
  <2> QED BY <1>1, <2>1, <2>2, <2>3
<1> QED BY <1>1, <1>3, <1>4, <1>5, <1>6, <1>7, Zenon DEF ProgressInv

LEMMA ProgressNext ==
  Inv /\ Inv' /\ FailureInv /\ ProgressInv /\ [Next]_vars => ProgressInv'
<1> SUFFICES ASSUME Inv, Inv', FailureInv, ProgressInv, [Next]_vars PROVE ProgressInv'
  OBVIOUS
<1>1. CASE \E us \in BoundedSeq(Units, MaxUnits - given) : Begin(us)
  BY <1>1, BeginProgress, Zenon
<1>2. CASE ReadPat \/ EndPat
  BY <1>2, ReadPatProgress, EndPatProgress, Zenon
<1>3. CASE ReadPmt \/ ReadEntry \/ EndEntries \/ EndPmt
  BY <1>3, ReadPmtProgress, ReadEntryProgress, EndEntriesProgress,
     EndPmtProgress, Zenon
<1>4. CASE ReadPes \/ SkipUnit \/ EndUnits \/ EndPes
  BY <1>4, ReadPesProgress, EndUnitsProgress, EndPesProgress, Zenon
<1>5. CASE \E pid \in CallerPids : Create(pid) \/ Delete(pid)
  <2>1. phase' = "idle" /\ result' = 0
    BY <1>5, Zenon DEF Create, Delete
  <2> QED BY <2>1, IdleProgress, Zenon
<1>6. CASE UNCHANGED vars
  BY <1>6, SameProgress, Zenon
<1> QED BY <1>1, <1>2, <1>3, <1>4, <1>5, <1>6, Zenon DEF Next, Steps

LEMMA ProgressAlways == Spec => [](RunningInv /\ ProgressInv)
<1>1. Init => FailureInv /\ RunningInv /\ ProgressInv
  <2> SUFFICES ASSUME Init PROVE FailureInv /\ RunningInv /\ ProgressInv
    OBVIOUS
  <2>1. phase = "idle" /\ result = 0
    BY Zenon DEF Init
  <2>2. Len(streams) = 0 /\ Len(before[3]) = 0
    BY DEF Init
  <2>3. FailureInv /\ RunningInv
    BY <2>1, <2>2 DEF FailureInv, NothingAttached, RunningInv
  <2>4. ~(result = 1) /\ ~(result # 0)
    BY <2>1
  <2> QED BY <2>1, <2>3, <2>4, Zenon
         DEF ProgressInv, SucceedsIfTablesAgree
<1>2. Spec => Init /\ [][Next]_vars
  BY PTL DEF Spec
<1> QED BY <1>1, <1>2, InvAlways, FailureInvNext, ProgressNext, PTL

(* ts_stream_unpack, ts_stream.c:152-269: a call returns 1 exactly when    *)
(* what its PATs, its PMTs and the program say is agreed on, however many  *)
(* units it is given and whatever calls came before it.                    *)
THEOREM SucceedsIfTablesAgreeAlways == Spec => []SucceedsIfTablesAgree
<1>1. RunningInv /\ ProgressInv => SucceedsIfTablesAgree
  BY DEF RunningInv, ProgressInv, SucceedsIfTablesAgree
<1> QED BY <1>1, ProgressAlways, PTL

(* ts_stream_unpack, ts_stream.c:327-363: after a call that returns 1 the  *)
(* program holds what the tables say, its streams in the order of listing, *)
(* and each stream the PES packets on its PID, each once, in file order.   *)
THEOREM LoadsWhatTablesSayAlways == Spec => []LoadsWhatTablesSay
<1>1. RunningInv /\ ProgressInv => LoadsWhatTablesSay
  <2> SUFFICES ASSUME RunningInv, ProgressInv PROVE LoadsWhatTablesSay
    OBVIOUS
  <2>1. CASE result = 1
    <3>1. phase = "idle"
      BY <2>1 DEF RunningInv
    <3>2. AllRead
      BY <2>1, <3>1, Zenon DEF ProgressInv
    <3> QED BY <3>2, AllReadLoaded, Zenon
  <2>2. CASE ~(result = 1)
    BY <2>2, Zenon DEF LoadsWhatTablesSay
  <2> QED BY <2>1, <2>2
<1> QED BY <1>1, ProgressAlways, PTL

=============================================================================

----------------------------- MODULE StreamPack -----------------------------
(***************************************************************************)
(* ts_stream_pack: a program (its tables and the PES packets of its        *)
(* elementary streams) turned into one list of units: the PAT, the PMT,    *)
(* then the PES packets of all the streams merged by presentation time.    *)
(*                                                                         *)
(* The merge compares the next packet of every stream and takes the least  *)
(* PTS.  A packet without a PTS is never taken, nor is anything behind it; *)
(* the call still succeeds.  A table or a PES packet that cannot be packed *)
(* ends the call with -1, and the units made so far stay in the list.      *)
(***************************************************************************)
EXTENDS Integers, Sequences, FiniteSetsExt

CONSTANTS
  Programs,     \* the programs that may be packed
  MaxSection    \* 1021

(* A PES packet: pts_indicator and pts, the random access indicator, and   *)
(* whether ts_pes_pack_stream finds a length field for it (a packet of     *)
(* 65536 bytes or more has none unless it is video).                       *)
PesType == [timed : BOOLEAN, pts : Nat, rai : BOOLEAN, fits : BOOLEAN]

(* descriptor is ts_pmt_descriptor_size.                                   *)
StreamType == [pid : Nat, descriptor : Nat, packets : Seq(PesType)]

ProgramType ==
  [program_pid : Nat, pcr_pid : Nat, descriptor : Nat, streams : Seq(StreamType)]

ASSUME ProgramsAssumption == Programs \subseteq ProgramType
ASSUME SectionAssumption == MaxSection \in Nat

VARIABLES
  program,        \* the ts_stream, which packing does not change
  phase,          \* the part that runs: "pat", "pmt", "pes", or "done"
  next,           \* for each stream, the packet its iterator is at
  pcr_recorded,   \* whether a unit carries a PCR
  units,          \* the units made
  result          \* what the call returned; 0 while it runs

vars == <<program, phase, next, pcr_recorded, units, result>>

Streams == 1..Len(program.streams)
PacketsOf(i) == program.streams[i].packets
Pes(i, k) == PacketsOf(i)[k]

(* stream and nth say which PES packet the unit's data is; 0 for a table.  *)
PackedUnit ==
  [kind : {"pat", "pmt", "pes"}, pid : Nat, rai : BOOLEAN, pcr : SUBSET Int,
   stream : Nat, nth : Nat]

TypeOK ==
  /\ program \in ProgramType
  /\ phase \in {"pat", "pmt", "pes", "done"}
  /\ next \in [Streams -> Nat \ {0}]
  /\ \A i \in Streams : next[i] <= Len(PacketsOf(i)) + 1
  /\ pcr_recorded \in BOOLEAN
  /\ units \in Seq(PackedUnit)
  /\ result \in {-1, 0, 1}

Init ==
  /\ program \in Programs
  /\ phase = "pat"
  /\ next = [i \in Streams |-> 1]
  /\ pcr_recorded = FALSE
  /\ units = <<>>
  /\ result = 0

-----------------------------------------------------------------------------
Table(kind, pid) ==
  [kind |-> kind, pid |-> pid, rai |-> FALSE, pcr |-> {}, stream |-> 0, nth |-> 0]

Return(n) ==
  /\ phase' = "done"
  /\ result' = n

Fail == Return(-1) /\ UNCHANGED <<program, pcr_recorded, units>>

(* ts_psi_pack_stream: what the PMT takes of its section_length.           *)
SectionOf(p) ==
  9 + 4 + p.descriptor
    + MapThenSumSet(LAMBDA i : 5 + p.streams[i].descriptor, 1..Len(p.streams))

SectionLength == SectionOf(program)

PackPat ==
  /\ phase = "pat"
  /\ program.program_pid # 0
  /\ phase' = "pmt"
  /\ units' = Append(units, Table("pat", 0))
  /\ UNCHANGED <<program, next, pcr_recorded, result>>

(* No program has been set.                                                *)
PackPatFails ==
  /\ phase = "pat"
  /\ program.program_pid = 0
  /\ Fail
  /\ UNCHANGED next

PackPmt ==
  /\ phase = "pmt"
  /\ SectionLength <= MaxSection
  /\ phase' = "pes"
  /\ units' = Append(units, Table("pmt", program.program_pid))
  /\ UNCHANGED <<program, next, pcr_recorded, result>>

\* Fault: the limit itself is refused.
PackPmtFailsEarly ==
  /\ phase = "pmt"
  /\ SectionLength >= MaxSection
  /\ Fail
  /\ UNCHANGED next

PackPmtFails ==
  /\ phase = "pmt"
  /\ SectionLength > MaxSection
  /\ Fail
  /\ UNCHANGED next

-----------------------------------------------------------------------------
\* Fault: pts_indicator is not asked.
ReadyUntimed(i) == next[i] <= Len(PacketsOf(i))

(* The streams whose iterator is at a packet with a PTS, and the one the   *)
(* scan ends with: the first of those with the least PTS.                  *)
Ready(i) == next[i] <= Len(PacketsOf(i)) /\ Pes(i, next[i]).timed

\* Fault: an equal timestamp further on is preferred.
LeastLast(i) ==
  /\ Ready(i)
  /\ \A j \in Streams : Ready(j) =>
       IF j > i THEN Pes(i, next[i]).pts < Pes(j, next[j]).pts
                ELSE Pes(i, next[i]).pts <= Pes(j, next[j]).pts

Least(i) ==
  /\ Ready(i)
  /\ \A j \in Streams : Ready(j) =>
       IF j < i THEN Pes(i, next[i]).pts < Pes(j, next[j]).pts
                ELSE Pes(i, next[i]).pts <= Pes(j, next[j]).pts

\* Fault: every unit of the PCR PID gets one.
CarriesPcrAlways(i) == program.pcr_pid = program.streams[i].pid

CarriesPcr(i) == program.pcr_pid = program.streams[i].pid /\ ~pcr_recorded

PesUnit(i) ==
  LET p == Pes(i, next[i]) IN
    [kind |-> "pes", pid |-> program.streams[i].pid, rai |-> p.rai,
     pcr |-> IF CarriesPcr(i) THEN {p.pts * 300} ELSE {},
     stream |-> i, nth |-> next[i]]

\* Fault: two packets on.
AdvanceTwice(i) ==
  /\ next' = [next EXCEPT ![i] = @ + 2]
  /\ pcr_recorded' = (pcr_recorded \/ CarriesPcr(i))

\* Fault: the first iterator moves, not the chosen one.
AdvanceFirst(i) ==
  /\ next' = [next EXCEPT ![1] = @ + 1]
  /\ pcr_recorded' = (pcr_recorded \/ CarriesPcr(i))

Advance(i) ==
  /\ next' = [next EXCEPT ![i] = @ + 1]
  /\ pcr_recorded' = (pcr_recorded \/ CarriesPcr(i))

PackPes(i) ==
  /\ phase = "pes"
  /\ Least(i)
  /\ Pes(i, next[i]).fits
  /\ units' = Append(units, PesUnit(i))
  /\ Advance(i)
  /\ UNCHANGED <<program, phase, result>>

(* ts_pes_pack_buffer fails: the iterator has moved on, and the unit that  *)
(* was to hold the packet is gone.                                         *)
PackPesFails(i) ==
  /\ phase = "pes"
  /\ Least(i)
  /\ ~Pes(i, next[i]).fits
  /\ Return(-1)
  /\ Advance(i)
  /\ UNCHANGED <<program, units>>

PackEnds ==
  /\ phase = "pes"
  /\ \A i \in Streams : ~Ready(i)
  /\ Return(1)
  /\ UNCHANGED <<program, next, pcr_recorded, units>>

Next ==
  \/ PackPat \/ PackPatFails \/ PackPmt \/ PackPmtFails
  \/ \E i \in Streams : PackPes(i) \/ PackPesFails(i)
  \/ PackEnds

Spec == Init /\ [][Next]_vars

-----------------------------------------------------------------------------
IsPes(a) == units[a].kind = "pes"

(* The units of stream i, as positions in the list.                        *)
UnitsOf(i) == {a \in 1..Len(units) : IsPes(a) /\ units[a].stream = i}

(* ts_stream_pack, ts_stream.c:377-387: the tables come first, one each,   *)
(* and every other unit is a PES packet under the PID of its stream.       *)
(* ts_stream_pack_pes, ts_stream.c:298-300: the units of a stream are its  *)
(* packets from the first, in the stream's own (decoding) order, none left *)
(* out and none twice, whatever their timestamps.                          *)
StreamsKeepOrder ==
  /\ \A a \in 1..Len(units) : units[a].kind = "pat" <=> a = 1
  /\ \A a \in 1..Len(units) : units[a].kind = "pmt" <=> a = 2
  /\ \A i \in Streams : \A a \in UnitsOf(i) :
       /\ units[a].pid = program.streams[i].pid
       /\ units[a].nth = Cardinality({b \in UnitsOf(i) : b <= a})
       /\ units[a].nth < next[i]
       /\ units[a].rai = Pes(i, units[a].nth).rai

(* Packet k of stream i goes before packet l of stream j: some packet of j *)
(* up to l is later than every packet of i up to k, or as late when i is   *)
(* the earlier stream of the program.                                      *)
Precedes(i, k, j, l) ==
  \E q \in 1..l : \A p \in 1..k :
    IF i < j THEN Pes(i, p).pts <= Pes(j, q).pts
             ELSE Pes(i, p).pts < Pes(j, q).pts

(* ts_stream_pack_pes, ts_stream.c:291-300.  The merge orders the packets  *)
(* of different streams by the latest timestamp seen so far on their own   *)
(* stream, ties by the streams' order: timestamp order when every stream   *)
(* is in timestamp order, and with reordered frames (B frames) no packet   *)
(* of another stream is held behind a timestamp that is not yet due.       *)
MergedByTime ==
  \A a, b \in 1..Len(units) :
    a < b /\ IsPes(a) /\ IsPes(b) /\ units[a].stream # units[b].stream =>
      Precedes(units[a].stream, units[a].nth, units[b].stream, units[b].nth)

Stuck(i, k) == \E l \in 1..k : ~Pes(i, l).timed

(* ts_stream_pack_pes, ts_stream.c:292-296 and 324.  When the call         *)
(* returns 1, the packets that are not in the list are those at or behind  *)
(* a packet with no PTS on their own stream; the other streams lose none.  *)
LostOnlyBehindUntimed ==
  result = 1 =>
    \A i \in Streams : \A k \in 1..Len(PacketsOf(i)) :
      (\E a \in UnitsOf(i) : units[a].nth = k) <=> ~Stuck(i, k)

(* ts_stream_pack, ts_stream.c:125, 205 and 313.  It returns -1 only for a *)
(* program with no PID, an oversized PMT, or an oversized PES packet that  *)
(* is the next one of its stream after those in the list.  And it returns  *)
(* 1 only when there is none of these, but for an oversized packet behind  *)
(* one with no PTS, which is not looked at.                                *)
FailsForCause ==
  /\ result = -1 =>
       \/ program.program_pid = 0 /\ units = <<>>
       \/ SectionLength > MaxSection /\ Len(units) = 1
       \/ \E i \in Streams :
            LET k == Cardinality(UnitsOf(i)) + 1 IN
              k <= Len(PacketsOf(i)) /\ ~Pes(i, k).fits /\ ~Stuck(i, k)
  /\ result = 1 =>
       /\ program.program_pid # 0 /\ SectionLength <= MaxSection
       /\ \A i \in Streams : \A k \in 1..Len(PacketsOf(i)) :
            Pes(i, k).fits \/ Stuck(i, k)

Carriers == {a \in 1..Len(units) : units[a].pcr # {}}

(* ts_stream_pack_pes, ts_stream.c:306-311.  The list has one PCR as soon  *)
(* as it has a unit of the PCR PID: on the first of them, and it is that   *)
(* packet's own timestamp in 27 MHz units.                                 *)
OnePcr ==
  LET clocked == {a \in 1..Len(units) :
                    IsPes(a) /\ units[a].pid = program.pcr_pid} IN
    /\ Carriers = {a \in clocked : \A b \in clocked : a <= b}
    /\ \A a \in Carriers :
         units[a].pcr = {Pes(units[a].stream, units[a].nth).pts * 300}

=============================================================================

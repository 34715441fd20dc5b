------------------------------- MODULE Remux -------------------------------
(***************************************************************************)
(* Units packed into packets, sent, and taken apart again: ts_units_pack   *)
(* on one side, ts_units_unpack on the other, and between them a channel   *)
(* (a multiplexer, a network, a truncated file) that may interleave the    *)
(* PIDs in any way, and lose or repeat a packet.  libts neither reads the  *)
(* continuity counter nor the error indicator on input, so every fault     *)
(* reaches ts_units_unpack as it is.                                       *)
(***************************************************************************)
EXTENDS UnitPack, SequencesExt

CONSTANTS
  MaxFaults,      \* bound: packets lost or repeated
  ReceiveBound    \* bound: packets that reach the receiver

ASSUME RemuxAssumption == MaxFaults \in Nat /\ ReceiveBound \in Nat

VARIABLES
  got, incomplete, calls, calling, fed, opened,   \* the receiver's Units
  sent,      \* for each PID, the position of its latest packet sent
  source,    \* history: the packet each packet fed is a copy of
  lost,      \* history: the packets lost
  repeated   \* history: the packets sent twice

receiver == <<got, incomplete, calls, calling, fed, opened>>
channel == <<sent, source, lost, repeated>>

Pids == {u.pid : u \in Units}

(* The part of a packet that ts_units_unpack reads, after ts_packet_pack   *)
(* and ts_packet_unpack.  The PCR stands for what comes back of the clock  *)
(* (PcrSurvives of Pes; ts_pcr.c:29): no property reads its value.         *)
OnWire(p) ==
  [pid |-> p.pid, start |-> p.start, rai |-> p.rai, pcr |-> p.pcr,
   size |-> p.size]

R == INSTANCE Units WITH
       Packets <- [pid : Pids, start : BOOLEAN, rai : BOOLEAN,
                   pcr : {u.pcr : u \in Units} \cup {{}}, size : 1..PacketSize],
       MaxPackets <- ReceiveBound, MaxCalls <- 1, units <- got

RemuxInit ==
  /\ Init
  /\ R!Init
  /\ sent = [pid \in Pids |-> 0]
  /\ source = <<>>
  /\ lost = {}
  /\ repeated = {}

Pack == Next /\ UNCHANGED receiver /\ UNCHANGED channel

Begin ==
  /\ Packed
  /\ R!BeginUnpack
  /\ UNCHANGED vars /\ UNCHANGED channel

(* The packets of the PID after the latest sent; the next one is the least.*)
Waiting(pid) ==
  {i \in (sent[pid] + 1)..Len(packets) : packets[i].pid = pid}

IsNext(i, pid) == i \in Waiting(pid) /\ \A j \in Waiting(pid) : i <= j

Receive(i) ==
  LET p == OnWire(packets[i]) IN
    /\ R!OpenUnit(p) \/ R!ExtendUnit(p) \/ R!DropPacket(p)
    /\ source' = Append(source, i)

Deliver ==
  \E pid \in Pids : \E i \in Waiting(pid) :
    /\ calling
    /\ IsNext(i, pid)
    /\ Receive(i)
    /\ sent' = [sent EXCEPT ![pid] = i]
    /\ UNCHANGED vars /\ UNCHANGED <<lost, repeated>>

Faults == Cardinality(lost) + Cardinality(repeated)

Lose ==
  \E pid \in Pids : \E i \in Waiting(pid) :
    /\ calling
    /\ Faults < MaxFaults
    /\ IsNext(i, pid)
    /\ sent' = [sent EXCEPT ![pid] = i]
    /\ lost' = lost \cup {i}
    /\ UNCHANGED vars /\ UNCHANGED receiver /\ UNCHANGED <<source, repeated>>

(* The packet that was sent last on its PID arrives once more.             *)
Repeat ==
  \E pid \in Pids :
    LET i == sent[pid] IN
      /\ calling
      /\ Faults < MaxFaults
      /\ i # 0
      /\ i \notin lost
      /\ Receive(i)
      /\ repeated' = repeated \cup {i}
      /\ UNCHANGED vars /\ UNCHANGED <<sent, lost>>

Drained == \A pid \in Pids : Waiting(pid) = {}

Finish ==
  /\ Drained
  /\ R!EndUnpack
  /\ UNCHANGED vars /\ UNCHANGED channel

RemuxNext == Pack \/ Begin \/ Deliver \/ Lose \/ Repeat \/ Finish

remuxVars == <<vars, receiver, channel>>

RemuxSpec == RemuxInit /\ [][RemuxNext]_remuxVars

-----------------------------------------------------------------------------
Received == calls = 1 /\ ~calling

(* The sent packets a unit received is made of.                            *)
Pieces(g) == [a \in 1..Len(g.data) |-> packets[source[g.data[a]]]]

(* Unit k of the sender arrived whole as g.                                *)
IsCopy(g, k) ==
  LET u == queue[k]
      s == Pieces(g)
  IN /\ g.pid = u.pid /\ g.rai = u.rai /\ g.pcr = u.pcr
     /\ \A a \in 1..Len(s) : s[a].unit = k
     /\ s[1].from = 0
     /\ \A a \in 1..(Len(s) - 1) : s[a + 1].from = s[a].from + s[a].size
     /\ s[Len(s)].from + s[Len(s)].size = u.size

(* The unit of the sender whose first packet opened g.                     *)
Origin(g) == Pieces(g)[1].unit

(* The units of a PID arrived: each unit received is one of those that     *)
(* have data, whole, they are in the order sent, and none is missing.      *)
AllArrived(pid) ==
  LET ours == {k \in 1..Len(queue) : queue[k].pid = pid /\ queue[k].size > 0}
      theirs == {g \in 1..Len(got) : got[g].pid = pid}
  IN /\ \A g \in theirs :
          Origin(got[g]) \in ours /\ IsCopy(got[g], Origin(got[g]))
     /\ \A g, h \in theirs : g < h => Origin(got[g]) < Origin(got[h])
     /\ \A k \in ours : \E g \in theirs : Origin(got[g]) = k

(* ts_units_pack then ts_units_unpack, however the PIDs are interleaved:   *)
(* with no fault the receiver has, on every PID, the sender's units with   *)
(* data in order, each whole.  A unit with no data is the one thing lost.  *)
RoundTrip ==
  Received /\ lost \cup repeated = {} => \A pid \in Pids : AllArrived(pid)

(* ts_units_unpack reads no continuity counter (ts_units.c:64-95).  What   *)
(* survives lost and repeated packets: a unit begins with the first packet *)
(* of a unit sent, and holds bytes of another one only when a start was    *)
(* lost in between.                                                        *)
GluedOnlyByLostStart ==
  \A g \in 1..Len(got) :
    LET s == Pieces(got[g]) IN
      /\ Len(s) > 0 /\ s[1].start
      /\ \A a \in 1..Len(s) :
           s[a].unit # s[1].unit =>
             \E i \in lost : packets[i].unit = s[a].unit /\ packets[i].start

(* ts_units_unpack: a fault on one PID leaves the units of the others as   *)
(* they were sent.                                                         *)
FaultsStayOnTheirPid ==
  Received =>
    \A pid \in Pids :
      (\A i \in lost \cup repeated : packets[i].pid # pid) => AllArrived(pid)

=============================================================================

------------------------------- MODULE Units -------------------------------
(***************************************************************************)
(* ts_units_unpack: the demultiplexer that turns the packets of a          *)
(* transport stream, in file order and with the PIDs interleaved, into     *)
(* units (one PES packet or one PSI table each).                           *)
(*                                                                         *)
(* A call walks the packets once and keeps a local list `incomplete' of    *)
(* pointers to the units still open, at most one of them for a PID.  A     *)
(* packet that starts a unit closes the open unit of its PID, any other    *)
(* packet adds its payload to it, and is dropped when there is none.  The  *)
(* list dies with the call: a second call on the same ts_units, for a      *)
(* second chunk of packets, starts with no unit open.                      *)
(***************************************************************************)
EXTENDS Naturals, Sequences, SequencesExt

CONSTANTS
  Packets,      \* the packets the input may hold
  MaxPackets,   \* bound: packets fed over all calls
  MaxCalls      \* bound: calls of ts_units_unpack on the same units

(* What the demultiplexer reads of a packet.  pcr holds the PCR, and is    *)
(* empty when pcr_flag is clear; size is payload_size.                     *)
PacketType ==
  [pid : Nat, start : BOOLEAN, rai : BOOLEAN, pcr : SUBSET Nat,
   size : Nat]

ASSUME PacketsAssumption == Packets \subseteq PacketType
ASSUME BoundsAssumption == MaxPackets \in Nat /\ MaxCalls \in Nat

VARIABLES
  units,        \* units->list; data is the numbers of the packets whose
                \* payload the unit's buffer holds, in buffer order
  incomplete,   \* the local list: positions in units, in list order
  calls,        \* number of calls so far
  calling,      \* whether a call is running
  fed,          \* history: every packet fed, with the call that was fed it
  opened        \* history: the number of the packet that opened each unit

vars == <<units, incomplete, calls, calling, fed, opened>>

UnitType ==
  [pid : Nat, rai : BOOLEAN, pcr : SUBSET Nat, data : Seq(Nat \ {0})]

TypeOK ==
  /\ units \in Seq(UnitType)
  /\ incomplete \in Seq(Nat \ {0})
  /\ calls \in Nat
  /\ calling \in BOOLEAN
  /\ fed \in Seq([packet : Packets, call : Nat])
  /\ opened \in Seq(Nat \ {0})

Init ==
  /\ units = <<>>
  /\ incomplete = <<>>
  /\ calls = 0
  /\ calling = FALSE
  /\ fed = <<>>
  /\ opened = <<>>

-----------------------------------------------------------------------------
(* The positions of `incomplete' whose unit has this PID, and the one the  *)
(* scan ends with: the loop has no break, so it is the last.               *)
\* Fault: the PIDs are not compared.
MatchesAnyOpen(pid) == 1..Len(incomplete)

Matches(pid) == {i \in 1..Len(incomplete) : units[incomplete[i]].pid = pid}

\* Fault: the scan keeps the head of the list.
FoundHead(pid) == 1

Found(pid) == CHOOSE i \in Matches(pid) : \A j \in Matches(pid) : j <= i

(* ts_unit_unpack: what the payload of packet n adds to a unit's buffer.   *)
Payload(p, n) == IF p.size = 0 THEN <<>> ELSE <<n>>

\* Fault: u_found is not set to the new unit.
NewUnitEmpty(p, n) ==
  [pid |-> p.pid, rai |-> p.rai, pcr |-> p.pcr, data |-> <<>>]

(* ts_unit_construct, and the copy of the packet's PCR.                    *)
NewUnit(p, n) ==
  [pid |-> p.pid, rai |-> p.rai, pcr |-> p.pcr, data |-> Payload(p, n)]

\* Fault: the closed unit is not erased.
ReopenKeeping(pid) == Append(incomplete, Len(units) + 1)

\* Fault: the position before the new unit's.
ReopenBefore(pid) == Append(incomplete, Len(units))

(* list_erase of the closed unit, list_push_back of the new one.           *)
Reopen(pid) ==
  Append(IF Matches(pid) = {} THEN incomplete
                              ELSE RemoveAt(incomplete, Found(pid)),
         Len(units) + 1)

Feed(p) ==
  /\ calling
  /\ Len(fed) < MaxPackets
  /\ fed' = Append(fed, [packet |-> p, call |-> calls])
  /\ UNCHANGED <<calls, calling>>

-----------------------------------------------------------------------------
BeginUnpack ==
  /\ ~calling
  /\ calls < MaxCalls
  /\ calling' = TRUE
  /\ calls' = calls + 1
  /\ incomplete' = <<>>
  /\ UNCHANGED <<units, fed, opened>>

\* Fault: the new unit goes to the front of units->list.
OpenUnitInFront(p) ==
  /\ p.start
  /\ Feed(p)
  /\ units' = <<NewUnit(p, Len(fed) + 1)>> \o units
  /\ incomplete' = Reopen(p.pid)
  /\ opened' = <<Len(fed) + 1>> \o opened

(* payload_unit_start_indicator is set.                                    *)
OpenUnit(p) ==
  /\ p.start
  /\ Feed(p)
  /\ units' = Append(units, NewUnit(p, Len(fed) + 1))
  /\ incomplete' = Reopen(p.pid)
  /\ opened' = Append(opened, Len(fed) + 1)

(* It is clear, and a unit of the PID is open.                             *)
ExtendUnit(p) ==
  /\ ~p.start
  /\ Matches(p.pid) # {}
  /\ Feed(p)
  /\ LET k == incomplete[Found(p.pid)] IN
       units' = [units EXCEPT ![k].data = @ \o Payload(p, Len(fed) + 1)]
  /\ UNCHANGED <<incomplete, opened>>

(* It is clear, and no unit of the PID is open: u_found stays NULL.        *)
DropPacket(p) ==
  /\ ~p.start
  /\ Matches(p.pid) = {}
  /\ Feed(p)
  /\ UNCHANGED <<units, incomplete, opened>>

\* Fault: the list outlives the call.
EndUnpackOpen ==
  /\ calling
  /\ calling' = FALSE
  /\ UNCHANGED <<units, incomplete, calls, fed, opened>>

(* list_destruct of the local list, with no release function: the units    *)
(* stay in units->list.                                                    *)
EndUnpack ==
  /\ calling
  /\ calling' = FALSE
  /\ incomplete' = <<>>
  /\ UNCHANGED <<units, calls, fed, opened>>

Next ==
  \/ BeginUnpack
  \/ \E p \in Packets : OpenUnit(p) \/ ExtendUnit(p) \/ DropPacket(p)
  \/ EndUnpack

Spec == Init /\ [][Next]_vars

-----------------------------------------------------------------------------
(* Invariants, in terms of the packets fed.                                *)
Packet(n) == fed[n].packet

SameFlow(m, n) ==
  /\ Packet(m).pid = Packet(n).pid
  /\ fed[m].call = fed[n].call

(* A packet of n's flow that starts a unit.                                *)
Starts(m, n) == SameFlow(m, n) /\ Packet(m).start

(* Packet n and the packets of its flow up to the next one that starts.    *)
Run(n) ==
  {i \in n..Len(fed) : SameFlow(i, n) /\ \A j \in (n + 1)..i : ~Starts(j, n)}

Held(k) == {units[k].data[a] : a \in 1..Len(units[k].data)}

(* ts_units_unpack, ts_units.c:66-94.  The data of every unit is the       *)
(* payloads of its own PID from the packet that opened it to the next      *)
(* start of that PID in the same call: all of them, in file order, each    *)
(* once and nothing else, and its flags are those of the opening packet.   *)
UnitsAreRuns ==
  \A k \in 1..Len(units) :
    LET n == opened[k]
        d == units[k].data
    IN /\ n \in 1..Len(fed)
       /\ Packet(n).start
       /\ units[k].pid = Packet(n).pid
       /\ units[k].rai = Packet(n).rai
       /\ units[k].pcr = Packet(n).pcr
       /\ Held(k) = {i \in Run(n) : Packet(i).size # 0}
       /\ \A a, b \in 1..Len(d) : a < b => d[a] < d[b]

(* ts_units_unpack, ts_units.c:71-94.  A payload is lost exactly when no   *)
(* packet of its PID started a unit before it in the same call, and no     *)
(* payload is in two units.                                                *)
PlacedOnce ==
  \A i \in 1..Len(fed) : Packet(i).size # 0 =>
    LET holders == {k \in 1..Len(units) : i \in Held(k)} IN
      /\ (holders # {}) <=> (\E n \in 1..i : Starts(n, i))
      /\ \A k, l \in holders : k = l

(* ts_units_unpack, ts_units.c:88.  units->list is in the order in which   *)
(* the units start in the file, and every start in the file has its unit.  *)
OpenedInOrder ==
  /\ Len(opened) = Len(units)
  /\ \A k, l \in 1..Len(units) : k < l => opened[k] < opened[l]
  /\ \A n \in 1..Len(fed) :
       Packet(n).start => \E k \in 1..Len(units) : opened[k] = n

(* ts_units_unpack, ts_units.c:67-77.  The list of open units holds at     *)
(* most one unit of a PID, so the scan's last match is its only one, and   *)
(* it is the latest unit of the PID.                                       *)
OneOpenPerPid ==
  \A i, j \in 1..Len(incomplete) :
    LET k == incomplete[i]
        l == incomplete[j]
    IN /\ k \in 1..Len(units)
       /\ units[k].pid = units[l].pid => i = j
       /\ \A m \in (k + 1)..Len(units) : units[m].pid # units[k].pid

-----------------------------------------------------------------------------
(* The refinement: the flow of a PID is the units of the PID, open those   *)
(* in `incomplete'.                                                        *)
IsOpen(k) == \E i \in 1..Len(incomplete) : incomplete[i] = k

Entry(k) ==
  [from |-> opened[k], rai |-> units[k].rai, pcr |-> units[k].pcr,
   data |-> units[k].data]

FlowOf(pid) ==
  [closed |-> {Entry(k) : k \in {l \in 1..Len(units) :
                                   units[l].pid = pid /\ ~IsOpen(l)}},
   open   |-> {Entry(k) : k \in {l \in 1..Len(units) :
                                   units[l].pid = pid /\ IsOpen(l)}}]

F == INSTANCE Flows WITH
       flows <- [pid \in {p.pid : p \in Packets} |-> FlowOf(pid)],
       seen  <- Len(fed)

(* The linear list of open units implements one reassembler per PID.       *)
ImplementsFlows == F!Spec

=============================================================================

----------------------------- MODULE Continuity -----------------------------
(***************************************************************************)
(* ts_packets: lists of packets, and the continuity counters their packets *)
(* get when a list is written.                                             *)
(*                                                                         *)
(* The counters belong to the list and live as long as it: writing it      *)
(* again, or after packets of another list were appended, goes on from     *)
(* where the last write stopped.  Whether a packet counts is read from its *)
(* payload bit before ts_packet_pack corrects that bit, so a packet with   *)
(* the bit but no payload counts the first time it is written and not      *)
(* afterwards.                                                             *)
(***************************************************************************)
EXTENDS Naturals, Sequences, FiniteSets

CONSTANTS
  Lists,        \* the ts_packets objects
  Pids,
  Modulus,      \* 16: continuity_counter has 4 bits
  MaxPackets,   \* bound: packets made
  MaxWrites     \* bound: packets written

ASSUME ContinuityAssumption ==
  /\ Modulus \in Nat \ {0}
  /\ MaxPackets \in Nat /\ MaxWrites \in Nat

VARIABLES
  packet,     \* the packets made: pid, bit (adaptation_field_control & 1),
              \* payload (payload_size is not 0) and cc
  list,       \* for each object, its list of packets
  counters,   \* for each object, its vector of counters
  at,         \* for each object, the packet ts_packets_pack is at; 0: idle
  wire        \* history: what was written, by which object, and whether the
              \* packet counted

vars == <<packet, list, counters, at, wire>>

PacketType == [pid : Pids, bit : BOOLEAN, payload : BOOLEAN, cc : 0..(Modulus - 1)]

Counter == [pid : Pids, value : Nat]

WireType ==
  [by : Lists, pid : Pids, payload : BOOLEAN, cc : 0..(Modulus - 1),
   counted : BOOLEAN, packet : Nat]

TypeOK ==
  /\ packet \in Seq(PacketType)
  /\ list \in [Lists -> Seq(1..Len(packet))]
  /\ counters \in [Lists -> Seq(Counter)]
  /\ at \in [Lists -> Nat]
  /\ wire \in Seq(WireType)

Init ==
  /\ packet = <<>>
  /\ list = [o \in Lists |-> <<>>]
  /\ counters = [o \in Lists |-> <<>>]
  /\ at = [o \in Lists |-> 0]
  /\ wire = <<>>

(* One thread: nothing happens to the lists while one of them is written.  *)
Idle == \A o \in Lists : at[o] = 0

-----------------------------------------------------------------------------
(* A packet from ts_unit_pack has a payload and the bit; one read from a   *)
(* file by ts_packet_unpack has a payload only if it has the bit, and none *)
(* when its adaptation field takes all of the 183 bytes.                   *)
Add(o, pid, bit, payload) ==
  /\ Idle
  /\ Len(packet) < MaxPackets
  /\ payload => bit
  /\ packet' = Append(packet, [pid |-> pid, bit |-> bit, payload |-> payload, cc |-> 0])
  /\ list' = [list EXCEPT ![o] = Append(@, Len(packet) + 1)]
  /\ UNCHANGED <<counters, at, wire>>

(* ts_packets_append: the packets move.                                    *)
Move(to, from) ==
  /\ Idle
  /\ to # from
  /\ list' = [list EXCEPT ![to] = @ \o list[from], ![from] = <<>>]
  /\ UNCHANGED <<packet, counters, at, wire>>

\* Fault: the bit is kept as it is.
CorrectedNot(p) == p.bit

(* ts_packet_pack: the bit says whether there is a payload.                *)
Corrected(p) == p.payload

(* ts_packet_debug packs the packet to count its bytes, and so corrects    *)
(* its bit.                                                                *)
Debug(n) ==
  /\ Idle
  /\ packet' = [packet EXCEPT ![n].bit = Corrected(packet[n])]
  /\ UNCHANGED <<list, counters, at, wire>>

-----------------------------------------------------------------------------
\* Fault: counters start again with every write.
BeginPackAfresh(o) ==
  /\ Idle
  /\ list[o] # <<>>
  /\ Len(wire) + Len(list[o]) <= MaxWrites
  /\ at' = [at EXCEPT ![o] = 1]
  /\ counters' = [counters EXCEPT ![o] = <<>>]
  /\ UNCHANGED <<packet, list, wire>>

BeginPack(o) ==
  /\ Idle
  /\ list[o] # <<>>
  /\ Len(wire) + Len(list[o]) <= MaxWrites
  /\ at' = [at EXCEPT ![o] = 1]
  /\ UNCHANGED <<packet, list, counters, wire>>

(* ts_packets_lookup_counter: the first counter of the PID, or a new one   *)
(* at the end of the vector.                                               *)
Having(o, pid) == {c \in 1..Len(counters[o]) : counters[o][c].pid = pid}

\* Fault: the counter is added without being looked for.
LookedAlways(o, pid) == Append(counters[o], [pid |-> pid, value |-> 0])

Looked(o, pid) ==
  IF Having(o, pid) # {} THEN counters[o]
                         ELSE Append(counters[o], [pid |-> pid, value |-> 0])

Place(o, pid) ==
  IF Having(o, pid) = {} THEN Len(counters[o]) + 1
    ELSE CHOOSE c \in Having(o, pid) : \A d \in Having(o, pid) : c <= d

(* What a counter leaves in continuity_counter.                            *)
InField(value) == value % Modulus

(* One turn of the loop of ts_packets_pack, with ts_packet_pack.           *)
PackOne(o) ==
  /\ at[o] \in 1..Len(list[o])
  /\ LET n == list[o][at[o]]
         p == packet[n]
         c == Place(o, p.pid)
         value == Looked(o, p.pid)[c].value
         cc == InField(value)
     IN /\ counters' = [counters EXCEPT ![o] =
                          [Looked(o, p.pid) EXCEPT ![c].value =
                             IF p.bit THEN @ + 1 ELSE @]]
        /\ packet' = [packet EXCEPT ![n].cc = cc, ![n].bit = Corrected(p)]
        /\ wire' = Append(wire, [by |-> o, pid |-> p.pid, payload |-> p.payload,
                                 cc |-> cc, counted |-> p.bit, packet |-> n])
  /\ at' = [at EXCEPT ![o] = @ + 1]
  /\ UNCHANGED list

EndPack(o) ==
  /\ at[o] > Len(list[o])
  /\ at' = [at EXCEPT ![o] = 0]
  /\ UNCHANGED <<packet, list, counters, wire>>

Next ==
  \/ \E o \in Lists, pid \in Pids, bit, payload \in BOOLEAN : Add(o, pid, bit, payload)
  \/ \E to, from \in Lists : Move(to, from)
  \/ \E n \in 1..Len(packet) : Debug(n)
  \/ \E o \in Lists : BeginPack(o) \/ PackOne(o) \/ EndPack(o)

Spec == Init /\ [][Next]_vars

-----------------------------------------------------------------------------
(* What object o wrote of a PID before the w-th packet of the wire.        *)
Written(o, pid, w) ==
  {v \in 1..(w - 1) : wire[v].by = o /\ wire[v].pid = pid}

(* ts_packets_pack, ts_packets.c:111-114.  On what a list writes, over all *)
(* its writes and whatever was appended in between, the payload packets of *)
(* a PID are numbered one after the other, modulo 16: a decoder sees no    *)
(* loss, except where a packet with the payload bit and no payload was     *)
(* written for the first time.                                             *)
PayloadsNumbered ==
  \A w \in 1..Len(wire) : wire[w].payload =>
    LET past == Written(wire[w].by, wire[w].pid, w)
        payloads == {v \in past : wire[v].payload}
        gaps == {v \in past : wire[v].counted /\ ~wire[v].payload}
    IN /\ wire[w].counted
       /\ wire[w].cc = (Cardinality(payloads) + Cardinality(gaps)) % Modulus

(* ts_packets_pack, ts_packets.c:113 and ts_packet.c:35-38: a packet makes *)
(* such a gap at most once, however often and by whichever list it is      *)
(* written.                                                                *)
GapsOnce ==
  \A v, w \in 1..Len(wire) :
    /\ v < w
    /\ wire[v].packet = wire[w].packet
    /\ ~wire[v].payload
    => ~wire[w].counted

(* ts_packets_lookup_counter, ts_packets.c:63-75: one counter for a PID in *)
(* an object, at the number of packets that counted.                       *)
CountersInStep ==
  \A o \in Lists :
    /\ \A c, d \in 1..Len(counters[o]) :
         counters[o][c].pid = counters[o][d].pid => c = d
    /\ \A c \in 1..Len(counters[o]) :
         counters[o][c].value =
           Cardinality({v \in Written(o, counters[o][c].pid, Len(wire) + 1) :
                          wire[v].counted})

=============================================================================

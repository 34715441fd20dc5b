------------------------------- MODULE Flows -------------------------------
(***************************************************************************)
(* What the demultiplexer promises (ts_units_unpack): every PID is         *)
(* reassembled on its own.  The packets of one PID pass through their own  *)
(* flow, whatever the packets of the other PIDs between them are, and a    *)
(* flow has at most one unit open, never across two calls.                 *)
(***************************************************************************)
EXTENDS Naturals, Sequences

CONSTANT Packets      \* records with pid, start, rai, pcr and size

VARIABLES
  flows,    \* for each PID its closed units and its open one (a set of at
            \* most one), each with the number of the packet it started at
  seen,     \* packets fed so far
  calling   \* whether a call is running

vars == <<flows, seen, calling>>

Pids == {p.pid : p \in Packets}

EmptyFlow == [closed |-> {}, open |-> {}]

Init ==
  /\ flows = [pid \in Pids |-> EmptyFlow]
  /\ seen = 0
  /\ calling = FALSE

Added(p) == IF p.size = 0 THEN <<>> ELSE <<seen + 1>>

Started(p) ==
  [from |-> seen + 1, rai |-> p.rai, pcr |-> p.pcr, data |-> Added(p)]

Extended(u, p) == [u EXCEPT !.data = @ \o Added(p)]

Close(flow) == [closed |-> flow.closed \cup flow.open, open |-> {}]

Begin ==
  /\ ~calling
  /\ calling' = TRUE
  /\ UNCHANGED <<flows, seen>>

Feed(p) ==
  /\ calling
  /\ seen' = seen + 1
  /\ flows' = [flows EXCEPT ![p.pid] =
       IF p.start
         THEN [closed |-> Close(@).closed, open |-> {Started(p)}]
         ELSE [closed |-> @.closed, open |-> {Extended(u, p) : u \in @.open}]]
  /\ UNCHANGED calling

End ==
  /\ calling
  /\ calling' = FALSE
  /\ flows' = [pid \in Pids |-> Close(flows[pid])]
  /\ UNCHANGED seen

Next == Begin \/ (\E p \in Packets : Feed(p)) \/ End

Spec == Init /\ [][Next]_vars

=============================================================================

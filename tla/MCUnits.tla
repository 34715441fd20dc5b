------------------------------ MODULE MCUnits ------------------------------
(***************************************************************************)
(* Units on two PIDs: packets that start a unit, continue one and carry    *)
(* no payload (adaptation field only), with the random access and PCR      *)
(* flags set on starting and on continuing packets.                        *)
(***************************************************************************)
EXTENDS Units

P(pid, start, rai, pcr, size) ==
  [pid |-> pid, start |-> start, rai |-> rai, pcr |-> pcr, size |-> size]

MCPackets ==
  {P(1, TRUE, TRUE, {7}, 1), P(1, FALSE, FALSE, {}, 1), P(1, FALSE, TRUE, {9}, 1),
   P(1, FALSE, FALSE, {}, 0), P(2, TRUE, FALSE, {}, 1), P(2, TRUE, FALSE, {}, 0),
   P(2, FALSE, FALSE, {}, 1)}

=============================================================================

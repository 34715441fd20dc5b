------------------------------ MODULE MCRemux ------------------------------
(***************************************************************************)
(* Remux with packets of 13 bytes (rooms of 9, 7 and 1), units of one to   *)
(* three packets and an empty one, on two PIDs.                            *)
(***************************************************************************)
EXTENDS Remux

U(pid, rai, pcr, size) == [pid |-> pid, rai |-> rai, pcr |-> pcr, size |-> size]

MCUnitSet ==
  {U(1, TRUE, {7}, 11), U(1, FALSE, {}, 9), U(1, FALSE, {}, 0), U(2, TRUE, {}, 8),
   U(2, FALSE, {}, 1)}

=============================================================================

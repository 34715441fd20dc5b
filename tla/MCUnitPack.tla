----------------------------- MODULE MCUnitPack -----------------------------
(***************************************************************************)
(* UnitPack with packets of 13 bytes: a payload has room for 9 bytes, for  *)
(* 7 after a random access flag and for 1 after a PCR.  The units are      *)
(* empty, shorter than a packet, exactly as long, and longer.              *)
(***************************************************************************)
EXTENDS UnitPack

U(pid, rai, pcr, size) == [pid |-> pid, rai |-> rai, pcr |-> pcr, size |-> size]

MCUnitSet ==
  {U(1, TRUE, {7}, 11), U(1, TRUE, {}, 7), U(1, FALSE, {}, 19), U(1, FALSE, {}, 0),
   U(2, TRUE, {}, 8), U(2, FALSE, {3}, 1), U(2, FALSE, {}, 9)}

=============================================================================

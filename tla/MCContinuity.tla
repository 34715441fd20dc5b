---------------------------- MODULE MCContinuity ----------------------------
(***************************************************************************)
(* Two lists and two PIDs, which no definition tells apart by value, and   *)
(* counters modulo 3 so that they wrap.                                    *)
(***************************************************************************)
EXTENDS Continuity, TLC

CONSTANTS list1, list2, pid1, pid2

Symmetry == Permutations({list1, list2}) \cup Permutations({pid1, pid2})

=============================================================================

---------------------------- MODULE MCStreamPack ----------------------------
(***************************************************************************)
(* Two elementary streams of up to three PES packets with timestamps in    *)
(* any order, equal ones, none, and packets too long to pack; and three    *)
(* streams of up to one, with every choice of program and PCR PID and a    *)
(* PMT that may not fit.  Sections are limited to 40 bytes: 13 and 5 for   *)
(* each stream, so that a descriptor of 13 is one too many.                *)
(***************************************************************************)
EXTENDS StreamPack

At(t, rai) == [timed |-> TRUE, pts |-> t, rai |-> rai, fits |-> TRUE]
Untimed == [timed |-> FALSE, pts |-> 0, rai |-> FALSE, fits |-> TRUE]
Oversized == [timed |-> TRUE, pts |-> 1, rai |-> FALSE, fits |-> FALSE]

PesSet == {At(0, FALSE), At(1, TRUE), At(2, FALSE), Untimed, Oversized}

UpTo(S, n) == UNION {[1..m -> S] : m \in 0..n}

Stream(pid, descriptor, packets) ==
  [pid |-> pid, descriptor |-> descriptor, packets |-> packets]

Program(program_pid, pcr_pid, streams) ==
  [program_pid |-> program_pid, pcr_pid |-> pcr_pid, descriptor |-> 0,
   streams |-> streams]

MCPrograms ==
  {Program(32, pcr, <<Stream(33, 0, s), Stream(34, 0, t)>>) :
     pcr \in {0, 34}, s \in UpTo(PesSet, 3), t \in UpTo(PesSet, 2)}
  \cup
  {Program(pid, pcr, <<Stream(33, 0, s), Stream(34, d, t), Stream(35, 0, u)>>) :
     pid \in {0, 32}, pcr \in {33, 36}, d \in {12, 13},
     s \in UpTo(PesSet, 1), t \in UpTo(PesSet, 1), u \in UpTo(PesSet, 1)}

=============================================================================

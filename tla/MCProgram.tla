----------------------------- MODULE MCProgram -----------------------------
(***************************************************************************)
(* A video and an audio stream of up to two PES packets each, of one and   *)
(* of two transport packets, with and without a PTS; a PMT of one packet   *)
(* and one of three; a stream on the PID of the PMT; files cut off at      *)
(* every packet, alone or over one of three old ends.  A PES packet        *)
(* without a length would be of 357 transport packets; here it is of two.  *)
(***************************************************************************)
EXTENDS Program

Timed(t, rai) == [timed |-> TRUE, pts |-> t, rai |-> rai, fits |-> TRUE]
Untimed == [timed |-> FALSE, pts |-> 0, rai |-> FALSE, fits |-> TRUE]
Oversized == [timed |-> TRUE, pts |-> 1, rai |-> FALSE, fits |-> FALSE]

UpTo(S, n) == UNION {[1..m -> S] : m \in 0..n}

Stream(pid, descriptor, list) ==
  [pid |-> pid, descriptor |-> descriptor, packets |-> list]

MCPrograms ==
  {[program_pid |-> 32, pcr_pid |-> pcr, descriptor |-> 0,
    streams |-> <<Stream(33, d, s), Stream(pid, 0, t)>>] :
     pcr \in {0, 33}, pid \in {34, 32}, d \in {0, 200},
     s \in UpTo({Timed(1, TRUE), Timed(3, FALSE), Untimed}, 2),
     t \in {<<>>, <<Timed(2, FALSE)>>, <<Timed(1, TRUE), Timed(2, FALSE)>>,
            <<Timed(2, FALSE), Untimed>>, <<Oversized>>}}
  \cup
  {[program_pid |-> pid, pcr_pid |-> 0, descriptor |-> 0, streams |-> <<>>] :
     pid \in {0, 32}}

Shape(size, bounded, header) ==
  [size |-> size, bounded |-> bounded, header |-> header]

MCShapes ==
  {<< <<Shape(200, FALSE, TRUE), Shape(184, FALSE, TRUE)>>,
      <<Shape(184, TRUE, TRUE), Shape(185, TRUE, TRUE)>> >>,
   << <<Shape(300, TRUE, TRUE), Shape(190, FALSE, TRUE)>>,
      <<Shape(50, TRUE, FALSE), Shape(368, TRUE, TRUE)>> >>}

Old(pid, start) ==
  [unit |-> 0, pid |-> pid, start |-> start, rai |-> FALSE, pcr |-> {}, af |-> 0,
   from |-> 0, size |-> 184]

MCOldEnds ==
  {<<Old(34, FALSE), Old(33, TRUE), Old(33, FALSE)>>,
   <<Old(33, FALSE), Old(33, FALSE), Old(40, TRUE), Old(33, TRUE), Old(34, TRUE)>>,
   <<Old(32, TRUE)>>}

=============================================================================

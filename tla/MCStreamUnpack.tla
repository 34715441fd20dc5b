--------------------------- MODULE MCStreamUnpack ---------------------------
(***************************************************************************)
(* A program on PID 32 with streams on 33 and 34: PATs that agree and one  *)
(* that does not, cut-off tables, PMTs that add a stream or a descriptor   *)
(* and ones that contradict the PCR PID, a type or a descriptor, PES       *)
(* packets of both streams, and junk.                                      *)
(***************************************************************************)
EXTENDS StreamUnpack

Unit(pid, kind, program_of, pcr, entries) ==
  [pid |-> pid, kind |-> kind, program |-> program_of, pcr |-> pcr,
   entries |-> entries]

Pat(p) == Unit(0, "pat", p, 0, <<>>)
Pmt(pcr, entries) == Unit(32, "pmt", 0, pcr, entries)
Other(pid, kind) == Unit(pid, kind, 0, 0, <<>>)

E(pid, type, descriptor) ==
  [pid |-> pid, type |-> type, descriptor |-> descriptor]

MCUnitSet ==
  {Pat(32), Pat(40), Other(0, "short"), Other(0, "junk"),
   Pmt(33, <<E(33, 1, 0), E(34, 2, 5)>>), Pmt(33, <<E(33, 1, 6)>>),
   Pmt(33, <<E(33, 0, 0), E(33, 2, 0)>>), Pmt(34, <<>>),
   Other(32, "short"), Other(32, "pes"),
   Other(33, "pes"), Other(34, "pes"), Other(34, "junk")}

=============================================================================

----------------------------- MODULE MCSections -----------------------------
(***************************************************************************)
(* Tables of real size.  A section takes 17 bytes with its pointer field   *)
(* and 5 for each stream, 7 and the data with a descriptor: sections that  *)
(* end at 184 (one packet), 185, 188 (what one packet and the padding of   *)
(* another give), 189 and 372, ten streams of 46 bytes (a quarter of a     *)
(* packet, so that a packet repeated is a table again), and tables of 1021 *)
(* and 1022 bytes of section_length.  Then units of another writer.        *)
(***************************************************************************)
EXTENDS Sections

Descriptor(tag, n) == [tag |-> tag, data |-> [i \in 1..n |-> 7]]
E(pid, n) == [type |-> 27, pid |-> pid, descriptor |-> Descriptor(5, n)]
Plain(pid) == [type |-> 15, pid |-> pid, descriptor |-> None]

Pat(pid) == [id |-> 0, pid |-> pid, descriptor |-> None, entries |-> <<>>]
Pmt(pid, descriptor, entries) ==
  [id |-> 2, pid |-> pid, descriptor |-> descriptor, entries |-> entries]

MCTables ==
  {Pat(32), Pat(8191), Pmt(8191, None, <<>>), Pmt(33, Descriptor(9, 0), <<Plain(33)>>),
   Pmt(33, Descriptor(9, 3), <<Plain(33), E(34, 2), Plain(35)>>),
   Pmt(33, None, [i \in 1..10 |-> E(32 + i, 39)]),
   Pmt(33, None, [i \in 1..4 |-> E(32 + i, 245)]),
   Pmt(33, Descriptor(9, 1), [i \in 1..4 |-> E(32 + i, 245)])}
  \cup {Pmt(33, None, <<E(33, n)>>) : n \in {160, 161, 164, 165}}
  \cup {Pmt(33, None, <<E(33, 200), E(34, 141 + n)>>) : n \in {0, 1, 4}}

(* A section with a given pointer field, id, reserved bits and length.     *)
Bytes(pointer, id, bits, length_of, data) ==
  <<pointer>> \o [i \in 1..pointer |-> 0]
    \o <<id>> \o Bytes16(bits * 1024 + length_of) \o <<0, 9, 195, 0, 0>>
    \o data \o <<255, 240, 33, 0>>

Sec(id, data) == Bytes(0, id, 44, Len(data) + 9, data)

Network == Bytes16(0) \o PidBytes(16)
Loop(n, data) == Bytes16(15 * 4096 + n) \o data
Row(n, data) == <<15>> \o PidBytes(33) \o Loop(n, data)
Rows(n, data) == PidBytes(33) \o Loop(0, <<>>) \o Row(n, data)

MCForeign ==
  {<<>>, <<0>>, <<4, 0, 0>>, <<0, 255, 255, 255>>,
   \* PATs: none, a network and a program, behind a pointer, other bits.
   Sec(0, <<>>), Sec(0, Network \o Data(Pat(32))),
   Bytes(3, 0, 44, 13, Data(Pat(32))), Bytes(0, 0, 46, 13, Data(Pat(32))),
   Bytes(0, 0, 44, 8, Data(Pat(32))), Sec(0, Bytes16(1) \o Bytes16(32)),
   \* PMTs: loops of two descriptors, of tag 0, of no length, too long.
   Bytes(1, 2, 44, 18, Data(Pmt(33, None, <<Plain(33)>>))), Sec(2, <<>>),
   Sec(2, Rows(8, <<5, 1, 7, 9, 3, 1, 1, 1>>)), Sec(2, Rows(3, <<0, 1, 7>>)),
   Sec(2, Rows(1, <<5>>)), Sec(2, Rows(3, <<5, 2, 7>>)), Sec(2, Rows(9, <<5, 1, 7>>)),
   Sec(2, Rows(0, <<27, 1>>)), Sec(3, Rows(0, <<>>)),
   Sec(2, PidBytes(33) \o Loop(4, <<10, 2, 1, 1>>) \o Row(0, <<>>)),
   \* section_length of 1022: one that fits when packed again, one that does not.
   Sec(2, Rows(1004, <<5, 1, 7>> \o [i \in 1..1001 |-> 0])),
   Sec(2, Data(Pmt(33, None, [i \in 1..4 |-> E(32 + i, 244)]))
            \o Row(0, <<>>))}

=============================================================================

------------------------------ MODULE Sections ------------------------------
(***************************************************************************)
(* ts_psi, ts_pat and ts_pmt: a table written as a section that fills      *)
(* whole packets, and read back from a unit of the bytes that arrived.     *)
(*                                                                         *)
(* The unit may be cut off, or a packet of it may be lost or repeated on   *)
(* the way, and it may come from another writer, with a pointer field,     *)
(* more programs, more descriptors and longer sections than libts writes.  *)
(* The CRC is written and never read, so its value is left out.            *)
(***************************************************************************)
EXTENDS Bytestream, SequencesExt

CONSTANTS
  Tables,       \* the tables that may be packed
  Foreign,      \* units of another writer
  MaxSection    \* 1021

(* tag 0 is no descriptor.                                                 *)
DescriptorType == [tag : Byte, data : Seq(Byte)]
EntryType == [type : Byte, pid : Nat, descriptor : DescriptorType]

(* A ts_pat (id 0, pid is program_pid) or a ts_pmt (id 2, pcr_pid).        *)
TableType ==
  [id : Byte, pid : Nat, descriptor : DescriptorType, entries : Seq(EntryType)]

ASSUME SectionsAssumption ==
  /\ Tables \subseteq TableType
  /\ Foreign \subseteq Seq(Byte)
  /\ MaxSection \in Nat

VARIABLES
  sent,      \* the table packed; NoTable for a unit of another writer
  bytes,     \* the unit
  intact,    \* history: how many bytes of it, from the first, are as packed
  phase,     \* "start", "packed", "sent", "pointer", "section", "pat",
             \* "pmt", "entries", "done", or "refused" by ts_psi_pack_stream
  reader,    \* "pat" or "pmt": which of the two reads it
  stream,    \* the cursor; from "entries" on it is over the section's data
  length,    \* psi.section_length
  table,     \* the table read
  result     \* what the reader, or the packing, returned; 2 while it runs

vars == <<sent, bytes, intact, phase, reader, stream, length, table, result>>

None == [tag |-> 0, data |-> <<>>]
NoTable == [id |-> 0, pid |-> 0, descriptor |-> None, entries |-> <<>>]

Init ==
  /\ sent = NoTable
  /\ bytes = <<>>
  /\ intact = 0
  /\ phase = "start"
  /\ reader = "pat"
  /\ stream = Destroyed
  /\ length = 0
  /\ table = NoTable
  /\ result = 2

-----------------------------------------------------------------------------
(* Packing.                                                                *)
PidBytes(pid) == Bytes16(WriteBits(7, 16, 0, 3) + WriteBits(pid, 16, 3, 13))

DescriptorBytes(d) ==
  IF d.tag = 0 THEN <<>> ELSE <<d.tag, Len(d.data)>> \o d.data

\* Fault: ts_pmt_descriptor_size without the two bytes of tag and size.
LoopBytesShort(d) ==
  Bytes16(WriteBits(15, 16, 0, 4) + WriteBits(Len(d.data), 16, 6, 10))
    \o DescriptorBytes(d)

(* The length of a descriptor loop, and its one descriptor.                *)
LoopBytes(d) ==
  Bytes16(WriteBits(15, 16, 0, 4) + WriteBits(Len(DescriptorBytes(d)), 16, 6, 10))
    \o DescriptorBytes(d)

EntryBytes(e) == <<e.type>> \o PidBytes(e.pid) \o LoopBytes(e.descriptor)

(* ts_pat_pack_stream (program number 1) and ts_pmt_pack_stream.           *)
Data(t) ==
  IF t.id = 0
    THEN Bytes16(1) \o PidBytes(t.pid)
    ELSE PidBytes(t.pid) \o LoopBytes(t.descriptor)
           \o FlattenSeq([i \in 1..Len(t.entries) |-> EntryBytes(t.entries[i])])

\* Fault: the header of the packet is not counted.
PaddingUncounted(n) == (188 - (n % 188)) % 188

(* How many bytes of 0xff go behind n bytes.                               *)
Padding(n) == (188 - ((n + 4) % 188)) % 188

Crc == <<0, 0, 0, 0>>

(* ts_psi_pack_stream behind the pointer field: id, section_length,        *)
(* id_extension 1, version 0 and current, section number 0 of 0.           *)
Section(t) ==
  <<0, t.id>>
    \o Bytes16(2^15 + WriteBits(3, 16, 2, 2) + WriteBits(Len(Data(t)) + 9, 16, 6, 10))
    \o Bytes16(1) \o <<WriteBits(3, 8, 0, 2) + 1, 0, 0>>
    \o Data(t) \o Crc

Unit(t) == Section(t) \o [i \in 1..Padding(Len(Section(t))) |-> 255]

(* Each reading starts with a table newly constructed, as the callers do.  *)
Pack(t) ==
  /\ sent' = t
  /\ table' = NoTable
  /\ UNCHANGED <<reader, stream, length>>
  /\ IF Len(Data(t)) + 9 <= MaxSection
       THEN /\ bytes' = Unit(t)
            /\ intact' = Len(Unit(t))
            /\ phase' = "packed"
            /\ result' = 2
       ELSE /\ phase' = "refused"
            /\ result' = -1
            /\ UNCHANGED <<bytes, intact>>

PackTable == phase = "start" /\ \E t \in Tables : Pack(t)

(* A table of another writer, read, is packed again.                       *)
PackAgain ==
  /\ phase = "done" /\ result = 1
  /\ sent = NoTable
  /\ Pack(table)

-----------------------------------------------------------------------------
(* What may happen to the unit on the way (ts_units_unpack).               *)
EndOf(i) == IF 184 * i < Len(bytes) THEN 184 * i ELSE Len(bytes)
Piece(i) == SubSeq(bytes, 184 * (i - 1) + 1, EndOf(i))
Pieces == (Len(bytes) + 183) \div 184
Before(i) == SubSeq(bytes, 1, 184 * (i - 1))
After(i) == SubSeq(bytes, 184 * i + 1, Len(bytes))

Arrive(b, n) ==
  /\ bytes' = b
  /\ intact' = n
  /\ phase' = "sent"
  /\ UNCHANGED <<sent, reader, stream, length, table, result>>

CutOff ==
  /\ phase = "packed"
  /\ \E n \in 0..(Len(bytes) - 1) : Arrive(SubSeq(bytes, 1, n), n)

LosePacket ==
  /\ phase = "packed"
  /\ \E i \in 2..Pieces : Arrive(Before(i) \o After(i), 184 * (i - 1))

RepeatPacket ==
  /\ phase = "packed"
  /\ \E i \in 2..Pieces :
       Arrive(Before(i) \o Piece(i) \o Piece(i) \o After(i), EndOf(i))

ArriveForeign ==
  /\ phase = "start"
  /\ \E b \in Foreign : Arrive(b, 0)

-----------------------------------------------------------------------------
(* Reading: ts_pat_unpack_buffer or ts_pmt_unpack_buffer.                  *)
Return(n) ==
  /\ phase' = "done"
  /\ result' = n
  /\ UNCHANGED <<sent, bytes, intact, reader, stream, length, table>>

Goto(p, s) ==
  /\ phase' = p
  /\ stream' = s
  /\ UNCHANGED <<sent, bytes, intact, reader, result>>

BeginRead ==
  /\ phase \in {"packed", "sent"}
  /\ phase' = "pointer"
  /\ reader' \in {"pat", "pmt"}
  /\ stream' = Open(bytes)
  /\ UNCHANGED <<sent, bytes, intact, length, table, result>>

ReadPointer ==
  /\ phase = "pointer"
  /\ LET s == Skip(Skip(stream, 1), Read8(stream, 0)) IN
       IF s.valid THEN Goto("section", s) /\ UNCHANGED <<length, table>>
                  ELSE Return(0)

\* Fault: the four bytes of the CRC are not waited for.
ShortOfCrc(s) == Len(s.rest) < 7 \/ Len(s.rest) < ReadBits(Read16(s, 1), 16, 6, 10) - 1

(* The section is not all there.                                           *)
Short(s) == Len(s.rest) < 3 \/ Len(s.rest) - 3 < ReadBits(Read16(s, 1), 16, 6, 10)

(* The bits that must be 1, 0, 11 and 00 before a length of at least 9.    *)
Sound(v) == ReadBits(v, 16, 0, 6) = 44 /\ ReadBits(v, 16, 6, 10) >= 9

ReadSection ==
  /\ phase = "section"
  /\ LET id == Read8(stream, 0)
         v == Read16(stream, 1)
     IN \/ /\ id = 255
           /\ Goto(reader, Skip(stream, 1))
           /\ table' = [table EXCEPT !.id = 255]
           /\ length' = 0
        \/ /\ id # 255
           /\ Len(stream.rest) >= 3 /\ ~Sound(v)
           /\ Return(-1)
        \/ /\ id # 255
           /\ Len(stream.rest) >= 3 => Sound(v)
           /\ Short(stream)
           /\ Return(0)
        \/ /\ id # 255
           /\ Len(stream.rest) >= 3 /\ Sound(v)
           /\ ~Short(stream)
           /\ IF ReadBits(Read8(stream, 5), 8, 0, 2) # 3
                THEN Return(-1)
                ELSE /\ Goto(reader, Skip(stream, 8))
                     /\ table' = [table EXCEPT !.id = id]
                     /\ length' = ReadBits(v, 16, 6, 10)

(* The first program of the table, of whatever number, and four bytes for  *)
(* the CRC.                                                                *)
ReadPat ==
  /\ phase = "pat"
  /\ LET v == Read(stream, 0, 4) IN
       IF \/ ReadBits(Word(v, 3), 16, 0, 3) # 7
          \/ table.id # 0
          \/ ~Skip(stream, 8).valid
         THEN Return(-1)
         ELSE /\ phase' = "done"
              /\ result' = 1
              /\ table' = [table EXCEPT !.pid = ReadBits(Word(v, 3), 16, 3, 13)]
              /\ UNCHANGED <<sent, bytes, intact, reader, stream, length>>

(* A PID and a descriptor loop, four bytes and those of the loop.          *)
LoopLength(v) == ReadBits(Word(v, 3), 16, 6, 10)

LoopSound(v, s) ==
  /\ ReadBits(Word(v, 1), 16, 0, 3) = 7
  /\ ReadBits(Word(v, 3), 16, 0, 6) = 60
  /\ LoopLength(v) # 0 =>
       /\ LoopLength(v) \in 2..Len(s.rest)
       /\ Read8(s, 1) + 2 <= LoopLength(v)

(* The first descriptor of the loop; the rest is skipped.                  *)
First(v, s) ==
  IF LoopLength(v) = 0 THEN None
  ELSE [tag |-> Read8(s, 0), data |-> Read(s, 2, Read8(s, 1))]

ReadPmt ==
  /\ phase = "pmt"
  /\ IF length < 9 THEN Return(-1)
     ELSE LET d == Open(SubSeq(stream.rest, 1, length - 9))
              v == Read(d, 0, 4)
              s == Skip(d, 4)
          IN IF LoopSound(v, s)
               THEN /\ Goto("entries", Skip(s, LoopLength(v)))
                    /\ table' = [table EXCEPT !.pid = ReadBits(Word(v, 1), 16, 3, 13),
                                              !.descriptor = First(v, s)]
                    /\ UNCHANGED length
               ELSE Return(-1)

\* Fault: the new entry goes to the front of pmt->streams.
ReadEntryInFront ==
  /\ phase = "entries"
  /\ stream.rest # <<>>
  /\ LET v == Read(stream, 1, 4)
         s == Skip(stream, 5)
     IN IF LoopSound(v, s)
          THEN /\ Goto("entries", Skip(s, LoopLength(v)))
               /\ table' = [table EXCEPT !.entries = <<
                     [type |-> Read8(stream, 0),
                      pid |-> ReadBits(Word(v, 1), 16, 3, 13),
                      descriptor |-> First(v, s)]>> \o @]
               /\ UNCHANGED length
          ELSE Return(-1)

ReadEntry ==
  /\ phase = "entries"
  /\ stream.rest # <<>>
  /\ LET v == Read(stream, 1, 4)
         s == Skip(stream, 5)
     IN IF LoopSound(v, s)
          THEN /\ Goto("entries", Skip(s, LoopLength(v)))
               /\ table' = [table EXCEPT !.entries = Append(@,
                     [type |-> Read8(stream, 0),
                      pid |-> ReadBits(Word(v, 1), 16, 3, 13),
                      descriptor |-> First(v, s)])]
               /\ UNCHANGED length
          ELSE Return(-1)

EndPmt ==
  /\ phase = "entries"
  /\ stream.rest = <<>>
  /\ Return(IF stream.valid /\ table.id = 2 THEN 1 ELSE -1)

Next ==
  \/ PackTable \/ PackAgain
  \/ CutOff \/ LosePacket \/ RepeatPacket \/ ArriveForeign
  \/ BeginRead \/ ReadPointer \/ ReadSection
  \/ ReadPat \/ ReadPmt \/ ReadEntry \/ EndPmt

Spec == Init /\ [][Next]_vars

-----------------------------------------------------------------------------
(* ts_pmt_descriptor_equal.                                                *)
SameDescriptor(d, e) == (d.tag = 0 /\ e.tag = 0) \/ d = e

SameEntry(e, f) ==
  e.type = f.type /\ e.pid = f.pid /\ SameDescriptor(e.descriptor, f.descriptor)

Same(t, u) ==
  /\ t.id = u.id /\ t.pid = u.pid
  /\ SameDescriptor(t.descriptor, u.descriptor)
  /\ Len(t.entries) = Len(u.entries)
  /\ \A i \in 1..Len(t.entries) : SameEntry(t.entries[i], u.entries[i])

ReadBack == phase = "done" /\ sent # NoTable
SectionEnd == Len(Section(sent))

(* ts_psi_pack_stream, ts_psi.c:139-142.  A packed table fills packets of  *)
(* 184 bytes: one of them exactly when it fits there, and when it does not *)
(* at most one more than its section needs, which then holds nothing but   *)
(* padding.                                                                *)
FillsPackets ==
  phase = "packed" =>
    LET needed == (SectionEnd + 183) \div 184 IN
      /\ needed = 1 => Len(bytes) = 184
      /\ Pieces \in needed..(needed + 1)
      /\ Pieces > needed => Range(Piece(Pieces)) = {255}

(* ts_pat_unpack_stream, ts_pmt_unpack_stream.  A table that was packed,   *)
(* by libts or again after it was read from another writer's section, is   *)
(* read back as it was, by its own reader only, also when what is lost or  *)
(* repeated lies behind its data: the CRC and the padding do not matter.   *)
ReadsBack ==
  ReadBack /\ Len(bytes) >= SectionEnd /\ intact >= SectionEnd - 4 =>
    IF (reader = "pat") = (sent.id = 0)
      THEN result = 1 /\ Same(table, sent)
      ELSE result = -1

(* ts_psi_unpack_stream, ts_psi.c:165 and ts_stream.c:163.  Whatever was   *)
(* lost of a unit that is then shorter than its section, the table reads   *)
(* as cut off, and as one with nothing in it: never as part of a table.    *)
CutIsShort ==
  ReadBack /\ Len(bytes) < SectionEnd => result = 0 /\ table = NoTable

(* The end of entry i in the bytes packed.                                 *)
EntryEnd(i) == Len(Section([sent EXCEPT !.entries = SubSeq(@, 1, i)])) - 4

(* ts_pmt_unpack_stream reads no CRC (ts_pmt.c:198-248).  A packet lost or *)
(* repeated inside a long table shifts what follows, and a table that is   *)
(* not the one packed may be accepted: but only behind the damage.         *)
WrongOnlyBehindDamage ==
  ReadBack /\ result = 1 =>
    /\ table.id = sent.id /\ table.pid = sent.pid
    /\ \A i \in 1..Len(sent.entries) :
         EntryEnd(i) <= intact =>
           i <= Len(table.entries) /\ SameEntry(table.entries[i], sent.entries[i])

=============================================================================

------------------------------ MODULE Program ------------------------------
(***************************************************************************)
(* ts_stream_save and ts_stream_load: a program packed into units, the     *)
(* units cut into packets, the packets written to a file, and the file     *)
(* read back through the same layers into another program.                 *)
(*                                                                         *)
(* ts_packets_save tells nobody of a write that failed, so the file may be *)
(* cut off, and it opens the file without truncating it, so a longer one   *)
(* keeps its old end.  The layers above find out what that does to the     *)
(* program: none of them looks for it.                                     *)
(***************************************************************************)
EXTENDS StreamPack, SequencesExt

CONSTANTS
  Shapes,      \* shapes of PES packets, by stream and place
  OldEnds,     \* ends that a file may have kept
  MaxPackets   \* bound: packets in a file

(* A PES packet as it is laid out: its bytes, whether its length field is  *)
(* not 0 (it is for long video only), and whether its id has a header.  An *)
(* old end does not go on with a table: what parses as a table then is not *)
(* a unit of this program.                                                 *)
ShapeType == [size : Nat \ {0}, bounded : BOOLEAN, header : BOOLEAN]

ASSUME ProgramAssumption ==
  /\ \A shape \in Shapes : \A p \in Programs :
       \A i \in 1..Len(p.streams) : \A k \in 1..Len(p.streams[i].packets) :
         shape[i][k] \in ShapeType
  /\ \A end \in OldEnds : \A i \in 1..Len(end) : \A p \in Programs :
       end[i].start \/ end[i].pid \notin {0, p.program_pid}
  /\ MaxPackets \in Nat

VARIABLES
  shape,                       \* how the program's PES packets are laid out
  at, base, count, packets,    \* ts_units_pack
  stage,     \* "save", "file", "units" and "stream" while loading, "loaded"
  file,      \* the packets of the file; unit is 0 for those it had before
  got, incomplete, calls, calling, fed, opened,    \* ts_units_unpack
  program_pid, pcr_pid, streams,    \* the ts_stream that is loaded
  input, load_phase, load_at, entry, load_result, before, given
             \* ts_stream_unpack

cutter == <<at, base, count, packets>>
demux == <<got, incomplete, calls, calling, fed, opened>>
loader == <<program_pid, pcr_pid, streams, input, load_phase, load_at, entry,
            load_result, before, given>>

-----------------------------------------------------------------------------
(* Bytes of the PMT's section behind its pointer field, to its CRC, and of *)
(* a table's unit, which is padded (Padding in Sections).                  *)
PmtSize == 1 + 3 + SectionLength

PaddedSize(n) == n + ((188 - ((n + 4) % 188)) % 188)

UnitSize(u) ==
  CASE u.kind = "pat" -> PaddedSize(1 + 3 + 9 + 4)
    [] u.kind = "pmt" -> PaddedSize(PmtSize)
    [] u.kind = "pes" -> shape[u.stream][u.nth].size

Queue ==
  [a \in 1..Len(units) |->
     [pid |-> units[a].pid, rai |-> units[a].rai, pcr |-> units[a].pcr,
      size |-> UnitSize(units[a])]]

U == INSTANCE UnitPack WITH
       PacketSize <- 188, Units <- {}, MaxUnits <- 0, queue <- Queue

D == INSTANCE Units WITH Packets <- {}, MaxCalls <- 1, units <- got

L == INSTANCE StreamUnpack WITH
       Units <- {}, CallerPids <- {}, MaxUnits <- 0,
       phase <- load_phase, at <- load_at, result <- load_result

ProgramInit ==
  /\ Init
  /\ shape \in Shapes
  /\ at = 1 /\ base = 0 /\ count = 0 /\ packets = <<>>
  /\ stage = "save"
  /\ file = <<>>
  /\ D!Init
  /\ L!Init

-----------------------------------------------------------------------------
(* ts_stream_save: ts_stream_pack, then ts_units_save of what it made.     *)
PackProgram ==
  /\ stage = "save"
  /\ Next
  /\ UNCHANGED <<shape, cutter, stage, file, demux, loader>>

PackUnits ==
  /\ stage = "save"
  /\ result = 1
  /\ UNCHANGED <<vars, shape>>
  /\ U!Next
  /\ UNCHANGED <<stage, file, demux, loader>>

Save(f) ==
  /\ stage = "save"
  /\ result = 1
  /\ U!Packed
  /\ stage' = "file"
  /\ file' = f
  /\ UNCHANGED <<vars, shape, cutter, demux, loader>>

(* All of it, or as far as the writes succeeded.                           *)
SaveFirst == \E n \in 0..Len(packets) : Save(SubSeq(packets, 1, n))

(* The same over the start of a longer file, whose rest stays behind what  *)
(* was written.  (When nothing was, the file is still the old one.)        *)
SaveOver ==
  \E n \in 1..Len(packets), end \in OldEnds : Save(SubSeq(packets, 1, n) \o end)

(* ts_packets_load refuses a file with nothing in it.                      *)
LoadEmpty ==
  /\ stage = "file"
  /\ file = <<>>
  /\ stage' = "loaded"
  /\ load_result' = -1
  /\ UNCHANGED <<vars, shape, cutter, file, demux, program_pid, pcr_pid, streams,
                 input, load_phase, load_at, entry, before, given>>

BeginLoad ==
  /\ stage = "file"
  /\ file # <<>>
  /\ D!BeginUnpack
  /\ stage' = "units"
  /\ UNCHANGED <<vars, shape, cutter, file, loader>>

(* The part of a packet that ts_units_unpack reads, after ts_packet_pack   *)
(* and ts_packet_unpack.  The PCR stands for what comes back of the clock  *)
(* (PcrSurvives of Pes; ts_pcr.c:29): no property reads its value.         *)
OnWire(p) ==
  [pid |-> p.pid, start |-> p.start, rai |-> p.rai, pcr |-> p.pcr, size |-> p.size]

ReadPacket ==
  /\ stage = "units"
  /\ Len(fed) < Len(file)
  /\ LET p == OnWire(file[Len(fed) + 1]) IN
       D!OpenUnit(p) \/ D!ExtendUnit(p) \/ D!DropPacket(p)
  /\ UNCHANGED <<vars, shape, cutter, stage, file, loader>>

-----------------------------------------------------------------------------
(* The packets of the file a unit was put together from.                   *)
Pieces(g) == [a \in 1..Len(g.data) |-> file[g.data[a]]]

(* How many bytes a unit has, and how many of them its sender gave it.     *)
Bytes(g) == FoldLeft(LAMBDA n, p : n + p.size, 0, Pieces(g))

(* What the first bytes of a unit say it is, and whether it is whole.      *)
(* A table is read up to the length of its section, whatever follows, and  *)
(* one cut off before is short (CutIsShort in Sections).  A PES packet     *)
(* whose length field is not 0 must be exactly as long as that says, and   *)
(* one with no header is refused (DamageRefused and ReadsBack in Pes).     *)
(* A unit of the old end is there whole.                                   *)
Kind(g) ==
  LET k == Pieces(g)[1].unit IN
    IF k = 0 THEN "pes"
    ELSE CASE units[k].kind = "pat" -> "pat"
           [] units[k].kind = "pmt" ->
                IF Bytes(g) >= PmtSize THEN "pmt" ELSE "short"
           [] units[k].kind = "pes" ->
                LET s == shape[units[k].stream][units[k].nth] IN
                  IF s.header /\ (s.bounded => Bytes(g) = s.size)
                    THEN "pes" ELSE "junk"

(* ts_stream_pack_pmt: no PCR PID is written as the null PID.              *)
PmtPcrPid == IF program.pcr_pid = 0 THEN 8191 ELSE program.pcr_pid

(* The type of a stream is named by the stream's place in the program.     *)
PmtEntries ==
  [i \in Streams |-> [pid |-> program.streams[i].pid, type |-> i,
                      descriptor |-> program.streams[i].descriptor]]

Read(g) ==
  [pid |-> g.pid, kind |-> Kind(g),
   program |-> IF Kind(g) = "pat" THEN program.program_pid ELSE 0,
   pcr |-> IF Kind(g) = "pmt" THEN PmtPcrPid ELSE 0,
   entries |-> IF Kind(g) = "pmt" THEN PmtEntries ELSE <<>>]

(* ts_units_load returns, and ts_stream_unpack begins.                     *)
EndUnits ==
  /\ stage = "units"
  /\ Len(fed) = Len(file)
  /\ D!EndUnpack
  /\ L!Begin([k \in 1..Len(got) |-> Read(got[k])])
  /\ stage' = "stream"
  /\ UNCHANGED <<vars, shape, cutter, file>>

UnpackProgram ==
  /\ stage = "stream"
  /\ L!Steps
  /\ stage' = IF load_phase' = "idle" THEN "loaded" ELSE "stream"
  /\ UNCHANGED <<vars, shape, cutter, file, demux>>

ProgramNext ==
  \/ PackProgram \/ PackUnits \/ SaveFirst \/ SaveOver
  \/ LoadEmpty \/ BeginLoad \/ ReadPacket \/ EndUnits \/ UnpackProgram

programVars == <<vars, shape, cutter, stage, file, demux, loader>>

ProgramSpec == ProgramInit /\ [][ProgramNext]_programVars

-----------------------------------------------------------------------------
InFile(a) == {n \in 1..Len(file) : file[n].unit = a}
OldInFile == InFile(0)

(* Whether unit a is in the file to its last byte.                         *)
Whole(a) == \E n \in InFile(a) : file[n].from + file[n].size = Queue[a].size

(* The bytes of unit a that were written, and whether those of the PMT     *)
(* reach the end of its section.                                           *)
Written(a) == MapThenSumSet(LAMBDA n : file[n].size, InFile(a))

PmtInFile == Written(2) >= PmtSize

(* The unit of packet k of stream i.                                       *)
UnitOf(i, k) == CHOOSE a \in UnitsOf(i) : units[a].nth = k

(* The packets of stream i that the file could hold.                       *)
Kept(i) ==
  SelectSeq([k \in 1..Len(PacketsOf(i)) |-> k],
            LAMBDA k : ~Stuck(i, k) /\ shape[i][k].header)

(* A PES packet in the file has the PID of a table.                        *)
Collides ==
  \/ \E a \in 3..Len(units) :
       InFile(a) # {} /\ units[a].pid \in {0, program.program_pid}
  \/ \E n \in OldInFile : file[n].start /\ file[n].pid \in {0, program.program_pid}

(* The place in its stream of the PES packet that unit g begins with, and  *)
(* 0 for a PES packet of the old end.                                      *)
Nth(g) == LET k == Pieces(g)[1].unit IN IF k = 0 THEN 0 ELSE units[k].nth

LoadedPackets(i) ==
  [a \in 1..Len(streams[i].packets) |-> Nth(got[streams[i].packets[a]])]

(* The program has the saved one's PIDs and descriptors, all its streams   *)
(* in their order, and for each of them the packets given.                 *)
IsLoaded(Expected(_)) ==
  /\ program_pid = program.program_pid
  /\ pcr_pid = IF program.pcr_pid = 0 THEN 8191 ELSE program.pcr_pid
  /\ Len(streams) = Len(program.streams)
  /\ \A i \in Streams :
       /\ streams[i].pid = program.streams[i].pid
       /\ streams[i].type = i
       /\ streams[i].descriptor = program.streams[i].descriptor
       /\ LoadedPackets(i) = Expected(i)
       /\ \A a \in 1..Len(streams[i].packets) :
            LET g == got[streams[i].packets[a]] IN
              Nth(g) # 0 => g.rai = Pes(i, Nth(g)).rai

(* ts_stream_save and ts_stream_load, ts_stream.c:389-424.  A file saved   *)
(* whole or cut off anywhere loads, unless a PES packet in it has the PID  *)
(* of a table, and except for an empty one.  What it loads is what was     *)
(* saved: the streams in their order, all of them or, when the file ends   *)
(* in the PMT, none; and of each stream the packets that are in the file   *)
(* to their end.  Left out are those behind one without a PTS, those whose *)
(* id has no header, and a packet that is cut off, unless it is video with *)
(* no length: then what there is of it passes for the whole.               *)
LoadsWhatFileHolds ==
  stage = "loaded" /\ OldInFile = {} =>
    /\ load_result = 1 <=> file # <<>> /\ ~Collides
    /\ load_result = 1 =>
         IF PmtInFile
           THEN IsLoaded(LAMBDA i : SelectSeq(Kept(i), LAMBDA k :
                  IF shape[i][k].bounded
                    THEN Whole(UnitOf(i, k))
                    ELSE InFile(UnitOf(i, k)) # {}))
           ELSE streams = <<>> /\ program_pid = program.program_pid

OldPackets(pid) == {n \in OldInFile : file[n].pid = pid /\ file[n].start}

(* The bytes by which the old packets on a PID go on with one begun before *)
(* them.                                                                   *)
OldBytes(pid) ==
  MapThenSumSet(LAMBDA n : file[n].size,
    {n \in OldInFile : file[n].pid = pid /\ \A m \in OldPackets(pid) : n < m})

Missing(a) == Queue[a].size - Written(a)

LastOfStream(i, k) ==
  \A a \in UnitsOf(i) : units[a].nth > k => InFile(a) = {}

(* ts_packets_buffer_save, ts_packets.c:44-60, and ts_units_unpack.  A     *)
(* file saved over a longer one, all of it or as far as the writes         *)
(* succeeded, loads as a success as far as it was written, with the old    *)
(* packets behind the new ones of the same PID.  No packet written to its  *)
(* end is harmed but the last of a stream, when the old end goes on with   *)
(* one of that PID: it is then too long and lost, unless it is video with  *)
(* no length.  And one that is cut off is taken for whole when the old end *)
(* goes on with just as many bytes as are missing.                         *)
OldEndStaysBehind ==
  stage = "loaded" /\ OldInFile # {} =>
    /\ load_result = 1 <=> ~Collides
    /\ load_result = 1 =>
         IF PmtInFile
           THEN IsLoaded(LAMBDA i :
             LET pid == program.streams[i].pid IN
               SelectSeq(Kept(i), LAMBDA k :
                 LET a == UnitOf(i, k) IN
                   /\ InFile(a) # {}
                   /\ shape[i][k].bounded =>
                        Missing(a) = IF LastOfStream(i, k) THEN OldBytes(pid) ELSE 0)
               \o [a \in 1..Cardinality(OldPackets(pid)) |-> 0])
           ELSE streams = <<>> /\ program_pid = program.program_pid

=============================================================================

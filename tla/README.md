# libts in TLA+

libts reads and writes MPEG transport streams: files of packets of 188 bytes in
which the tables of a program and the packets of its audio and video streams are
interleaved by PID.  It is a sequential C library on top of libdynamic (lists,
vectors and buffers).  This directory holds TLA+ models of it, the TLC
configurations that check them, and TLAPS proofs.  Paths below are relative to
`src/ts/` of the repository unless they say otherwise.

## The system

Going up, a file becomes packets, packets become units (one table or one PES
packet each), units become a program.  Going down, the same steps backwards.
Every step is a synchronous call that walks one list and appends to another.

    file <-> ts_packets <-> ts_units <-> ts_stream
             (packets)      (units)      (program: tables, PES packets)

| Component | State | Operations | What makes it correct |
|---|---|---|---|
| `bytestream` | cursor `begin`..`end` over a buffer; no data once a read has failed | read, write, bit fields | a failed read fails all that follow; a cursor never passes the end |
| `ts_pcr`, `ts_ebp` | none; a marker and a time | pack, unpack | a PCR survives packing modulo 2^33 * 300 (modulo 600 in a build that takes the undefined shift of `ts_pcr.c:29` modulo 32) |
| `ts_adaptation_field` | flags, PCR, OPCR, private data, EBP | size, pack, unpack | size is what pack writes; the field fills what it is given |
| `ts_packet` | header, field, payload | size, pack, unpack, debug | 188 bytes out for 188 bytes in |
| `ts_packets` | list of packets, one continuity counter for a PID | pack, unpack, append, load, save | counters without gaps; a file in step; failures reported |
| `ts_unit` | PID, flags, PCR, buffer | pack, unpack | each byte in one packet, flags on the first |
| `ts_units` | list of units; during a call the list of open units | pack, unpack, load, save | each payload in the right unit, in order |
| `ts_psi`, `ts_pat`, `ts_pmt` | sections | pack, unpack | limits of a section; what is written can be read |
| `ts_pes` | header, timestamps, data | pack, unpack | the same; damage shows |
| `ts_stream` | PIDs, list of elementary streams with their packets | create, delete, lookup, pack, unpack, load, save | one stream for a PID, tables agree, streams merged by time |

Components interact by calls only: `ts_stream_load` calls `ts_units_load`, that
calls `ts_packets_load`, and each takes the result apart with its own `unpack`.
There are no threads, no callbacks and no events.  What is hard is

* **order**: packets of many PIDs interleaved in one list, streams in decoding
  order merged by presentation time, tables before and after what they describe;
* **sequences of calls**: the same object written twice, appended to, or fed with
  a second chunk of a file, while some state lives in the object (counters,
  streams, PIDs) and some only during a call (the open units);
* **faulty input**: packets lost or repeated on the way, files cut off, lengths
  that contradict each other, two of which wrap below zero;
* **partial failure**: a call that returns -1 half way leaves what it did, writes
  may be short or fail.

`PROJECT.json` lists these as hazards, each at its line, with the properties that
cover it.

## Modules

| Module | Models | Checked by | Proved in |
|---|---|---|---|
| `Units` | `ts_units_unpack`, over several calls | `MCUnits`, `Units.cfg` | `Units_proofs` |
| `Flows` | what it promises: one reassembler for each PID | property of the same run | `Units_proofs` |
| `UnitPack` | `ts_units_pack`, `ts_unit_pack` | `MCUnitPack`, `UnitPack.cfg` | `Remux_proofs` |
| `Remux` | both with a faulty channel between them | `MCRemux`, `Remux.cfg` | `Remux_proofs` |
| `StreamPack` | `ts_stream_pack` | `MCStreamPack`, `StreamPack.cfg` | `StreamPack_proofs` |
| `StreamUnpack` | `ts_stream_unpack`, `_create`, `_delete` | `MCStreamUnpack`, `StreamUnpack.cfg` | `StreamUnpack_proofs` |
| `Program` | `ts_stream_save` and `ts_stream_load`: the four above composed, with a file between them | `MCProgram`, `Program.cfg` | |
| `Bytestream` | the cursor that `Sections` and `Pes` read with | their runs | |
| `Sections` | `ts_psi`, `ts_pat`, `ts_pmt`, byte by byte | `MCSections`, `Sections.cfg` | |
| `Pes` | `ts_pes`, `ts_pcr`, byte by byte | `MCPes`, `Pes.cfg` | `Pes_proofs` |
| `Continuity` | `ts_packets_pack`, `_append`, the counters | `MCContinuity`, `Continuity.cfg` | `Continuity_proofs` |
| `PacketLoad` | `ts_packets_load` down to the bytes it consumes | `MCPacketLoad`, `PacketLoad.cfg` | `PacketLoad_proofs` |
| `PacketSave` | `ts_packets_save`, the bytes and the file | `MCPacketSave`, `PacketSave.cfg`, `SaveReport.cfg` | `PacketSave_proofs` |

Definitions preceded by a comment `Fault:` are not part of a model.  Each is a
plausible bug in the definition that follows it, and the property listed with it
under "mutants" in `PROJECT.json` fails when it takes that definition's place.

### Units and Flows

`units` is `units->list`, each unit with its PID, flags and, for its buffer, the
numbers of the packets whose payloads were appended.  `incomplete` is the local
list of pointers, as positions in `units`.  `BeginUnpack` and `EndUnpack` are the
construction and destruction of that list; one action handles one packet, all of
the loop's body: `OpenUnit` when the start indicator is set (close the PID's open
unit, push a new one on both lists, append the payload), `ExtendUnit` and
`DropPacket` when it is not.  `Matches` and `Found` are the scan, which has no
`break` and so ends with the last match; that this is the only match is
`OneOpenPerPid`.  `fed` and `opened` are history variables for the properties.

`Flows` has no list at all: each PID has a set of closed units and at most one
open.  `ImplementsFlows` maps the two lists to it.

### UnitPack

One action packs one packet.  A packet says which bytes of which unit it holds,
`from` and `size`; room is computed as `ts_packet_size` does, with the adaptation
field of the first packet.  `NextUnit` leaves `ts_unit_pack` and goes on in
`ts_units_pack`.

### Remux

Packs a list of units with `UnitPack`, then delivers the packets to an instance
of `Units`.  The channel is not libts: it stands for the multiplexers and
networks a stream passes.  It keeps the order on each PID, interleaves PIDs in
any way, and may lose a packet or deliver it twice.  libts ignores continuity
counters on input, so a fault goes unseen: the properties say what survives it.
`OnWire` is what `ts_units_unpack` reads of a packet behind `ts_packet_pack` and
`ts_packet_unpack`.  The flags and the payload come through them (`PacketSave`,
`PacketLoad`); of a PCR it carries only that there is one and on which unit it was
put, since what comes back of its value is what `PcrSurvives` says.

### StreamPack and StreamUnpack

`StreamPack` takes a program and walks through the three parts of
`ts_stream_pack` (`phase`); `next` are the iterators of the merge.  A PES packet
is its PTS, whether it has one, and whether `ts_pes_pack_stream` finds a length
for it.  `SectionOf` is what a program's PMT takes.

`StreamUnpack` walks the units of a call three times, as the code does: PATs,
PMTs, then the PES packets of each stream.  One action takes one unit, one entry
of a table (`ReadEntry`), or one unit for one stream (`ReadPes`, `SkipUnit`).  A
unit is what its bytes parse as; the parsers' answer 0 for a section cut off is
kept apart from -1, because the callers test for -1 only.  That the answer is 0,
with nothing set, is `CutIsShort` in `Sections`.  Between calls the caller may
create and delete streams.  `before` remembers the program at the start of a call,
so that the properties can say what a call should have done from its input.

### Program

Composes `StreamPack` (extended), `UnitPack`, `Units` and `StreamUnpack`
(instances `U`, `D`, `L`, each given its own variables).  `PackProgram` and
`PackUnits` are the steps of `ts_stream_save`, `SaveFirst` and `SaveOver` the file
that `ts_packets_save` leaves: all packets, or as many as the writes took before
one failed, in a new file or over the start of a longer one.  These outcomes are
those of `PacketSave`, and none is reported.  A packet that is cut off and meets an
old end that goes on with just as many bytes as it lacks passes for whole
(`OldEndStaysBehind`).  Old ends that go on with a table are left out: a PMT cut off
over one is put together of two tables, and nothing reads the CRC; of such tables
`Sections` has those with a packet lost or repeated (`WrongOnlyBehindDamage`).
`ReadPacket` and `UnpackProgram` are the steps of `ts_stream_load`.

Between the layers stand two translations.  `Queue` gives each unit its size: a
table's from its section and padding, a PES packet's from `Shapes`.  `Read` says
what a unit that was put together parses as, from how many of its bytes there
are: it states what `Sections` and `Pes` show of the parsers (`CutIsShort`,
`DamageRefused`, `ReadsBack`).  A file is cut off between packets, not inside one:
`ts_packets_unpack` leaves the rest of a packet unread, which `PacketLoad` shows.

### Bytestream, Sections and Pes

`Bytestream` has no state of its own.  `StreamState` is a cursor; `Read` gives what
a read gives, zeros once one has failed, and `Skip` the cursor behind a sequence
of reads, destroyed if one of them failed.  Bit fields are quotients and
remainders.

`Sections` packs a table into bytes (`Unit`), as `ts_pat_pack_buffer` and
`ts_pmt_pack_buffer` do with `ts_psi_pack_stream`, lets the unit be cut off at any
byte or one of its packets be lost or repeated, and reads it step by step:
`ReadPointer`, `ReadSection` (`ts_psi_unpack_stream`, which ends in -1, 0 or 1),
then `ReadPat`, or `ReadPmt`, `ReadEntry` and `EndPmt`.  Either reader may be given
either table, since only the PID decides which one runs.  `Foreign` units are of
another writer: pointer fields, several programs, several descriptors,
contradicting lengths.  What is read of them is packed again.

`Pes` does the same for PES packets, where reading is one action because it sets
its result at its end only.  The 33-bit values are pairs, of the bits from 30 up
and those below, because TLC's integers have 32 bits.  `build` is how the compiler
took `1 << 33` in `bytestream_read_bits`: nondeterministic, as the behaviour is
undefined.

### Continuity

Objects with lists and counters.  Packets are added, moved by
`ts_packets_append`, printed by `ts_packet_debug` (which packs, and so changes,
them) and written any number of times.  `wire` records what was written.

### PacketLoad

A file is a sequence of packets, given by what decides how far the cursor moves:
the two control bits, the length byte, the bytes the flags call for, and the
private data.  A packet may consume more or fewer than 188 bytes; when the cursor
is inside a packet, what it reads next may be any of `Frames`.  Whether the file
can be opened and read is chosen with it (`readable`).  `-1`, a result cut short
and the abort are separate outcomes, and each has its causes: `FailsForCause` for
files of sound packets, empty and shorter ones included, `NothingBehindBadField`
for a first packet whose lengths contradict each other (`BadField`).

### PacketSave

Counts the bytes of each packet, with the size that `ts_adaptation_field_size`
gives and the bytes that `ts_adaptation_field_pack` writes kept apart.  Stuffing
counted down from below zero is the outcome `exhausted`.  Then the file: opened
without truncation, written in parts, any write may fail, or take nothing and be
tried again, which goes on for as long as it takes nothing.

## Runs

| Run | Instance | Distinct states | Shows |
|---|---|---|---|
| `units` | 7 packets on 2 PIDs, up to 5 fed in up to 2 calls | 268 thousand | reassembly, and the refinement of `Flows` |
| `unit_pack` | packets of 13 bytes, up to 3 of 7 units | 3 thousand | cutting into packets |
| `remux` | packets of 13 bytes, up to 3 of 5 units, 2 faults | 2.5 million | round trip and damage |
| `stream_pack` | 2 streams of up to 3 and 2 packets, or 3 of up to 1 | 60 thousand | the merge |
| `stream_unpack` | up to 4 of 13 units in any number of calls | 752 thousand | tables, and that a call returns |
| `program` | 2 streams of up to 2 packets, files cut off at each packet, new or over 3 old ends | 549 thousand | what is saved is what is loaded, and what a bad file does |
| `sections` | 15 tables of one to six packets, 22 units of another writer, real size | 58 thousand | tables read back, cut off, damaged |
| `pes` | 385 packets of 7 stream ids, limit of 24 bytes | 186 thousand | PES packets and PCRs read back, damaged |
| `continuity` | 2 lists, 2 PIDs, 3 packets, 5 writes, modulo 3 | 1.1 million | counters |
| `packet_load` | files of up to 3 of 12 packets and a tail, readable or not, real size | 221 thousand | loading, and why it fails |
| `packet_save` | lists of up to 3 of 11 packets, 4 old sizes, real size | 104 thousand | saving |
| `save_report` | one packet | (violation) | a failed save is not reported |

Bounds and why they are enough:

* `MaxPackets`, `MaxCalls` (Units): five packets allow a unit of three packets
  with two of another PID between them, and a second call with a continuation
  of the first; the proofs have no bound.
* `PacketSize = 13` (UnitPack, Remux): the least that leaves room for one byte
  after a PCR.  The rooms 9, 7 and 1 are all different, and the units are chosen
  to end exactly at, before and behind them.  The proofs hold for every size.
* `ReceiveBound` (Remux) is above what three units and two faults can send.
* `Modulus = 3` (Continuity): five writes wrap it.  The lists and the PIDs are
  interchangeable in every definition, so symmetry is sound; no liveness is
  checked in that run.
* `MaxSection = 40` (StreamPack): descriptors of 12 and 13 bytes are the last
  that fits and the first that does not.
* `MaxSection = 1021` (Sections, Program) is the real limit.  The tables end at
  184, 185, 188 and 189 bytes (the edges of one packet and of the padding), at 372,
  and at section lengths of 1021 and 1022; ten entries of 46 bytes are a quarter of
  a packet each, so that a repeated packet is a table again.
* `MaxLength = 24` (Pes) stands for 65536: a packet at the limit, one below it and
  above it, for video and for audio, and room for both timestamps before it.  The
  length is written in two bytes either way.
* `Shapes` (Program): a PES packet of one or two transport packets that just fill
  them, end in the middle of one, or are one byte over.  A PES packet without a
  length has 357 transport packets or more in a real file; two are enough, since
  nothing depends on how many it has.  Up to 16 packets are in a file;
  `MaxPackets` is above that.
* `MaxBlind` (PacketLoad): two packets read from inside another are enough for
  the cursor to come back into step (a field of 94 bytes, twice).
* `WriteSizes` (PacketSave): a write of part of a packet, of one packet, or of
  all that is left, next to one that takes nothing.
* `CHECK_DEADLOCK FALSE` throughout: a program that has made its calls stops.

Fairness is assumed in one place, `WF_vars(Steps)` in `StreamUnpack`: a call is
synchronous, so once begun its next step is taken.  Nothing is assumed of the
caller.

### Disagreement found

`save_report`: `ts_packets_save` ignores the result of `ts_packets_buffer_save`
(`ts_packets.c:190-191`) and returns the number of packets although the file
could not be opened or written.  `examples/remux_packets.c:30-32` takes every
result but -1 for a saved file.

## Proofs

All proofs are for every value of the constants under the assumptions named in
the modules (`PacketsAssumption` and so on: the constants have their types).

The bounds are among those constants: that files, lists and numbers of calls end
somewhere is all that the proofs use of them.  Each theorem is a property that a
run checks, for every value of the constants; the inductive invariants were
checked by TLC before they were proved.

**`Units_proofs`.**  `OneOpen`, `TypeCorrect`, `UnitsRun`, `PlacedOnceAlways`,
`OpenedInOrderAlways`, `FlowsImplemented`.  `OneOpenPerPid` and `TypeOK` are
inductive only together (`ListInv`): a start erases the entry that the scan found,
which leaves none of its PID because there was at most one.  `UnitsAreRuns` needs
more (`RunInv`): that an open unit has taken *everything* of its flow up to now
(`IsRun` with the set `Run`), and that a unit is in the list exactly while no
later packet of its flow starts and its call runs (`Unfinished`).  Without the
second, a packet could belong to the run of a unit that had been closed too early.
`OrderInv` adds that units are opened in the order of their packets (`InOrder`)
and one for every start (`AllOpened`).  From it `PlacedOnce` is a statement about
numbers: a payload behind some start of its flow is behind a *latest* one
(`LatestStart`), and belongs to the run of that one and of no other (`OneRun`).

`FlowsImplemented` is the refinement, on top of `RunInv`.  `Init` maps to the
abstract `Init` and each step to one of `Flows` or to a stutter.  A packet touches
the flow of its own PID only (`OneFlow`, `FlowKept`): opening closes what was open
there, extending changes the one open unit, dropping finds none.  Beginning and
ending a call need `RunInv`'s part that a unit is in the list exactly while it is
unfinished: so the list that a call starts with, empty, closes nothing that the
abstract flows hold open.

**`Remux_proofs`.**  Of `UnitPack`: `PacketsFitAlways`, `PacketsCoverAlways`.
`PackInv` adds `Link`, which ties the loop's variables `base` and `count` to the
last packet made: where it ends is where the next begins.

Of `Remux`, for any units, packet size and interleaving of the PIDs and any number
of packets lost or repeated: `GluedOnlyByLostStartAlways`, `RoundTripAlways` and
`FaultsStayAlways`.  The sender's part of the invariant (`SenderInv`) says that
packets are in the order of their units and each unit begins with a start.  For
the first theorem `RemuxInv` adds what is true of *open* units only
(`StartsLostAt`): every start of the PID sent behind a unit's first packet was
lost, since one that arrives closes the unit; so a unit goes on into another only
over a lost start.  The other two have one invariant, `FlowInv`.  On a PID
without a fault a unit either has its last packet or is still open and has the
latest packet sent of its PID (`WholeAt`), and there is a unit for each start
sent (`FlowWhole`).  When a packet arrives, either it is the next of the unit
that waits for it (`OpenWaits`), or it is a start and no unit waits
(`ClosedAreWhole`), because `ts_unit_pack` puts the packets of a unit next to each
other (`UnitGoesOn`, `UnitWentOn`).  When all are received none waits.

**`StreamPack_proofs`.**  `MergedByTimeAlways`, `TypeCorrect`,
`StreamsKeepOrderAlways`, `LostOnlyBehindUntimedAlways`, `FailsForCauseAlways`,
`OnePcrAlways`.  `MergedByTime` speaks of units already made; to keep it one must
know how what was taken of a stream compares with what the other streams are *at*
(`Ahead`).  Taking the least packet keeps that: for the stream taken from because
its packet is the least, for the others because their bound only grows.  The order
of each stream needs that the iterator counts what was taken (`NextIsCount`), in
both directions: each unit has its place as its number (`Numbered`), and each
place before the iterator has a unit (`AllTaken`).  What is lost and why a call
fails follows from where the iterators are: none has passed a packet without a
timestamp (`PassedAreTimed`) or that is too long (`PastLimits`), and a call that
returns 1 leaves none that could go on (`EndNotReady`).  `OnePcr` needs `Recorded`:
the flag says whether a unit of the PCR PID was made, as long as the call runs.

**`StreamUnpack_proofs`.**  `OneStreamPerPidAlways`, `FailureAttachesNothingAlways`,
`HoldsOnAlways`.  The invariant is `OneStreamPerPid` with the types, that a call's
units are among those given (units are numbered over all calls), and that entries
are read of a unit that exists.  `FailureAttachesNothing` speaks of calls that have
failed; `FailureInv` extends it to every phase from which a call can still fail,
and `RunningInv` keeps the result of an earlier call out of it.  `HoldsOn` is an
action property and follows for each action from the invariant.

`SucceedsIfTablesAgreeAlways` and `LoadsWhatTablesSayAlways` say what a call is
worth, for any units and whatever calls came before.  Both properties order what
is said by its place, a pair of unit and entry; what the program held before the
call is unit 0.  `Follows(c, said, P)` says what the code keeps of the places `P`
it has passed: none contradicts an earlier one, and `c` is the value they agree
on.  `Speaks` is the argument in one step: where the code adopts or accepts the
next value `Follows` is extended by its place, and where it returns -1 two places
contradict each other, so that the tables do not agree (`Fails`).
`ProgressInv` states this for each phase and each thing a table gives: the
program's PID over the PATs passed (`PatsTo`), the PCR PID over the PMTs
(`PmtsTo`), PID, type and descriptor of every stream over the entries, with the
order of listing (`RowsTo`), and the packets of every stream over the units
(`PacketsTo`).  Behind a call that returned 1 all of it is known of all units
(`AllRead`), until the next call begins or the caller changes the streams.

**`Pes_proofs`.**  `PcrAlways`, `ReadsBackAlways`, `DamageRefusedAlways`.  For the
PCR, `PcrInv` ties the bytes in each phase to the value they were made of.  The rest
is arithmetic: a base of 33 bits cut into words of 16, 16 and 1 bits and joined
again, for every value (`BaseParts`, `PcrParts`), and what the one-bit mask of the
other build leaves of it (`PcrRead`).

For the packet the lemmas follow the bytes.  `PackedParts` says at which place of
what `ts_pes_pack` writes each part is, with or without the parts that may be
absent; `TimeParts` and `TimeRead` are the timestamp, 33 bits in groups of 3, 15
and 15; `StartRead` and `HeadRead` are what the reads of `ts_pes_unpack` find.
They are stated of any bytes that begin with so many of the packet's (`Begins`),
so that the same lemmas serve both theorems: in `ReadsBack` all bytes are there, in
`DamageRefused` those before the fault, which are all of them when the end of a
packet was sent twice.  What is refused before anything is written is
`RefusedIfLong`.  `SentInv` says what a fault can do
(`Damaged`): it leaves the six bytes up to the length field and changes the length
of the whole, or it ends the packet within them.  So a length that is not 0 is
wrong (`UnpackRefusesDamage`) unless it was wrong before, which it is for the ids
without a header.  `MaxLength` is any number up to 65536, the real limit included,
which TLC could not reach.

**`Continuity_proofs`.**  `PayloadsNumberedAlways`, `GapsOnceAlways`,
`CountersAlways`, for any modulus.  They are inductive together: a counter is the
number of packets that counted, and each packet that counted got that number
(`NumberedByCount`).  A PID that has no counter has nothing written
(`WrittenHaveCounters`), or a new counter would start behind what it counts.  A
gap happens once because a packet that was written has a corrected payload bit
ever after (`WrittenCorrected`), whichever list it is moved to.

**`PacketLoad_proofs`.**  `SoundPrefixAlways`, `FailsForCauseAlways`,
`NothingBehindBadFieldAlways`, for any packet size and any file.  As long as the
packets read are sound the cursor is behind the last of them (`InStep`), so that the
next read is of the next packet and not from inside one; the call does not end before the
first that is not sound (`CountedAll`).  Packets are read only of a file that can
be, and of an empty one none, because its stream is never valid (`InvalidIsEmpty`);
that leaves the causes of `FailsForCause` (`RefusedForCause`).  A first unsound
packet with a bad field is what the next read is of, and no read gets past it
(`BadFieldEnds`).

**`PacketSave_proofs`.**  `PacketsInStepAlways`, `FileReplacedAlways`.  The sizes
laid out are those of the packets at their positions (`SizesOfPackets`), and the
file holds all the bytes when the loop of writes ends well and fewer when it does
not (`WrittenSoFar`), whatever part each write takes.

Only model-checked:

* All of `Sections` and `Program`, which build bytes and sizes with concatenations
  of sequences of sequences and sums.  These are recursive functions: what they
  yield for every input is induction over data, out of the prover's reach.
* `CallReturns` of `StreamUnpack`: liveness under fairness.

The proofs use induction over behaviours only.

## Not modelled

* The value of the CRC of a section: it is written and never read.  That reading
  does not look at it is modelled (`ReadsBack`, `WrongOnlyBehindDamage`).
* Header bits that both directions copy and nothing depends on: transport error
  and priority, scrambling, the flags, OPCR and splice countdown of an adaptation
  field.
* The fields of `ts_ebp` behind its marker: read and printed, never written.
* Allocation failure: every `malloc` that fails ends in `abort`.
* The `_debug` functions, which print, except for what `ts_packet_debug` changes.
* libdynamic, taken as lists, vectors and buffers that do what their names say.
* The examples: callers of the library that keep no state, and `h264_debug`, which
  prints the NAL units of a file and uses none of it.

Two hazards have no property.  PTS wrap around (`ts_stream.c:293`): the merge uses
the plain order, so a program that passes 2^33 is merged wrongly behind it, which
`MergedByTime` cannot show because it is stated in the code's order.
`ts_packets_append` of a list to itself (`ts_packets.c:154`) does not end; no
caller does it.

## Plan

Done, in this order: the demultiplexer and its abstract specification, packing
units, the two composed with a faulty channel, the program level in both
directions, the packet level (counters, loading, saving); then the bytes of
tables, PES packets and PCRs, and all layers composed from program to program;
then the proofs: every property of `Units`, `UnitPack`, `Remux`, `StreamPack`,
`Continuity`, `PacketLoad`, `PacketSave` and `Pes`, and every safety property of
`StreamUnpack`.

Left:

1. `AdaptationField`: the flags and the optional parts of an adaptation field byte
   by byte, with the EBP, as `Sections` does for tables.
2. Time in `StreamPack` modulo a bound, with the merge that a program across the
   wrap should have.

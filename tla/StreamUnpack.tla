---------------------------- MODULE StreamUnpack ----------------------------
(***************************************************************************)
(* ts_stream_unpack: a program built from units, over any number of calls. *)
(*                                                                         *)
(* A call reads every PAT among the units, then every PMT on the program's *)
(* PID, then the PES packets of each stream the PMTs listed.  What a table *)
(* says must agree with what the program already holds, from this call or  *)
(* an earlier one; on the first disagreement the call returns -1 and       *)
(* leaves the program as far as it got.                                    *)
(***************************************************************************)
EXTENDS Integers, Sequences, SequencesExt, FiniteSets

CONSTANTS
  Units,        \* the units a call may be given
  CallerPids,   \* PIDs a caller may create or delete streams for
  MaxUnits      \* bound: units given over all calls

(* One stream of a PMT; 0 stands for a descriptor with tag 0, no entry.    *)
EntryType == [pid : Nat, type : Nat, descriptor : Nat]

(* A unit, by what its bytes parse as: the first bytes of a PES packet are *)
(* never a section's, and a section is a PAT or a PMT by its id, so it is  *)
(* one thing at most.  "short" is a section cut off before its length is   *)
(* reached: the parsers return 0 for it, having set nothing; "junk" is     *)
(* none of these (-1).  program is a PAT's, pcr and entries are a PMT's.   *)
UnitType ==
  [pid : Nat, kind : {"pat", "pmt", "pes", "short", "junk"}, program : Nat,
   pcr : Nat, entries : Seq(EntryType)]

ASSUME UnitsAssumption == Units \subseteq UnitType
ASSUME BoundAssumption == MaxUnits \in Nat /\ CallerPids \subseteq Nat

VARIABLES
  program_pid, pcr_pid, streams,    \* the ts_stream
  input,     \* the units of the running call, or of the last
  phase,     \* "idle", or the part that runs: "pat", "pmt", "entries", "pes"
  at,        \* the unit it is at; in "pes" the stream it is at
  entry,     \* the entry of the PMT it is at; in "pes" the unit
  result,    \* what the last call returned; 0 while one runs, and when the
             \* caller has created or deleted a stream since
  before,    \* history: the ts_stream when the call began
  given      \* history: units given in earlier calls and this one

program == <<program_pid, pcr_pid, streams>>
vars == <<program, input, phase, at, entry, result, before, given>>

(* packets are the numbers of the units whose PES packet a stream has.     *)
StreamType ==
  [pid : Nat, type : Nat, descriptor : Nat, packets : Seq(Nat \ {0})]

TypeOK ==
  /\ program_pid \in Nat /\ pcr_pid \in Nat
  /\ streams \in Seq(StreamType)
  /\ input \in Seq(UnitType)
  /\ phase \in {"idle", "pat", "pmt", "entries", "pes"}
  /\ at \in Nat \ {0} /\ entry \in Nat \ {0}
  /\ result \in {-1, 0, 1}
  /\ before \in Nat \X Nat \X Seq(StreamType)
  /\ given \in Nat

Init ==
  /\ program_pid = 0 /\ pcr_pid = 0 /\ streams = <<>>
  /\ input = <<>>
  /\ phase = "idle"
  /\ at = 1 /\ entry = 1
  /\ result = 0
  /\ before = <<0, 0, <<>>>>
  /\ given = 0

-----------------------------------------------------------------------------
Pids == {streams[s].pid : s \in 1..Len(streams)}

(* ts_stream_lookup: the first stream with the PID.                        *)
Lookup(pid) ==
  CHOOSE s \in 1..Len(streams) :
    /\ streams[s].pid = pid
    /\ \A r \in 1..(s - 1) : streams[r].pid # pid

(* The number of the n-th unit of the call.                                *)
Number(n) == given - Len(input) + n

\* Fault: a new stream takes a unit at once.
NewStreamLoaded(pid, type, descriptor) ==
  [pid |-> pid, type |-> type, descriptor |-> descriptor,
   packets |-> IF input = <<>> THEN <<>> ELSE <<Number(1)>>]

NewStream(pid, type, descriptor) ==
  [pid |-> pid, type |-> type, descriptor |-> descriptor, packets |-> <<>>]

Begin(us) ==
  /\ phase = "idle"
  /\ input' = us
  /\ phase' = "pat"
  /\ at' = 1 /\ entry' = 1
  /\ result' = 0
  /\ before' = program
  /\ given' = given + Len(us)
  /\ UNCHANGED program

Return(n) ==
  /\ phase' = "idle"
  /\ result' = n
  /\ UNCHANGED <<input, at, entry, before, given>>

Goto(p, n) ==
  /\ phase' = p
  /\ at' = n
  /\ entry' = 1
  /\ UNCHANGED <<input, result, before, given>>

\* Fault: a later table overwrites.
AdoptNew(old, new) == new

(* A value the program holds, once set, is not set again.                  *)
Adopt(old, new) == IF old = 0 THEN new ELSE old

-----------------------------------------------------------------------------
(* ts_stream_unpack_pat.  A short unit names program 0.                    *)
ReadPat ==
  /\ phase = "pat"
  /\ at <= Len(input)
  /\ LET u == input[at]
         named == IF u.kind = "pat" THEN u.program ELSE 0
     IN \/ /\ u.pid # 0
           /\ Goto("pat", at + 1)
           /\ UNCHANGED program
        \/ /\ u.pid = 0
           /\ u.kind \notin {"pat", "short"}
           /\ Return(-1)
           /\ UNCHANGED program
        \/ /\ u.pid = 0
           /\ u.kind \in {"pat", "short"}
           /\ program_pid' = Adopt(program_pid, named)
           /\ IF program_pid' = named THEN Goto("pat", at + 1) ELSE Return(-1)
           /\ UNCHANGED <<pcr_pid, streams>>

EndPat ==
  /\ phase = "pat"
  /\ at > Len(input)
  /\ IF program_pid = 0 THEN Return(-1) ELSE Goto("pmt", 1)
  /\ UNCHANGED program

(* ts_stream_unpack_pmt, up to the streams of the table.  A short unit     *)
(* names PCR PID 0 and lists no streams.                                   *)
ReadPmt ==
  /\ phase = "pmt"
  /\ at <= Len(input)
  /\ LET u == input[at]
         named == IF u.kind = "pmt" THEN u.pcr ELSE 0
     IN \/ /\ u.pid # program_pid
           /\ Goto("pmt", at + 1)
           /\ UNCHANGED program
        \/ /\ u.pid = program_pid
           /\ u.kind \notin {"pmt", "short"}
           /\ Return(-1)
           /\ UNCHANGED program
        \/ /\ u.pid = program_pid
           /\ u.kind \in {"pmt", "short"}
           /\ pcr_pid' = Adopt(pcr_pid, named)
           /\ \/ pcr_pid' # named /\ Return(-1)
              \/ pcr_pid' = named /\ u.kind = "pmt" /\ Goto("entries", at)
              \/ pcr_pid' = named /\ u.kind = "short" /\ Goto("pmt", at + 1)
           /\ UNCHANGED <<program_pid, streams>>

\* Fault: ts_stream_create without the lookup.
CreatedAlways(e) == Append(streams, NewStream(e.pid, 0, 0))

(* The stream an entry finds, or creates.                                  *)
Created(e) ==
  IF e.pid \in Pids THEN streams ELSE Append(streams, NewStream(e.pid, 0, 0))

At(e) == IF e.pid \in Pids THEN Lookup(e.pid) ELSE Len(streams) + 1

(* The descriptor is looked at only when the type agrees.                  *)
ReadEntry ==
  /\ phase = "entries"
  /\ entry <= Len(input[at].entries)
  /\ LET e == input[at].entries[entry]
         s == Created(e)[At(e)]
         type == Adopt(s.type, e.type)
         descriptor == IF type = e.type THEN Adopt(s.descriptor, e.descriptor)
                                        ELSE s.descriptor
     IN /\ streams' = [Created(e) EXCEPT ![At(e)] =
                         [s EXCEPT !.type = type, !.descriptor = descriptor]]
        /\ IF type = e.type /\ descriptor = e.descriptor
             THEN /\ entry' = entry + 1
                  /\ UNCHANGED <<phase, at, input, result, before, given>>
             ELSE Return(-1)
  /\ UNCHANGED <<program_pid, pcr_pid>>

\* Fault: the same table again.
EndEntriesAgain ==
  /\ phase = "entries"
  /\ entry > Len(input[at].entries)
  /\ Goto("pmt", at)
  /\ UNCHANGED program

EndEntries ==
  /\ phase = "entries"
  /\ entry > Len(input[at].entries)
  /\ Goto("pmt", at + 1)
  /\ UNCHANGED program

EndPmt ==
  /\ phase = "pmt"
  /\ at > Len(input)
  /\ Goto("pes", 1)
  /\ UNCHANGED program

-----------------------------------------------------------------------------
(* ts_stream_unpack_pes: every stream goes through all the units.          *)
IsPesOf(u, s) == u.pid = s.pid /\ u.kind = "pes"

Advance ==
  /\ entry' = entry + 1
  /\ UNCHANGED <<program_pid, pcr_pid, input, phase, at, result, before, given>>

\* Fault: what the stream had is replaced.
ReadPesReplacing ==
  /\ phase = "pes"
  /\ at <= Len(streams) /\ entry <= Len(input)
  /\ IsPesOf(input[entry], streams[at])
  /\ streams' = [streams EXCEPT ![at].packets = <<Number(entry)>>]
  /\ Advance

ReadPes ==
  /\ phase = "pes"
  /\ at <= Len(streams) /\ entry <= Len(input)
  /\ IsPesOf(input[entry], streams[at])
  /\ streams' = [streams EXCEPT ![at].packets = Append(@, Number(entry))]
  /\ Advance

(* A unit of another PID, or one of this PID that is no PES packet.        *)
SkipUnit ==
  /\ phase = "pes"
  /\ at <= Len(streams) /\ entry <= Len(input)
  /\ ~IsPesOf(input[entry], streams[at])
  /\ Advance
  /\ UNCHANGED streams

EndUnits ==
  /\ phase = "pes"
  /\ at <= Len(streams) /\ entry > Len(input)
  /\ Goto("pes", at + 1)
  /\ UNCHANGED program

EndPes ==
  /\ phase = "pes"
  /\ at > Len(streams)
  /\ Return(1)
  /\ UNCHANGED program

(* ts_stream_create and ts_stream_delete by the caller, between calls.     *)
Create(pid) ==
  /\ phase = "idle"
  /\ pid \notin Pids
  /\ streams' = Append(streams, NewStream(pid, 0, 0))
  /\ result' = 0
  /\ UNCHANGED <<program_pid, pcr_pid, input, phase, at, entry, before, given>>

Delete(pid) ==
  /\ phase = "idle"
  /\ pid \in Pids
  /\ streams' = RemoveAt(streams, Lookup(pid))
  /\ result' = 0
  /\ UNCHANGED <<program_pid, pcr_pid, input, phase, at, entry, before, given>>

Steps ==
  \/ ReadPat \/ EndPat \/ ReadPmt \/ ReadEntry \/ EndEntries \/ EndPmt
  \/ ReadPes \/ SkipUnit \/ EndUnits \/ EndPes

Next ==
  \/ \E us \in BoundedSeq(Units, MaxUnits - given) : Begin(us)
  \/ Steps
  \/ \E pid \in CallerPids : Create(pid) \/ Delete(pid)

(* A call is synchronous: what has begun runs on.                          *)
Spec == Init /\ [][Next]_vars /\ WF_vars(Steps)

-----------------------------------------------------------------------------
(* ts_stream_create, ts_stream.c:93: a PID has one stream at most, however *)
(* many tables and calls list it.                                          *)
OneStreamPerPid ==
  \A r, s \in 1..Len(streams) : streams[r].pid = streams[s].pid => r = s

(* The tables speak in turn: the p[2]-th entry of the unit p[1] of the     *)
(* call, or what the program held before it, which is unit 0.              *)
Earlier(p, q) == p[1] < q[1] \/ (p[1] = q[1] /\ p[2] < q[2])

(* What is said in turn is agreed on: it is not given (0) up to some       *)
(* point, and the same from there on.                                      *)
Agreed(said) ==
  \A p, q \in DOMAIN said : Earlier(p, q) /\ said[p] # 0 => said[q] = said[p]

AgreedOn(said) ==
  IF \E p \in DOMAIN said : said[p] # 0
    THEN said[CHOOSE p \in DOMAIN said : said[p] # 0]
    ELSE 0

UnitsOn(pid) == {n \in 1..Len(input) : input[n].pid = pid}
PesUnits(pid) == {n \in UnitsOn(pid) : input[n].kind = "pes"}

ProgramPids ==
  [p \in ({0} \cup UnitsOn(0)) \X {1} |->
     IF p[1] = 0 THEN before[1]
     ELSE IF input[p[1]].kind = "pat" THEN input[p[1]].program ELSE 0]

Tables == UnitsOn(AgreedOn(ProgramPids))

PcrPids ==
  [p \in ({0} \cup Tables) \X {1} |->
     IF p[1] = 0 THEN before[2]
     ELSE IF input[p[1]].kind = "pmt" THEN input[p[1]].pcr ELSE 0]

(* The streams held, and the entries of the tables.                        *)
Held == {0} \X (1..Len(before[3]))
Entries ==
  UNION {{n} \X (1..Len(input[n].entries)) :
           n \in {m \in Tables : input[m].kind = "pmt"}}

Row(p) == IF p[1] = 0 THEN before[3][p[2]] ELSE input[p[1]].entries[p[2]]
Rows(pid) == {p \in Held \cup Entries : Row(p).pid = pid}

Types(pid) == [p \in Rows(pid) |-> Row(p).type]
Descriptors(pid) == [p \in Rows(pid) |-> Row(p).descriptor]

Loadable ==
  /\ \A n \in UnitsOn(0) : input[n].kind \in {"pat", "short"}
  /\ Agreed(ProgramPids) /\ AgreedOn(ProgramPids) # 0
  /\ \A n \in Tables : input[n].kind \in {"pmt", "short"}
  /\ Agreed(PcrPids)
  /\ \A p \in Entries :
       Agreed(Types(Row(p).pid)) /\ Agreed(Descriptors(Row(p).pid))

(* ts_stream_unpack, ts_stream.c:152-269.  A call succeeds exactly when    *)
(* the tables among its units agree with each other and with the program:  *)
(* and only to begin with may a table leave a value out.                   *)
SucceedsIfTablesAgree == result # 0 => (result = 1 <=> Loadable)

(* ts_stream_unpack, ts_stream.c:327-363.  After a successful call the     *)
(* program is what the tables say: the streams it had, then those first    *)
(* listed now, in the order of listing, with the PES packets of the call   *)
(* on each one's PID added in file order, also those before the table.     *)
LoadsWhatTablesSay ==
  result = 1 =>
    /\ program_pid = AgreedOn(ProgramPids) /\ pcr_pid = AgreedOn(PcrPids)
    /\ Pids = {Row(p).pid : p \in Held \cup Entries}
    /\ \A r, s \in 1..Len(streams) :
         r < s => \E p \in Rows(streams[r].pid) :
                    \A q \in Rows(streams[s].pid) : Earlier(p, q)
    /\ \A s \in 1..Len(streams) :
         LET x == streams[s]
             held == IF s <= Len(before[3]) THEN before[3][s].packets ELSE <<>>
             new == (Len(held) + 1)..Len(x.packets)
         IN /\ s <= Len(before[3]) => x.pid = before[3][s].pid
            /\ x.type = AgreedOn(Types(x.pid))
            /\ x.descriptor = AgreedOn(Descriptors(x.pid))
            /\ IsPrefix(held, x.packets)
            /\ {x.packets[i] : i \in new} = {Number(n) : n \in PesUnits(x.pid)}
            /\ \A i, j \in new : i < j => x.packets[i] < x.packets[j]

(* ts_stream_unpack, ts_stream.c:369-373.  A call that fails has attached  *)
(* no PES packet and removed no stream, whatever its tables have changed.  *)
FailureAttachesNothing ==
  result = -1 =>
    /\ Len(before[3]) <= Len(streams)
    /\ \A s \in 1..Len(streams) :
         streams[s].packets =
           IF s <= Len(before[3]) THEN before[3][s].packets ELSE <<>>

(* ts_stream_unpack, ts_stream.c:165, 240, 251 and 258: what the program   *)
(* holds once set is never changed by a table, only deleted by the caller. *)
HoldsOn ==
  [][phase # "idle" =>
       /\ program_pid # 0 => program_pid' = program_pid
       /\ pcr_pid # 0 => pcr_pid' = pcr_pid
       /\ \A s \in 1..Len(streams) :
            LET x == streams[s]
                y == streams'[s]
            IN /\ y.pid = x.pid
               /\ x.type # 0 => y.type = x.type
               /\ x.descriptor # 0 => y.descriptor = x.descriptor
               /\ IsPrefix(x.packets, y.packets)
    ]_vars

(* ts_stream_unpack: every call returns.                                   *)
CallReturns == (phase # "idle") ~> (phase = "idle")

=============================================================================

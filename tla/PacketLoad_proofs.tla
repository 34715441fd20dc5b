------------------------- MODULE PacketLoad_proofs -------------------------
(***************************************************************************)
(* Proofs about PacketLoad, for any packets in files of any length: up to  *)
(* the first packet that is not sound the cursor stays in step with the    *)
(* packets of the file.                                                    *)
(***************************************************************************)
EXTENDS PacketLoad, SequenceTheorems, TLAPS

(* What the n-th packet of the file is loaded as.                          *)
Loaded(n) ==
  [from |-> n, frame |-> file[n],
   size |-> IF file[n].payload THEN PacketSize - Consumed(file[n]) ELSE 0]

PrefixLoaded ==
  \A n \in 1..Len(file) :
    SoundUpTo(n) /\ n <= Len(list) => list[n] = Loaded(n)

(* As long as all the packets read were sound, the cursor is behind the    *)
(* last of them.                                                           *)
InStep ==
  Len(list) <= Len(file) /\ SoundUpTo(Len(list)) /\ result # "-1" =>
    begin = PacketSize * Len(list)

(* The call does not end before the first packet that is not sound.        *)
CountedAll ==
  \A n \in 1..Len(file) : SoundUpTo(n) /\ result = "count" => n <= Len(list)

(* A file of sound packets is not read further than its last one.          *)
NoMoreThanFile == SoundUpTo(Len(file)) => Len(list) <= Len(file)

(* Packets are read only of a file that was, and their stream is not valid *)
(* only when it has no bytes.                                              *)
InvalidIsEmpty ==
  /\ result = "reading" => list = <<>> /\ begin = 0
  /\ result = "running" => readable
  /\ result = "running" /\ ~valid => list = <<>> /\ Total = 0
  /\ result = "running" /\ valid => Total > 0
  /\ result = "count" => readable /\ Total > 0

RefusedForCause ==
  SoundUpTo(Len(file)) =>
    /\ result # "aborted"
    /\ result = "-1" => list = <<>> /\ (~readable \/ Total = 0)

(* The first packet that is not sound, if its field is bad, is not loaded, *)
(* and the call that ends at it does so for the cause that there is.       *)
BadFieldEnds ==
  \A n \in 1..Len(file) : SoundUpTo(n - 1) /\ BadField(file[n]) =>
    /\ Len(list) < n
    /\ result = "count" => PrivatePastEnd(n)
    /\ result = "aborted" => file[n].payload /\ Consumed(file[n]) > PacketSize

Inv ==
  /\ TypeOK
  /\ PrefixLoaded /\ InStep /\ CountedAll /\ NoMoreThanFile
  /\ InvalidIsEmpty /\ RefusedForCause /\ BadFieldEnds

-----------------------------------------------------------------------------
LEMMA Multiples ==
  ASSUME NEW P \in Nat \ {0}, NEW m \in Nat
  PROVE  /\ P * m \in Nat
         /\ (P * m) % P = 0
         /\ (P * m) \div P = m
         /\ P * (m + 1) = P * m + P
         /\ \A n \in Nat : m < n => P * m + P <= P * n
  OBVIOUS

LEMMA FrameFacts ==
  ASSUME NEW f \in Frames
  PROVE  /\ f \in FrameType
         /\ f.field \in BOOLEAN /\ f.payload \in BOOLEAN /\ f.private \in BOOLEAN
         /\ f.len \in Nat
         /\ Needed(f) \in Nat /\ Consumed(f) \in Nat /\ FieldBytes(f) = 1 + f.len
         /\ Consumed(f) = IF f.field THEN 5 + f.len ELSE 4
         /\ PacketSize \in Nat /\ 5 < PacketSize
<1>1. f \in FrameType /\ HeaderSize + 1 + f.fixed + 1 <= PacketSize /\ PacketSize \in Nat
  BY LoadAssumption
<1>2. /\ f.field \in BOOLEAN /\ f.payload \in BOOLEAN /\ f.private \in BOOLEAN
      /\ f.len \in Nat /\ f.fixed \in Nat \ {0} /\ f.private_size \in Nat
  BY <1>1 DEF FrameType
<1>3. 5 < PacketSize
  BY <1>1, <1>2 DEF HeaderSize
<1>4. Needed(f) \in Nat
  BY <1>2 DEF Needed
<1>5. FieldBytes(f) = 1 + f.len /\ Consumed(f) = IF f.field THEN 5 + f.len ELSE 4
  BY <1>2 DEF FieldBytes, Consumed, HeaderSize
<1>6. Consumed(f) \in Nat
  BY <1>2, <1>5
<1> QED BY <1>1, <1>2, <1>3, <1>4, <1>5, <1>6

LEMMA CursorFacts ==
  ASSUME TypeOK
  PROVE  /\ PacketSize \in Nat /\ Len(file) \in Nat /\ Len(list) \in Nat
         /\ tail \in Nat /\ tail < PacketSize
         /\ PacketSize * Len(file) \in Nat
         /\ Total = PacketSize * Len(file) + tail
         /\ Total \in Nat /\ begin \in Nat /\ begin <= Total
         /\ Left = IF valid THEN Total - begin ELSE 0
         /\ Left \in Nat
<1>1. PacketSize \in Nat /\ tail \in Nat /\ tail < PacketSize
  BY LoadAssumption DEF TypeOK
<1>2. Len(file) \in Nat /\ Len(list) \in Nat
  BY LenProperties DEF TypeOK
<1>3. PacketSize * Len(file) \in Nat
  BY <1>1, <1>2
<1>4. begin \in 0..Total /\ Total = PacketSize * Len(file) + tail
  BY DEF TypeOK, Total
<1> QED BY <1>1, <1>2, <1>3, <1>4 DEF Left

(* As long as the packets were sound, the next one is the file's next.     *)
LEMMA NextIsFiles ==
  ASSUME Inv, NEW f \in Frames, Running, f \in Here,
         Len(list) <= Len(file), SoundUpTo(Len(list))
  PROVE  /\ Len(list) < Len(file)
         /\ begin = PacketSize * Len(list)
         /\ begin \in Nat
         /\ PacketSize * (Len(list) + 1) = begin + PacketSize
         /\ Aligned /\ Number = Len(list) + 1
         /\ f = file[Len(list) + 1]
<1>1. TypeOK /\ 5 < PacketSize
  BY FrameFacts DEF Inv
<1> DEFINE m == Len(list)
<1>2. /\ PacketSize \in Nat \ {0} /\ Len(file) \in Nat /\ m \in Nat
      /\ tail \in Nat /\ tail < PacketSize
      /\ Total = PacketSize * Len(file) + tail
      /\ Left = IF valid THEN Total - begin ELSE 0
      /\ begin \in Nat
  BY <1>1, CursorFacts
<1>3. begin = PacketSize * m
  BY DEF Inv, InStep, Running
<1>4. Total - begin >= PacketSize
  BY <1>2 DEF Running
<1>5. m < Len(file)
  <2> SUFFICES ASSUME m = Len(file) PROVE FALSE
    BY <1>2
  <2> QED BY <1>2, <1>3, <1>4
<1>6. /\ begin % PacketSize = 0 /\ begin \div PacketSize = m
      /\ PacketSize * (m + 1) = begin + PacketSize
  BY <1>2, <1>3, Multiples
<1>7. Aligned /\ Number = m + 1
  BY <1>6 DEF Aligned, Number
<1> QED BY <1>2, <1>3, <1>5, <1>6, <1>7 DEF Here

LEMMA SoundReads ==
  ASSUME TypeOK, NEW f \in Frames, Sound(f), Left >= PacketSize
  PROVE  /\ FieldReads(f) /\ ~FieldStops(f)
         /\ f.payload => Consumed(f) <= PacketSize
         /\ ~f.payload => Consumed(f) = PacketSize
<1>1. Left \in Nat /\ PacketSize \in Nat
  BY CursorFacts
<1>2. /\ f.field \in BOOLEAN /\ f.payload \in BOOLEAN /\ f.private \in BOOLEAN
      /\ f.len \in Nat /\ Needed(f) \in Nat /\ Consumed(f) \in Nat
      /\ Consumed(f) = IF f.field THEN 5 + f.len ELSE 4
  BY FrameFacts
<1>3. Consumed(f) <= PacketSize /\ (~f.payload => Consumed(f) = PacketSize)
  BY <1>1, <1>2 DEF Sound
<1>4. f.field /\ f.len # 0 => Needed(f) <= f.len
  BY DEF Sound
<1>5. FieldReads(f)
  BY <1>1, <1>2, <1>3, <1>4 DEF FieldReads
<1>6. ~FieldStops(f)
  BY <1>1, <1>2, <1>3, <1>4 DEF FieldStops, PrivateFits, HeaderSize
<1> QED BY <1>3, <1>5, <1>6

-----------------------------------------------------------------------------
LEMMA InvInit == Init => Inv
<1> SUFFICES ASSUME Init PROVE Inv
  OBVIOUS
<1>1. file \in Seq(Frames)
  <2>1. PICK n \in 0..MaxFrames : file \in [1..n -> Frames]
    BY DEF Init
  <2>2. n \in Nat
    BY <2>1, LoadAssumption
  <2> QED BY <2>1, <2>2, SeqDef
<1>2. Len(file) \in Nat /\ PacketSize \in Nat /\ tail \in Nat
  BY <1>1, LoadAssumption, LenProperties DEF Init
<1>3. PacketSize * Len(file) + tail \in Nat
  BY <1>2
<1>4. begin \in 0..(PacketSize * Len(file) + tail)
  BY <1>3 DEF Init
<1>5. TypeOK
  BY <1>1, <1>4 DEF Init, TypeOK
<1>6. Len(list) = 0 /\ result = "reading" /\ begin = 0 /\ list = <<>>
  BY DEF Init
<1>7. PrefixLoaded /\ CountedAll /\ NoMoreThanFile /\ InvalidIsEmpty
  BY <1>2, <1>6 DEF PrefixLoaded, CountedAll, NoMoreThanFile, InvalidIsEmpty
<1>9. RefusedForCause /\ BadFieldEnds
  BY <1>2, <1>6 DEF RefusedForCause, BadFieldEnds
<1>8. InStep
  BY <1>2, <1>6 DEF InStep
<1> QED BY <1>5, <1>7, <1>8, <1>9 DEF Inv

(* What the steps that read no packet have to show.                        *)
LEMMA ListKept ==
  ASSUME Inv, UNCHANGED <<file, list>>
  PROVE  PrefixLoaded' /\ NoMoreThanFile'
  BY DEF Inv, PrefixLoaded, NoMoreThanFile, Loaded, SoundUpTo

(* A step that does not end the call, or fails, says nothing new of a bad  *)
(* field.                                                                  *)
LEMMA BadFieldKept ==
  ASSUME Inv, UNCHANGED <<file, tail, list>>,
         result' \in {"running", "-1", result}
  PROVE  BadFieldEnds'
<1>1. Total' = Total /\ \A n \in 1..Len(file) : SoundUpTo(n - 1)' = SoundUpTo(n - 1)
  BY DEF Total, SoundUpTo
<1>2. \A n \in 1..Len(file) : PrivatePastEnd(n)' = PrivatePastEnd(n)
  BY <1>1 DEF PrivatePastEnd
<1> QED BY <1>1, <1>2 DEF Inv, BadFieldEnds

(* Up to a bad field the next packet read is one of those before it, or    *)
(* the packet that has it.                                                 *)
LEMMA NextUpToBad ==
  ASSUME Inv, NEW f \in Frames, Running, f \in Here,
         NEW n \in 1..Len(file), SoundUpTo(n - 1), BadField(file[n])
  PROVE  /\ Len(list) < n
         /\ f = file[Len(list) + 1]
         /\ Len(list) + 1 = n \/ Sound(f)
         /\ begin = PacketSize * Len(list)
<1>1. Len(file) \in Nat /\ Len(list) \in Nat
  BY CursorFacts DEF Inv
<1>2. Len(list) < n
  BY DEF Inv, BadFieldEnds
<1>3. Len(list) <= Len(file) /\ SoundUpTo(Len(list))
  BY <1>1, <1>2 DEF SoundUpTo
<1>4. f = file[Len(list) + 1] /\ begin = PacketSize * Len(list)
  BY <1>3, NextIsFiles
<1>5. Len(list) + 1 # n => Len(list) + 1 \in 1..(n - 1)
  BY <1>1, <1>2
<1>6. Len(list) + 1 = n \/ Sound(f)
  BY <1>4, <1>5 DEF SoundUpTo
<1> QED BY <1>2, <1>4, <1>6

LEMMA ReadFileKeeps ==
  ASSUME Inv, ReadFile \/ ReadFails
  PROVE  Inv'
<1>1. /\ UNCHANGED <<file, tail, readable, begin, list>>
      /\ result = "reading" /\ result' \in {"running", "-1"}
      /\ result' = "-1" => ~readable
      /\ result' = "running" => readable /\ valid' = (Total > 0)
  BY DEF ReadFile, ReadFails
<1>6. valid' \in BOOLEAN
  <2>1. valid \in BOOLEAN /\ (Total > 0) \in BOOLEAN
    BY CursorFacts DEF Inv, TypeOK
  <2>2. valid' = (Total > 0) \/ valid' = valid
    BY Zenon DEF ReadFile, ReadFails
  <2> QED BY <2>1, <2>2, Zenon
<1>2. TypeOK'
  BY <1>1, <1>6 DEF Inv, TypeOK
<1>3. list = <<>> /\ begin = 0
  BY <1>1 DEF Inv, InvalidIsEmpty
<1>4. InStep' /\ CountedAll'
  BY <1>1 DEF Inv, InStep, CountedAll, SoundUpTo
<1>5. InvalidIsEmpty'
  <2>1. Total' = Total /\ Total \in Nat
    BY <1>1, CursorFacts DEF Inv, Total
  <2>2. Total = 0 \/ Total > 0
    BY <2>1
  <2> QED BY <1>1, <1>3, <2>1, <2>2 DEF InvalidIsEmpty
<1>7. RefusedForCause'
  BY <1>1, <1>3 DEF RefusedForCause
<1> QED BY <1>1, <1>2, <1>4, <1>5, <1>7, ListKept, BadFieldKept DEF Inv

LEMMA TakePacketKeeps ==
  ASSUME Inv, NEW f \in Frames, TakePacket(f)
  PROVE  Inv'
<1> DEFINE m == Len(list)
           size == IF f.payload THEN PacketSize - Consumed(f) ELSE 0
           moved == IF f.payload THEN PacketSize ELSE Consumed(f)
           x == [from |-> IF Aligned THEN Number ELSE 0, frame |-> f, size |-> size]
<1>1. /\ f.field \in BOOLEAN /\ f.payload \in BOOLEAN
      /\ f \in FrameType
      /\ f.len \in Nat /\ Needed(f) \in Nat /\ Consumed(f) \in Nat
      /\ FieldBytes(f) = 1 + f.len
      /\ Consumed(f) = IF f.field THEN 5 + f.len ELSE 4
      /\ PacketSize \in Nat /\ 5 < PacketSize
  BY FrameFacts
<1>2. /\ PacketSize * Len(file) \in Nat /\ Len(file) \in Nat /\ m \in Nat
      /\ Total \in Nat /\ begin \in Nat /\ begin <= Total
      /\ Total = PacketSize * Len(file) + tail
      /\ Left = IF valid THEN Total - begin ELSE 0
  BY CursorFacts DEF Inv
<1>3. /\ Running /\ f \in Here
      /\ ~FieldStops(f) /\ FieldReads(f)
      /\ f.payload => Consumed(f) <= PacketSize
      /\ list' = Append(list, x)
      /\ begin' = begin + moved
      /\ UNCHANGED <<file, tail, readable, valid, result>>
  BY DEF TakePacket
<1>4. valid /\ Left >= PacketSize /\ Left = Total - begin /\ result = "running"
  BY <1>1, <1>2, <1>3 DEF Running
<1>5. Consumed(f) <= Left
  BY <1>1, <1>2, <1>3, <1>4 DEF FieldReads
<1>6. moved \in Nat /\ moved <= Left
  BY <1>1, <1>4, <1>5
<1>7. size \in Nat
  BY <1>1, <1>3
<1>8. x \in LoadedType
  <2>1. PacketSize \in Nat \ {0} /\ begin \in Nat
    BY <1>1, <1>2
  <2>2. Number \in Nat
    BY <2>1 DEF Number
  <2> QED BY <1>1, <1>7, <2>2 DEF LoadedType
<1>9. list \in Seq(LoadedType)
  BY DEF Inv, TypeOK
<1> HIDE DEF x
<1>10. /\ list' \in Seq(LoadedType)
       /\ Len(list') = m + 1
       /\ \A i \in 1..m : list'[i] = list[i]
       /\ list'[m + 1] = x
  BY <1>3, <1>8, <1>9, AppendProperties
<1>11. TypeOK'
  <2>1. begin' \in 0..Total
    BY <1>2, <1>3, <1>4, <1>6
  <2> QED BY <1>3, <1>10, <2>1 DEF Inv, TypeOK, Total
<1>12. ASSUME m <= Len(file), SoundUpTo(m)
       PROVE  /\ m < Len(file) /\ f = file[m + 1]
              /\ Sound(f) => x = Loaded(m + 1)
              /\ Sound(f) => begin' = PacketSize * (m + 1)
  <2>1. /\ m < Len(file)
        /\ PacketSize * (m + 1) = begin + PacketSize
        /\ Aligned /\ Number = m + 1
        /\ f = file[m + 1]
    BY <1>3, <1>12, NextIsFiles
  <2>2. x = Loaded(m + 1)
    BY <2>1 DEF x, Loaded
  <2>3. Sound(f) => moved = PacketSize
    BY <1>4, SoundReads DEF Inv
  <2> QED BY <1>3, <2>1, <2>2, <2>3
<1>13. \A n \in 1..Len(file) : n > m /\ SoundUpTo(n) =>
         SoundUpTo(m) /\ Sound(file[m + 1])
  BY <1>2 DEF SoundUpTo
<1>14. PrefixLoaded'
  <2> SUFFICES ASSUME NEW n \in 1..Len(file), SoundUpTo(n), n <= m + 1
               PROVE  list'[n] = Loaded(n)
    BY <1>3, <1>10 DEF PrefixLoaded, Loaded, SoundUpTo
  <2>1. CASE n <= m
    BY <1>2, <1>10, <2>1 DEF Inv, PrefixLoaded
  <2>2. CASE n = m + 1
    BY <1>2, <1>10, <1>12, <1>13, <2>2
  <2> QED BY <1>2, <2>1, <2>2
<1>15. InStep'
  <2> SUFFICES ASSUME m + 1 <= Len(file), SoundUpTo(m + 1)
               PROVE  begin' = PacketSize * (m + 1)
    BY <1>3, <1>10 DEF InStep, SoundUpTo
  <2> QED BY <1>2, <1>12, <1>13
<1>16. NoMoreThanFile'
  <2> SUFFICES ASSUME SoundUpTo(Len(file)) PROVE m + 1 <= Len(file)
    BY <1>3, <1>10 DEF NoMoreThanFile, SoundUpTo
  <2>1. m <= Len(file) /\ SoundUpTo(m)
    BY <1>2 DEF Inv, NoMoreThanFile, SoundUpTo
  <2> QED BY <1>2, <1>12, <2>1
<1>17. CountedAll' /\ InvalidIsEmpty' /\ RefusedForCause'
  <2>1. Total' = Total /\ readable /\ Total > 0
    BY <1>3, <1>4 DEF Inv, InvalidIsEmpty, Total
  <2> QED BY <1>3, <1>4, <2>1 DEF CountedAll, InvalidIsEmpty, RefusedForCause
<1>18. BadFieldEnds'
  <2> SUFFICES ASSUME NEW n \in 1..Len(file), SoundUpTo(n - 1), BadField(file[n])
               PROVE  m + 1 < n
    BY <1>3, <1>4, <1>10 DEF BadFieldEnds, SoundUpTo
  <2>1. /\ m < n /\ f = file[m + 1]
        /\ m + 1 = n \/ Sound(f)
    BY <1>3, NextUpToBad
  <2>2. ~BadField(f)
    BY <1>1, <1>3 DEF BadField, FieldReads
  <2> QED BY <1>2, <2>1, <2>2
<1> QED
  <2>1. result' = "running"
    BY <1>3, <1>4
  <2> QED BY <1>11, <1>14, <1>15, <1>16, <1>17, <1>18, <2>1 DEF Inv

LEMMA StopAtPrivateKeeps ==
  ASSUME Inv, NEW f \in Frames, StopAtPrivate(f)
  PROVE  Inv'
<1>1. /\ Running /\ f \in Here /\ FieldStops(f)
      /\ result' = "count" /\ result = "running"
      /\ UNCHANGED <<file, tail, readable, begin, valid, list>>
  BY DEF StopAtPrivate, Running
<1>2. Len(file) \in Nat /\ Len(list) \in Nat
  BY CursorFacts DEF Inv
<1>3. ASSUME NEW n \in 1..Len(file), SoundUpTo(n), n > Len(list)
      PROVE  FALSE
  <2>1. SoundUpTo(Len(list)) /\ Sound(file[Len(list) + 1]) /\ Len(list) <= Len(file)
    BY <1>2, <1>3 DEF SoundUpTo
  <2>2. f = file[Len(list) + 1]
    BY <1>1, <2>1, NextIsFiles
  <2> QED BY <1>1, <2>1, <2>2, SoundReads DEF Inv, Running
<1>4. CountedAll'
  BY <1>1, <1>2, <1>3 DEF CountedAll, SoundUpTo
<1>5. TypeOK' /\ InStep' /\ RefusedForCause'
  BY <1>1 DEF Inv, TypeOK, InStep, RefusedForCause, SoundUpTo
<1>6. valid /\ Left = Total - begin
  BY <1>1, CursorFacts, FrameFacts DEF Inv, Running
<1>7. InvalidIsEmpty'
  <2>1. Total' = Total /\ readable /\ Total > 0
    BY <1>1, <1>6 DEF Inv, InvalidIsEmpty, Total
  <2> QED BY <1>1, <2>1 DEF InvalidIsEmpty
<1>8. ASSUME NEW n \in 1..Len(file), SoundUpTo(n - 1), BadField(file[n])
      PROVE  Len(list) < n /\ PrivatePastEnd(n)
  <2>1. /\ Len(list) < n /\ f = file[Len(list) + 1]
        /\ Len(list) + 1 = n \/ Sound(f)
        /\ begin = PacketSize * Len(list)
    BY <1>1, <1>8, NextUpToBad
  <2>2. ~Sound(f)
    BY <1>1, SoundReads DEF Inv, Running
  <2>3. f = file[n] /\ begin = PacketSize * (n - 1)
    BY <1>2, <2>1, <2>2
  <2>4. f.private /\ ~(HeaderSize + 1 + Needed(f) <= Left)
    BY <1>1 DEF FieldStops, PrivateFits
  <2>5. /\ Needed(f) \in Nat /\ begin \in Nat /\ Total \in Nat
    BY CursorFacts, FrameFacts DEF Inv
  <2>6. begin + HeaderSize + 1 + Needed(f) > Total
    BY <1>6, <2>4, <2>5 DEF HeaderSize
  <2> QED BY <2>1, <2>3, <2>4, <2>6 DEF PrivatePastEnd
<1>9. BadFieldEnds'
  <2>1. \A n \in 1..Len(file) : PrivatePastEnd(n)' = PrivatePastEnd(n)
    BY <1>1 DEF PrivatePastEnd, Total
  <2> QED BY <1>1, <1>8, <2>1 DEF BadFieldEnds, SoundUpTo
<1> QED BY <1>1, <1>4, <1>5, <1>7, <1>9, ListKept DEF Inv

LEMMA BreakOrAbortKeeps ==
  ASSUME Inv, NEW f \in Frames, BreakStream(f) \/ Abort(f)
  PROVE  Inv'
<1>1. /\ Running /\ f \in Here /\ result = "running"
      /\ ~(~FieldStops(f) /\ FieldReads(f) /\ (f.payload => Consumed(f) <= PacketSize))
      /\ result' \in {"-1", "aborted"}
      /\ valid' \in {FALSE, valid} /\ begin' \in {0, begin}
      /\ result' = "aborted" =>
           begin' = begin /\ f.payload /\ Consumed(f) > PacketSize
      /\ UNCHANGED <<file, tail, readable, list>>
  <2>1. f.payload /\ Consumed(f) > PacketSize =>
          ~(f.payload => Consumed(f) <= PacketSize)
    BY FrameFacts
  <2> QED BY <2>1 DEF BreakStream, Abort, Running
<1>2. /\ Len(file) \in Nat /\ Len(list) \in Nat /\ begin \in Nat /\ Total \in Nat
      /\ begin <= Total
  BY CursorFacts DEF Inv
<1>3. ~SoundUpTo(Len(file))
  <2> SUFFICES ASSUME SoundUpTo(Len(file)) PROVE FALSE
    OBVIOUS
  <2>1. Len(list) <= Len(file) /\ SoundUpTo(Len(list))
    BY <1>2 DEF Inv, NoMoreThanFile, SoundUpTo
  <2>2. Len(list) < Len(file) /\ f = file[Len(list) + 1]
    BY <1>1, <2>1, NextIsFiles
  <2>3. Sound(f)
    BY <1>2, <2>2 DEF SoundUpTo
  <2> QED BY <1>1, <2>3, SoundReads DEF Inv, Running
<1>4. TypeOK'
  <2>1. begin' \in 0..Total
    BY <1>1, <1>2
  <2>2. valid' \in BOOLEAN
    BY <1>1 DEF Inv, TypeOK
  <2> QED BY <1>1, <2>1, <2>2 DEF Inv, TypeOK, Total
<1>5. InStep' /\ InvalidIsEmpty' /\ CountedAll'
  BY <1>1 DEF Inv, InStep, InvalidIsEmpty, CountedAll, SoundUpTo
<1>6. RefusedForCause'
  BY <1>1, <1>3 DEF RefusedForCause, SoundUpTo
<1>7. ASSUME NEW n \in 1..Len(file), SoundUpTo(n - 1), BadField(file[n])
      PROVE  Len(list) < n /\ f = file[n]
  <2>1. /\ Len(list) < n /\ f = file[Len(list) + 1]
        /\ Len(list) + 1 = n \/ Sound(f)
    BY <1>1, <1>7, NextUpToBad
  <2>2. ~Sound(f)
    BY <1>1, SoundReads DEF Inv, Running
  <2> QED BY <2>1, <2>2
<1>8. BadFieldEnds'
  BY <1>1, <1>7 DEF BadFieldEnds, SoundUpTo
<1> QED BY <1>1, <1>4, <1>5, <1>6, <1>8, ListKept DEF Inv

LEMMA LoadEndsKeeps ==
  ASSUME Inv, LoadEnds
  PROVE  Inv'
<1>1. /\ result = "running" /\ Left < PacketSize
      /\ result' = IF valid THEN "count" ELSE "-1"
      /\ UNCHANGED <<file, tail, readable, begin, valid, list>>
  BY DEF LoadEnds
<1>2. /\ PacketSize \in Nat \ {0} /\ Len(file) \in Nat /\ Len(list) \in Nat
      /\ tail \in Nat
      /\ Total = PacketSize * Len(file) + tail
      /\ Left = IF valid THEN Total - begin ELSE 0
      /\ begin \in Nat /\ PacketSize * Len(file) \in Nat
  BY CursorFacts DEF Inv
<1>3. ASSUME valid, NEW n \in 1..Len(file), SoundUpTo(n), n > Len(list)
      PROVE  FALSE
  <2>1. SoundUpTo(Len(list)) /\ Len(list) < Len(file)
    BY <1>2, <1>3 DEF SoundUpTo
  <2>2. begin = PacketSize * Len(list)
    BY <1>1, <1>2, <2>1 DEF Inv, InStep
  <2>3. PacketSize * Len(list) + PacketSize <= PacketSize * Len(file)
    BY <1>2, <2>1, Multiples
  <2> QED BY <1>1, <1>2, <1>3, <2>2, <2>3
<1>4. CountedAll'
  BY <1>1, <1>2, <1>3 DEF CountedAll, SoundUpTo
<1>5. RefusedForCause' /\ InvalidIsEmpty'
  <2>1. Total' = Total
    BY <1>1 DEF Total
  <2> QED BY <1>1, <2>1 DEF Inv, InvalidIsEmpty, RefusedForCause
<1>6. TypeOK' /\ InStep'
  BY <1>1 DEF Inv, TypeOK, InStep, SoundUpTo
<1>7. ASSUME valid, NEW n \in 1..Len(file), SoundUpTo(n - 1), BadField(file[n])
      PROVE  FALSE
  <2>1. Len(list) < n /\ Len(list) < Len(file) /\ SoundUpTo(Len(list))
    BY <1>2, <1>7 DEF Inv, BadFieldEnds, SoundUpTo
  <2>2. begin = PacketSize * Len(list)
    BY <1>1, <1>2, <2>1 DEF Inv, InStep
  <2>3. PacketSize * Len(list) + PacketSize <= PacketSize * Len(file)
    BY <1>2, <2>1, Multiples
  <2> QED BY <1>1, <1>2, <1>7, <2>2, <2>3
<1>8. BadFieldEnds'
  <2>1. CASE valid
    BY <1>1, <1>7, <2>1 DEF BadFieldEnds, SoundUpTo
  <2>2. CASE ~valid
    BY <1>1, <2>2, BadFieldKept
  <2> QED BY <2>1, <2>2
<1> QED BY <1>1, <1>4, <1>5, <1>6, <1>8, ListKept DEF Inv

LEMMA InvNext == Inv /\ [Next]_vars => Inv'
<1> SUFFICES ASSUME Inv, [Next]_vars PROVE Inv'
  OBVIOUS
<1>1. CASE ReadFile \/ ReadFails
  BY <1>1, ReadFileKeeps
<1>2. ASSUME NEW f \in Frames, TakePacket(f) PROVE Inv'
  BY <1>2, TakePacketKeeps
<1>3. ASSUME NEW f \in Frames, StopAtPrivate(f) PROVE Inv'
  BY <1>3, StopAtPrivateKeeps
<1>4. ASSUME NEW f \in Frames, BreakStream(f) \/ Abort(f) PROVE Inv'
  BY <1>4, BreakOrAbortKeeps
<1>5. CASE LoadEnds
  BY <1>5, LoadEndsKeeps
<1>6. CASE UNCHANGED vars
  <2>1. UNCHANGED <<file, tail, readable, begin, valid, list, result>>
    BY <1>6 DEF vars
  <2>2. TypeOK' /\ InStep' /\ CountedAll' /\ RefusedForCause' /\ InvalidIsEmpty'
    BY <2>1 DEF Inv, TypeOK, InStep, CountedAll, RefusedForCause, InvalidIsEmpty,
                SoundUpTo, Total
  <2> QED BY <2>1, <2>2, ListKept, BadFieldKept DEF Inv
<1> QED BY <1>1, <1>2, <1>3, <1>4, <1>5, <1>6 DEF Next

LEMMA InvAlways == Spec => []Inv
<1> QED BY InvInit, InvNext, PTL DEF Spec

-----------------------------------------------------------------------------
(* ts_packets_unpack, ts_packets.c:130-145: whatever is in a file of any   *)
(* length, up to the first packet that is not sound its packets are loaded *)
(* one for one, and a call that returns a count has loaded them all.       *)
THEOREM SoundPrefixAlways == Spec => []SoundPrefixLoads
<1>1. Inv => SoundPrefixLoads
  BY DEF Inv, SoundPrefixLoads, PrefixLoaded, CountedAll, Loaded
<1> QED BY <1>1, InvAlways, PTL

(* ts_packets_load, ts_packets.c:130, 137 and 147: only a file that was    *)
(* read and is not empty gives a number.  One of sound packets, however    *)
(* many or none, never takes the process down, is never cut off, and is    *)
(* refused only when it is empty or cannot be read.                        *)
THEOREM FailsForCauseAlways == Spec => []FailsForCause
<1>1. Inv => FailsForCause
  <2> SUFFICES ASSUME Inv, SoundUpTo(Len(file)), result = "count"
               PROVE  Len(list) = Len(file)
    BY DEF Inv, FailsForCause, InvalidIsEmpty, RefusedForCause
  <2>1. Len(list) \in Nat /\ Len(file) \in Nat /\ Len(list) <= Len(file)
    BY CursorFacts DEF Inv, NoMoreThanFile
  <2>2. Len(file) # 0 => Len(file) <= Len(list)
    BY <2>1 DEF Inv, CountedAll
  <2> QED BY <2>1, <2>2
<1> QED BY <1>1, InvAlways, PTL

(* ts_adaptation_field_unpack, ts_adaptation_field.c:114-130, and          *)
(* ts_packet_unpack, ts_packet.c:94: when the first packet that is not     *)
(* sound has a field that its flags or its payload do not fit, the load    *)
(* ends at it, and as if the file did only when the file does end within   *)
(* its private data.                                                       *)
THEOREM NothingBehindBadFieldAlways == Spec => []NothingBehindBadField
<1>1. Inv => NothingBehindBadField
  <2> SUFFICES ASSUME Inv, NEW n \in 1..Len(file), SoundUpTo(n - 1),
                      BadField(file[n]), result = "count"
               PROVE  Len(list) = n - 1
    BY DEF Inv, BadFieldEnds, NothingBehindBadField
  <2>1. Len(list) \in Nat /\ Len(file) \in Nat /\ Len(list) < n
    BY CursorFacts DEF Inv, BadFieldEnds
  <2>2. n # 1 => n - 1 <= Len(list)
    BY <2>1 DEF Inv, CountedAll
  <2> QED BY <2>1, <2>2
<1> QED BY <1>1, InvAlways, PTL

=============================================================================

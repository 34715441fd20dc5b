----------------------------- MODULE Pes_proofs -----------------------------
(***************************************************************************)
(* What is proved of Pes for every frame.  A PCR survives packing and      *)
(* unpacking, in each build as far as PcrSurvives says: six bytes are      *)
(* three words of 16 bits, and the base is spread over all three of them.  *)
(* A PES packet is read back: the lemmas say where in the bytes its parts  *)
(* are (PackedParts) and what the reads of ts_pes.c find there (StartRead, *)
(* TimeRead, HeadRead), for every packet of which at least so many bytes   *)
(* arrived.  And one that lost or repeated bytes is refused, because its   *)
(* length is another than its length field says (Damaged).                 *)
(***************************************************************************)
EXTENDS Pes, SequenceTheorems, TLAPS

LEMMA Powers ==
  /\ 2^5 = 32 /\ 2^7 = 128 /\ 2^9 = 512 /\ 2^13 = 8192 /\ 2^15 = 32768
  /\ 2^16 = 65536 /\ 2^17 = 131072 /\ 2^30 = 1073741824
BY SMT

(* A word of 16 bits in two bytes, bytestream_write16 and _read16.         *)
LEMMA WordParts ==
  ASSUME NEW v \in Int, 0 <= v, v < 65536
  PROVE  /\ (v \div 256) % 256 = v \div 256
         /\ ((v \div 256) % 256) * 256 + (v % 256) = v
BY SMT

(* The thirty low bits of a base, over three words.                        *)
LEMMA BaseParts ==
  ASSUME NEW l \in Int, 0 <= l, l < 1073741824
  PROVE  /\ l \div 131072 \in Int /\ 0 <= l \div 131072 /\ l \div 131072 < 8192
         /\ (l \div 2) % 65536 \in Int
         /\ 0 <= (l \div 2) % 65536 /\ (l \div 2) % 65536 < 65536
         /\ l % 2 \in Int /\ 0 <= l % 2 /\ l % 2 < 2
         /\ (l \div 131072) * 131072 + ((l \div 2) % 65536) * 2 + (l % 2) = l
BY SMT

(* The first word: the three highest bits of a base, thirteen of the rest. *)
LEMMA HighParts ==
  ASSUME NEW a \in Int, 0 <= a, a < 8, NEW q \in Int, 0 <= q, q < 8192
  PROVE  /\ 0 <= a * 8192 + q /\ a * 8192 + q < 65536
         /\ ((a * 8192 + q) \div 256) \div 32 = a
         /\ (a * 8192 + q) % 8192 = q
BY SMT

(* The third word: the lowest bit of a base, six bits, the extension.      *)
LEMMA LowParts ==
  ASSUME NEW r \in Int, 0 <= r, r < 2, NEW x \in Int, 0 <= x, x < 300
  PROVE  /\ 0 <= r * 32768 + x /\ r * 32768 + x < 65536
         /\ ((r * 32768 + x) \div 256) \div 128 = r
         /\ (r * 32768 + x) % 512 = x
         /\ x % 512 = x
BY SMT

LEMMA Pair ==
  ASSUME NEW S, NEW T, NEW p \in S \X T
  PROVE  p[1] \in S /\ p[2] \in T
BY SMT

LEMMA TwoWords ==
  ASSUME NEW p \in Seq(Int), NEW q \in Seq(Int), Len(q) = 2
  PROVE  /\ p \o q \in Seq(Int) /\ Len(p \o q) = Len(p) + 2
         /\ \A i \in 1..Len(p) : (p \o q)[i] = p[i]
         /\ (p \o q)[Len(p) + 1] = q[1] /\ (p \o q)[Len(p) + 2] = q[2]
<1> DEFINE m == Len(p)
<1>1. m \in Nat
  BY LenProperties, Zenon
<1>2. /\ p \o q \in Seq(Int) /\ Len(p \o q) = m + Len(q)
      /\ \A i \in 1..(m + Len(q)) :
           (p \o q)[i] = IF i <= m THEN p[i] ELSE q[i - m]
  BY ConcatProperties, Zenon
<1> HIDE DEF m
<1>3. /\ m + 1 \in 1..(m + 2) /\ ~(m + 1 <= m) /\ (m + 1) - m = 1
      /\ m + 2 \in 1..(m + 2) /\ ~(m + 2 <= m) /\ (m + 2) - m = 2
      /\ \A i \in 1..m : i \in 1..(m + 2) /\ i <= m
  BY <1>1, SMT
<1> QED BY <1>1, <1>2, <1>3, SMT DEF m

LEMMA SixBytes ==
  ASSUME NEW p \in Seq(Int), NEW q \in Seq(Int), NEW r \in Seq(Int),
         Len(p) = 2, Len(q) = 2, Len(r) = 2
  PROVE  /\ (p \o q \o r)[1] = p[1] /\ (p \o q \o r)[2] = p[2]
         /\ (p \o q \o r)[3] = q[1] /\ (p \o q \o r)[4] = q[2]
         /\ (p \o q \o r)[5] = r[1] /\ (p \o q \o r)[6] = r[2]
<1> DEFINE f == p \o q
           g == f \o r
<1>1. /\ f \in Seq(Int) /\ Len(f) = Len(p) + 2
      /\ \A i \in 1..Len(p) : f[i] = p[i]
      /\ f[Len(p) + 1] = q[1] /\ f[Len(p) + 2] = q[2]
  BY TwoWords, Zenon
<1> HIDE DEF f
<1>2. Len(f) = 4 /\ f[1] = p[1] /\ f[2] = p[2] /\ f[3] = q[1] /\ f[4] = q[2]
  BY <1>1, SMT
<1>3. /\ \A i \in 1..Len(f) : g[i] = f[i]
      /\ g[Len(f) + 1] = r[1] /\ g[Len(f) + 2] = r[2]
  BY <1>1, TwoWords, Zenon
<1> HIDE DEF g
<1>4. /\ g[1] = f[1] /\ g[2] = f[2] /\ g[3] = f[3] /\ g[4] = f[4]
      /\ g[5] = r[1] /\ g[6] = r[2]
  BY <1>2, <1>3, SMT
<1> QED BY <1>2, <1>4, Zenon DEF f, g

(* A value of 16 bits.                                                     *)
IsWord(v) == v \in Int /\ 0 <= v /\ v < 65536

LEMMA WordBytes ==
  ASSUME NEW v, IsWord(v)
  PROVE  /\ Bytes16(v) \in Seq(Int) /\ Len(Bytes16(v)) = 2
         /\ Bytes16(v)[1] = v \div 256 /\ Bytes16(v)[2] = v % 256
<1>1. v \div 256 \in Int /\ v % 256 \in Int /\ (v \div 256) % 256 = v \div 256
  BY WordParts, SMT DEF IsWord
<1> QED BY <1>1, SMT DEF Bytes16

(* The six bytes ts_pcr_pack writes.                                       *)
LEMMA PcrParts ==
  ASSUME NEW c \in ClockType
  PROVE  LET b == PcrBytes(c)
             l == c.base[2]
         IN /\ Word(b, 1) % 8192 = l \div 131072
            /\ Word(b, 3) = (l \div 2) % 65536
            /\ Word(b, 5) % 512 = c.ext
            /\ b[1] \div 32 = c.base[1] % 8
            /\ b[5] \div 128 = l % 2
<1> DEFINE h == c.base[1]
           l == c.base[2]
           x == c.ext
           u == (h % 8) * 8192 + (l \div 131072)
           v == (l \div 2) % 65536
           w == (l % 2) * 32768 + x
           b == PcrBytes(c)
<1>1. /\ h \in Int
      /\ l \in Int /\ 0 <= l /\ l < 1073741824
      /\ x \in Int /\ 0 <= x /\ x < 300
  <2>1. c.base \in TimeType /\ x \in 0..299
    BY SMT DEF ClockType
  <2>2. c.base \in Nat \X (0..(2^30 - 1))
    BY <2>1, Zenon DEF TimeType
  <2>3. h \in Nat /\ l \in 0..(2^30 - 1)
    BY <2>2, Pair, Zenon
  <2> HIDE DEF h, l, x
  <2> QED BY <2>1, <2>3, Powers, SMT
<1> HIDE DEF h, l, x
<1>2. h % 8 \in Int /\ 0 <= h % 8 /\ h % 8 < 8
  BY <1>1, SMT
<1>3. b = Bytes16(u) \o Bytes16(v) \o Bytes16(w)
  <2>1. x % 2^9 = x
    BY <1>1, LowParts, Powers, SMT
  <2>2. /\ (h % 8) * 2^13 + (l \div 2^17) = u
        /\ (l \div 2) % 2^16 = v
        /\ (l % 2) * 2^15 + x = w
    BY Powers, SMT
  <2> QED BY <2>1, <2>2, SMT DEF PcrBytes, h, l, x
<1>4. IsWord(u)
  BY <1>1, <1>2, BaseParts, HighParts, SMT DEF IsWord
<1>5. IsWord(v)
  BY <1>1, BaseParts, SMT DEF IsWord
<1>6. IsWord(w)
  BY <1>1, BaseParts, LowParts, SMT DEF IsWord
<1>7. u % 8192 = l \div 131072 /\ (u \div 256) \div 32 = h % 8
  BY <1>1, <1>2, BaseParts, HighParts, SMT
<1>8. w % 512 = x /\ (w \div 256) \div 128 = l % 2
  BY <1>1, BaseParts, LowParts, SMT
<1> HIDE DEF u, v, w, b
<1>9. b[1] = u \div 256 /\ b[2] = u % 256 /\ b[3] = v \div 256 /\ b[4] = v % 256
        /\ b[5] = w \div 256 /\ b[6] = w % 256
  <2> DEFINE p == Bytes16(u)
             q == Bytes16(v)
             r == Bytes16(w)
  <2>1. p \in Seq(Int) /\ Len(p) = 2 /\ p[1] = u \div 256 /\ p[2] = u % 256
    BY <1>4, WordBytes, Zenon
  <2>2. q \in Seq(Int) /\ Len(q) = 2 /\ q[1] = v \div 256 /\ q[2] = v % 256
    BY <1>5, WordBytes, Zenon
  <2>3. r \in Seq(Int) /\ Len(r) = 2 /\ r[1] = w \div 256 /\ r[2] = w % 256
    BY <1>6, WordBytes, Zenon
  <2> HIDE DEF p, q, r
  <2>4. b = p \o q \o r
    BY <1>3, Zenon DEF p, q, r
  <2>5. /\ b[1] = p[1] /\ b[2] = p[2] /\ b[3] = q[1] /\ b[4] = q[2]
        /\ b[5] = r[1] /\ b[6] = r[2]
    <3>1. /\ p \in Seq(Int) /\ q \in Seq(Int) /\ r \in Seq(Int)
          /\ Len(p) = 2 /\ Len(q) = 2 /\ Len(r) = 2
      BY <2>1, <2>2, <2>3, Zenon
    <3>2. /\ (p \o q \o r)[1] = p[1] /\ (p \o q \o r)[2] = p[2]
          /\ (p \o q \o r)[3] = q[1] /\ (p \o q \o r)[4] = q[2]
          /\ (p \o q \o r)[5] = r[1] /\ (p \o q \o r)[6] = r[2]
      BY <3>1, SixBytes, Zenon
    <3> QED BY <2>4, <3>2, Zenon
  <2> QED BY <2>1, <2>2, <2>3, <2>5, SMTT(30)
<1>10. /\ (u \div 256) * 256 + (u % 256) = u
       /\ (v \div 256) * 256 + (v % 256) = v
       /\ (w \div 256) * 256 + (w % 256) = w
  BY <1>4, <1>5, <1>6, WordParts, SMT DEF IsWord
<1>11. Word(b, 1) = u /\ Word(b, 3) = v /\ Word(b, 5) = w
  BY <1>9, <1>10, SMT DEF Word
<1> QED BY <1>7, <1>8, <1>9, <1>11, SMT DEF b, v, h, l, x

LEMMA PcrRead ==
  ASSUME NEW c \in ClockType
  PROVE  /\ ReadPcr(PcrBytes(c), "folded") = [base |-> Low33(c.base), ext |-> c.ext]
         /\ ReadPcr(PcrBytes(c), "shifted") =
              [base |-> <<0, c.base[2] % 2>>, ext |-> c.ext]
<1> DEFINE l == c.base[2]
           b == PcrBytes(c)
<1>1. l \in Int /\ 0 <= l /\ l < 1073741824
  <2>1. c.base \in TimeType
    BY SMT DEF ClockType
  <2>2. c.base \in Nat \X (0..(2^30 - 1))
    BY <2>1, Zenon DEF TimeType
  <2>3. l \in 0..(2^30 - 1)
    BY <2>2, Pair, Zenon
  <2> HIDE DEF l
  <2> QED BY <2>3, Powers, SMT
<1>2. (l \div 131072) * 131072 + ((l \div 2) % 65536) * 2 + (l % 2) = l
  BY <1>1, BaseParts, SMT
<1>3. /\ Word(b, 1) % 8192 = l \div 131072 /\ Word(b, 3) = (l \div 2) % 65536
      /\ Word(b, 5) % 512 = c.ext
      /\ b[1] \div 32 = c.base[1] % 8 /\ b[5] \div 128 = l % 2
  BY PcrParts, SMT
<1>4. (Word(b, 1) % 8192) * 131072 + Word(b, 3) * 2 + (b[5] \div 128) = l
  BY <1>2, <1>3, SMT
<1> HIDE DEF b
<1> QED BY <1>3, <1>4, Powers, SMT DEF ReadPcr, Low33, b

-----------------------------------------------------------------------------
(* What is known of the PCR's bytes in each phase.                         *)
PcrInv ==
  /\ clock \in ClockType
  /\ phase \in {"packed", "sent"} => pcr = PcrBytes(clock)
  /\ PcrSurvives

LEMMA InitTypes ==
  Init => pes \in PesType /\ clock \in ClockType /\ phase = "start"
<1> SUFFICES ASSUME Init
             PROVE  pes \in PesType /\ clock \in ClockType /\ phase = "start"
  OBVIOUS
<1>1. PICK f \in Frames : pes = f.pes /\ clock = f.clock
  BY Zenon DEF Init
<1>2. Frames \subseteq [pes : PesType, clock : ClockType]
  BY PesAssumption, SMT
<1>3. f \in [pes : PesType, clock : ClockType]
  BY <1>2, Zenon
<1>4. ASSUME NEW A, NEW B, NEW g \in [pes : A, clock : B]
      PROVE  g.pes \in A /\ g.clock \in B
  BY SMT
<1>5. f.pes \in PesType /\ f.clock \in ClockType
  BY <1>3, <1>4, Zenon
<1> QED BY <1>1, <1>5, Zenon DEF Init

LEMMA PcrInit == Init => PcrInv
BY InitTypes, SMTT(30) DEF PcrInv, PcrSurvives

LEMMA MaxLengthRange == MaxLength \in Int /\ 0 < MaxLength /\ MaxLength <= 65536
BY PesAssumption, SMT

LEMMA PcrNext == PcrInv /\ [Next]_vars => PcrInv'
<1> SUFFICES ASSUME PcrInv, [Next]_vars PROVE PcrInv'
  OBVIOUS
<1>1. CASE Pack
  <2>1. pcr' = PcrBytes(clock) /\ clock' = clock /\ phase' \in {"refused", "packed"}
    BY <1>1, SMT DEF Pack
  <2> QED BY <2>1, SMT DEF PcrInv, PcrSurvives
<1>2. CASE Lose \/ Repeat \/ CutOff
  <2>1. phase = "packed" /\ phase' = "sent" /\ pcr' = pcr /\ clock' = clock
    BY <1>2, Zenon DEF Lose, Repeat, CutOff, Arrive
  <2> QED BY <2>1, SMT DEF PcrInv, PcrSurvives
<1>3. CASE Unpack
  <2>1. /\ pcr = PcrBytes(clock) /\ clock \in ClockType /\ clock' = clock
        /\ phase' = "done" /\ build' \in Builds
        /\ clock_read' = ReadPcr(pcr, build')
    BY <1>3, SMT DEF Unpack, PcrInv
  <2> QED BY <2>1, PcrRead, SMT DEF PcrInv, PcrSurvives, Builds
<1>4. CASE UNCHANGED vars
  BY <1>4, SMT DEF vars, PcrInv, PcrSurvives
<1> QED BY <1>1, <1>2, <1>3, <1>4, SMT DEF Next

(* ts_pcr_pack and ts_pcr_unpack: every PCR value is read back modulo 2^33 *)
(* * 300, and modulo 600 in a build that leaves the shift to the processor.*)
THEOREM PcrAlways == Spec => []PcrSurvives
<1>1. PcrInv => PcrSurvives
  BY DEF PcrInv
<1> QED BY <1>1, PcrInit, PcrNext, PTL DEF Spec

-----------------------------------------------------------------------------
(* Bytes at a place: b holds those of q behind its first `at'.             *)
Holds(b, at, q) == \A i \in 1..Len(q) : b[at + i] = q[i]

(* Two sequences of which the second follows the first.                    *)
LEMMA Joined ==
  ASSUME NEW p \in Seq(Int), NEW q \in Seq(Int)
  PROVE  /\ p \o q \in Seq(Int) /\ Len(p \o q) = Len(p) + Len(q)
         /\ Len(p) \in Nat /\ Len(q) \in Nat
         /\ Holds(p \o q, 0, p) /\ Holds(p \o q, Len(p), q)
<1> DEFINE m == Len(p)
           n == Len(q)
           r == p \o q
<1>1. m \in Nat /\ n \in Nat
  BY LenProperties
<1>2. /\ r \in Seq(Int) /\ Len(r) = m + n
      /\ \A i \in 1..(m + n) : r[i] = IF i <= m THEN p[i] ELSE q[i - m]
  BY ConcatProperties
<1> HIDE DEF m, n, r
<1>3. \A i \in 1..m : r[0 + i] = p[i]
  BY <1>1, <1>2
<1>4. \A i \in 1..n : r[m + i] = q[i]
  <2> SUFFICES ASSUME NEW i \in 1..n PROVE r[m + i] = q[i]
    OBVIOUS
  <2>1. m + i \in 1..(m + n) /\ ~(m + i <= m) /\ (m + i) - m = i
    BY <1>1
  <2> QED BY <1>2, <2>1
<1> QED BY <1>1, <1>2, <1>3, <1>4 DEF Holds, m, n, r

(* A part of a sequence.                                                   *)
LEMMA Cut ==
  ASSUME NEW b \in Seq(Int), NEW m \in Int, NEW n \in Int,
         1 <= m, m <= n + 1, n <= Len(b)
  PROVE  /\ SubSeq(b, m, n) \in Seq(Int) /\ Len(SubSeq(b, m, n)) = n + 1 - m
         /\ \A i \in 1..(n + 1 - m) : SubSeq(b, m, n)[i] = b[m - 1 + i]
<1>1. Len(b) \in Nat /\ \A i \in 1..Len(b) : b[i] \in Int
  BY LenProperties, ElementOfSeq
<1>2. \A i \in m..n : b[i] \in Int
  BY <1>1
<1> DEFINE c == SubSeq(b, m, n)
<1>3. /\ c \in Seq(Int) /\ Len(c) = IF m <= n THEN n - m + 1 ELSE 0
      /\ \A i \in 1..n - m + 1 : c[i] = b[m + i - 1]
  BY <1>2, SubSeqProperties
<1> HIDE DEF c
<1>4. Len(c) = n + 1 - m
  BY <1>3
<1>5. ASSUME NEW i \in 1..(n + 1 - m) PROVE c[i] = b[m - 1 + i]
  <2>1. i \in 1..n - m + 1 /\ m + i - 1 = m - 1 + i
    OBVIOUS
  <2> QED BY <1>3, <2>1, Zenon
<1> QED BY <1>3, <1>4, <1>5 DEF c

(* What is left of it behind its first n.                                  *)
LEMMA Left ==
  ASSUME NEW b \in Seq(Int), NEW n \in Nat, n <= Len(b), NEW m, m = n + 1
  PROVE  /\ SubSeq(b, m, Len(b)) \in Seq(Int)
         /\ Len(SubSeq(b, m, Len(b))) = Len(b) - n
         /\ \A i \in 1..(Len(b) - n) : SubSeq(b, m, Len(b))[i] = b[n + i]
<1>1. Len(b) \in Nat
  BY LenProperties
<1>2. /\ m \in Int /\ Len(b) \in Int
      /\ 1 <= m /\ m <= Len(b) + 1 /\ Len(b) <= Len(b)
  BY <1>1
<1> DEFINE c == SubSeq(b, m, Len(b))
<1>3. /\ c \in Seq(Int) /\ Len(c) = Len(b) + 1 - m
      /\ \A i \in 1..(Len(b) + 1 - m) : c[i] = b[m - 1 + i]
  BY <1>2, Cut
<1> HIDE DEF c
<1>4. Len(b) + 1 - m = Len(b) - n /\ m - 1 = n
  BY <1>1
<1> QED BY <1>3, <1>4, Zenon DEF c

LEMMA Fields ==
  ASSUME NEW r
  PROVE  /\ [valid |-> TRUE, rest |-> r].valid
         /\ [valid |-> TRUE, rest |-> r].rest = r
OBVIOUS

LEMMA SkipLeaves ==
  ASSUME NEW r, NEW n, n <= Len(r)
  PROVE  Skip([valid |-> TRUE, rest |-> r], n) =
           [valid |-> TRUE, rest |-> SubSeq(r, n + 1, Len(r))]
BY DEF Skip

(* What was at a place is still there with more behind it.                 *)
LEMMA HoldsOn ==
  ASSUME NEW p \in Seq(Int), NEW q \in Seq(Int), NEW r \in Seq(Int),
         NEW at \in Nat, at + Len(q) <= Len(p), Holds(p, at, q)
  PROVE  Holds(p \o r, at, q)
<1>1. /\ Len(p) \in Nat /\ Len(q) \in Nat
      /\ \A i \in 1..Len(p) : (p \o r)[0 + i] = p[i]
  BY Joined DEF Holds
<1> SUFFICES ASSUME NEW i \in 1..Len(q) PROVE (p \o r)[at + i] = q[i]
  BY DEF Holds
<1>2. at + i \in 1..Len(p) /\ 0 + (at + i) = at + i
  BY <1>1
<1>3. (p \o r)[at + i] = p[at + i]
  BY <1>1, <1>2
<1> QED BY <1>3 DEF Holds

LEMMA MorePowers ==
  /\ 2^0 = 1 /\ 2^1 = 2 /\ 2^2 = 4 /\ 2^3 = 8 /\ 2^4 = 16 /\ 2^6 = 64
  /\ 2^8 = 256 /\ 2^10 = 1024 /\ 2^11 = 2048 /\ 2^14 = 16384
BY SMT

(* The byte before the groups of 15 bits.                                  *)
LEMMA FirstParts ==
  ASSUME NEW h \in Int, 0 <= h, h < 8, NEW x \in 0..1, NEW y \in 0..1
  PROVE  ((x * 32 + y * 16 + h * 2 + 1) \div 2) % 8 = h
BY SMT


(* bytestream_read8 and _read16 of a stream with enough bytes left.        *)
LEMMA ReadsByte ==
  ASSUME NEW b \in Seq(Int), NEW at \in Nat, at + 1 <= Len(b)
  PROVE  Read8([valid |-> TRUE, rest |-> b], at) = b[at + 1]
<1>1. Len(b) \in Nat /\ \A i \in 1..Len(b) : b[i] \in Int
  BY LenProperties, ElementOfSeq
<1>2. SubSeq(b, at + 1, at + 1)[1] = b[at + 1]
  BY <1>1, SubSeqProperties
<1> QED BY <1>1, <1>2 DEF Read8, Read

LEMMA ReadsWord ==
  ASSUME NEW b \in Seq(Int), NEW at \in Nat, at + 2 <= Len(b)
  PROVE  Read16([valid |-> TRUE, rest |-> b], at) = b[at + 1] * 256 + b[at + 2]
<1>1. Len(b) \in Nat /\ \A i \in 1..Len(b) : b[i] \in Int
  BY LenProperties, ElementOfSeq
<1>2. /\ SubSeq(b, at + 1, at + 2)[1] = b[at + 1]
      /\ SubSeq(b, at + 1, at + 2)[2] = b[at + 2]
  <2>1. \A i \in 1..2 : SubSeq(b, at + 1, at + 2)[i] = b[at + 1 + i - 1]
    BY <1>1, SubSeqProperties
  <2> QED BY <2>1
<1>3. Read([valid |-> TRUE, rest |-> b], at, 2) = SubSeq(b, at + 1, at + 2)
  BY DEF Read
<1>4. \A r : Word(r, 1) = r[1] * 256 + r[2]
  BY DEF Word
<1>5. Read16([valid |-> TRUE, rest |-> b], at) = Word(SubSeq(b, at + 1, at + 2), 1)
  BY <1>3 DEF Read16
<1> QED BY <1>2, <1>4, <1>5, Zenon

(* The three groups of bits of a time.                                     *)
High(t) == t[1] % 8
Middle(t) == t[2] \div 32768
Low(t) == t[2] % 32768

LEMMA Groups ==
  ASSUME NEW t \in TimeType
  PROVE  /\ High(t) \in Int /\ 0 <= High(t) /\ High(t) < 8
         /\ Middle(t) \in Int /\ 0 <= Middle(t) /\ Middle(t) < 32768
         /\ Low(t) \in Int /\ 0 <= Low(t) /\ Low(t) < 32768
         /\ Middle(t) * 32768 + Low(t) = t[2]
         /\ t[1] \in Nat /\ t[2] \in Nat
<1>1. t \in Nat \X (0..(2^30 - 1))
  BY Zenon DEF TimeType
<1>2. t[1] \in Nat /\ t[2] \in 0..(2^30 - 1)
  BY <1>1, Pair, Zenon
<1> DEFINE h == t[1]
           l == t[2]
<1>3. h \in Nat /\ l \in Nat /\ 0 <= l /\ l < 1073741824
  BY <1>2, Powers, SMT
<1> HIDE DEF h, l
<1>4. h % 8 \in Int /\ 0 <= h % 8 /\ h % 8 < 8
  BY <1>3, SMT
<1>5. /\ l \div 32768 \in Int /\ 0 <= l \div 32768 /\ l \div 32768 < 32768
      /\ l % 32768 \in Int /\ 0 <= l % 32768 /\ l % 32768 < 32768
      /\ (l \div 32768) * 32768 + (l % 32768) = l
  BY <1>3, SMT
<1> QED BY <1>3, <1>4, <1>5, SMT DEF High, Middle, Low, h, l

(* The first byte of a time, with its two flags and marker.                *)
FirstByte(t, x, y) == x * 32 + y * 16 + High(t) * 2 + 1

(* ts_pes_ts_pack, byte by byte.                                           *)
LEMMA TimeParts ==
  ASSUME NEW t \in TimeType, NEW x \in 0..1, NEW y \in 0..1
  PROVE  LET q == TimeBytes(t, x, y)
         IN /\ q \in Seq(Int) /\ Len(q) = 5
            /\ q[1] = FirstByte(t, x, y)
            /\ q[2] * 256 + q[3] = 2 * Middle(t) + 1
            /\ q[4] * 256 + q[5] = 2 * Low(t) + 1
<1>0. PICK q : q = TimeBytes(t, x, y)
  OBVIOUS
<1> DEFINE u == 2 * Middle(t) + 1
           v == 2 * Low(t) + 1
           f == FirstByte(t, x, y)
<1>1. IsWord(u) /\ IsWord(v) /\ f \in Int
  BY Groups, SMT DEF IsWord, FirstByte
<1>2. q = <<f>> \o Bytes16(u) \o Bytes16(v)
  <2>1. WriteBits(x, 8, 2, 1) = x * 32 /\ WriteBits(y, 8, 3, 1) = y * 16
    BY Powers, MorePowers, SMT DEF WriteBits
  <2>2. WriteBits(t[1], 8, 4, 3) = High(t) * 2
    BY Powers, MorePowers, SMT DEF WriteBits, High
  <2>3. 2 * (t[2] \div 2^15) + 1 = u /\ 2 * (t[2] % 2^15) + 1 = v
    BY Powers, SMT DEF Middle, Low
  <2> QED BY <1>0, <2>1, <2>2, <2>3 DEF TimeBytes, FirstByte
<1> HIDE DEF u, v, f
<1>3. <<f>> \in Seq(Int) /\ Len(<<f>>) = 1 /\ <<f>>[1] = f
  BY <1>1
<1>4. /\ Bytes16(u) \in Seq(Int) /\ Len(Bytes16(u)) = 2
      /\ Bytes16(u)[1] = u \div 256 /\ Bytes16(u)[2] = u % 256
      /\ Bytes16(v) \in Seq(Int) /\ Len(Bytes16(v)) = 2
      /\ Bytes16(v)[1] = v \div 256 /\ Bytes16(v)[2] = v % 256
  BY <1>1, WordBytes
<1>5. /\ q \in Seq(Int) /\ Len(q) = 5 /\ q[1] = f
      /\ q[2] = u \div 256 /\ q[3] = u % 256 /\ q[4] = v \div 256 /\ q[5] = v % 256
  <2> DEFINE a == <<f>>
             b == Bytes16(u)
             c == Bytes16(v)
             r == a \o b
  <2>1. /\ a \in Seq(Int) /\ Len(a) = 1 /\ a[1] = f
        /\ b \in Seq(Int) /\ Len(b) = 2 /\ b[1] = u \div 256 /\ b[2] = u % 256
        /\ c \in Seq(Int) /\ Len(c) = 2 /\ c[1] = v \div 256 /\ c[2] = v % 256
        /\ q = r \o c
    BY <1>2, <1>3, <1>4
  <2> HIDE DEF a, b, c
  <2>2. /\ r \in Seq(Int) /\ Len(r) = 3
        /\ r[1] = a[1] /\ r[2] = b[1] /\ r[3] = b[2]
    <3>1. /\ r \in Seq(Int) /\ Len(r) = Len(a) + 2
          /\ \A i \in 1..Len(a) : r[i] = a[i]
          /\ r[Len(a) + 1] = b[1] /\ r[Len(a) + 2] = b[2]
      BY <2>1, TwoWords, ZenonT(30)
    <3>2. Len(a) = 1
      BY <2>1
    <3> HIDE DEF r
    <3> QED BY <3>1, <3>2, SMT
  <2> HIDE DEF r
  <2>3. /\ q \in Seq(Int) /\ Len(q) = 5
        /\ q[1] = r[1] /\ q[2] = r[2] /\ q[3] = r[3] /\ q[4] = c[1] /\ q[5] = c[2]
    <3>1. /\ r \o c \in Seq(Int) /\ Len(r \o c) = Len(r) + 2
          /\ \A i \in 1..Len(r) : (r \o c)[i] = r[i]
          /\ (r \o c)[Len(r) + 1] = c[1] /\ (r \o c)[Len(r) + 2] = c[2]
      BY <2>1, <2>2, TwoWords, ZenonT(30)
    <3>2. q = r \o c
      BY <2>1
    <3>3. /\ q \in Seq(Int) /\ Len(q) = Len(r) + 2
          /\ \A i \in 1..Len(r) : q[i] = r[i]
          /\ q[Len(r) + 1] = c[1] /\ q[Len(r) + 2] = c[2]
      BY <3>1, <3>2, Zenon
    <3> QED BY <2>2, <3>3, SMT
  <2> QED BY <2>1, <2>2, <2>3
<1>6. (u \div 256) * 256 + (u % 256) = u /\ (v \div 256) * 256 + (v % 256) = v
  BY <1>1, WordParts, SMT DEF IsWord
<1> QED BY <1>0, <1>5, <1>6, Zenon DEF u, v, f

(* ts_pes_ts_unpack of what ts_pes_ts_pack wrote.                          *)
LEMMA TimeRead ==
  ASSUME NEW b \in Seq(Int), NEW at \in Nat, at + 5 <= Len(b),
         NEW t \in TimeType, NEW x \in 0..1, NEW y \in 0..1,
         Holds(b, at, TimeBytes(t, x, y))
  PROVE  ReadTime([valid |-> TRUE, rest |-> b], at) = Low33(t)
<1> DEFINE s == [valid |-> TRUE, rest |-> b]
<1>1. PICK q : q = TimeBytes(t, x, y)
  OBVIOUS
<1>2. /\ Len(q) = 5 /\ q[1] = FirstByte(t, x, y)
      /\ q[2] * 256 + q[3] = 2 * Middle(t) + 1
      /\ q[4] * 256 + q[5] = 2 * Low(t) + 1
  <2>1. LET r == TimeBytes(t, x, y)
        IN /\ r \in Seq(Int) /\ Len(r) = 5
           /\ r[1] = FirstByte(t, x, y)
           /\ r[2] * 256 + r[3] = 2 * Middle(t) + 1
           /\ r[4] * 256 + r[5] = 2 * Low(t) + 1
    BY TimeParts, ZenonT(30)
  <2> QED BY <1>1, <2>1, Zenon
<1>3. /\ b[at + 1] = q[1] /\ b[at + 2] = q[2] /\ b[at + 3] = q[3]
      /\ b[at + 4] = q[4] /\ b[at + 5] = q[5]
  BY <1>1, <1>2 DEF Holds
<1>4. Read8(s, at) = FirstByte(t, x, y)
  <2>1. Read8(s, at) = b[at + 1]
    BY ReadsByte, LenProperties
  <2> QED BY <1>2, <1>3, <2>1
<1>5. /\ Read16(s, at + 1) = 2 * Middle(t) + 1
      /\ Read16(s, at + 3) = 2 * Low(t) + 1
  <2>1. /\ Read16(s, at + 1) = b[at + 1 + 1] * 256 + b[at + 1 + 2]
        /\ Read16(s, at + 3) = b[at + 3 + 1] * 256 + b[at + 3 + 2]
    <3>1. /\ at + 1 \in Nat /\ at + 1 + 2 <= Len(b)
          /\ at + 3 \in Nat /\ at + 3 + 2 <= Len(b)
      BY LenProperties, SMT
    <3>2. Read16(s, at + 1) = b[at + 1 + 1] * 256 + b[at + 1 + 2]
      BY <3>1, ReadsWord, ZenonT(30)
    <3>3. Read16(s, at + 3) = b[at + 3 + 1] * 256 + b[at + 3 + 2]
      BY <3>1, ReadsWord, ZenonT(30)
    <3> QED BY <3>2, <3>3
  <2>2. /\ at + 1 + 1 = at + 2 /\ at + 1 + 2 = at + 3
        /\ at + 3 + 1 = at + 4 /\ at + 3 + 2 = at + 5
    OBVIOUS
  <2>3. /\ Read16(s, at + 1) = b[at + 2] * 256 + b[at + 3]
        /\ Read16(s, at + 3) = b[at + 4] * 256 + b[at + 5]
    BY <2>1, <2>2, Zenon
  <2>4. /\ Read16(s, at + 1) = q[2] * 256 + q[3]
        /\ Read16(s, at + 3) = q[4] * 256 + q[5]
    BY <1>3, <2>3, Zenon
  <2> QED BY <1>2, <2>4, Zenon
<1> HIDE DEF s
<1>6. ReadBits(Read8(s, at), 8, 4, 3) = High(t)
  <2>1. ((x * 32 + y * 16 + High(t) * 2 + 1) \div 2) % 8 = High(t)
    <3> DEFINE h == High(t)
    <3>1. h \in Int /\ 0 <= h /\ h < 8
      BY Groups
    <3> HIDE DEF h
    <3>2. ((x * 32 + y * 16 + h * 2 + 1) \div 2) % 8 = h
      BY <3>1, FirstParts, SMT
    <3> QED BY <3>2 DEF h
  <2> QED BY <1>4, <2>1, MorePowers, SMT DEF ReadBits, FirstByte
<1>7. /\ ReadBits(Read16(s, at + 1), 16, 0, 15) = Middle(t)
      /\ ReadBits(Read16(s, at + 3), 16, 0, 15) = Low(t)
  <2>1. /\ ((2 * Middle(t) + 1) \div 2) % 32768 = Middle(t)
        /\ ((2 * Low(t) + 1) \div 2) % 32768 = Low(t)
    <3> DEFINE m == Middle(t)
               l == Low(t)
    <3>1. /\ m \in Int /\ 0 <= m /\ m < 32768
          /\ l \in Int /\ 0 <= l /\ l < 32768
      BY Groups
    <3> HIDE DEF m, l
    <3>2. ((2 * m + 1) \div 2) % 32768 = m /\ ((2 * l + 1) \div 2) % 32768 = l
      BY <3>1, SMT
    <3> QED BY <3>2 DEF m, l
  <2> QED BY <1>5, <2>1, Powers, MorePowers, SMT DEF ReadBits
<1>8. ReadTime(s, at) = <<High(t), Middle(t) * 32768 + Low(t)>>
  BY <1>6, <1>7, Powers DEF ReadTime
<1> QED BY <1>8, Groups, SMTT(30) DEF Low33, s, High

-----------------------------------------------------------------------------
LEMMA HeaderSizes ==
  ASSUME NEW p \in PesType
  PROVE  /\ HeaderSize(p) \in 3..13 /\ HeaderSize(p) \in Nat
         /\ p.stream_id \in Int
         /\ HeaderSize(p) = 3 + 5 * p.pts_indicator + 5 * p.dts_indicator
         /\ p.stream_id \in 0..255 /\ p.data_alignment_indicator \in 0..1
         /\ p.pts_indicator \in 0..1 /\ p.dts_indicator \in 0..1
         /\ p.pts \in TimeType /\ p.dts \in TimeType
         /\ p.data \in Seq(Int) /\ Len(p.data) \in Nat
<1>1. /\ p.stream_id \in 0..255 /\ p.data_alignment_indicator \in 0..1
      /\ p.pts_indicator \in 0..1 /\ p.dts_indicator \in 0..1
      /\ p.pts \in TimeType /\ p.dts \in TimeType
      /\ p.data \in Seq(0..255)
  BY DEF PesType, Byte
<1>2. p.data \in Seq(Int) /\ Len(p.data) \in Nat
  <2>1. 0..255 \subseteq Int
    OBVIOUS
  <2> QED BY <1>1, <2>1, SeqMonotonic, LenProperties, ZenonT(30)
<1>3. /\ HeaderSize(p) \in 3..13 /\ HeaderSize(p) \in Nat
      /\ HeaderSize(p) = 3 + 5 * p.pts_indicator + 5 * p.dts_indicator
  <2>1. \A x, y \in 0..1 : 3 + 5 * x + 5 * y \in 3..13 /\ 3 + 5 * x + 5 * y \in Nat
    OBVIOUS
  <2> QED BY <1>1, <2>1, Zenon DEF HeaderSize
<1>4. p.stream_id \in Int
  <2>1. \A i \in 0..255 : i \in Int
    OBVIOUS
  <2> QED BY <1>1, <2>1, Zenon
<1> QED BY <1>1, <1>2, <1>3, <1>4, Zenon

(* The word of flags.                                                      *)
Flags(p) ==
  32768 + p.data_alignment_indicator * 1024 + p.pts_indicator * 128
    + p.dts_indicator * 64

LEMMA FlagsFacts ==
  ASSUME NEW p \in PesType
  PROVE  /\ IsWord(Flags(p))
         /\ ReadBits(Flags(p), 16, 0, 2) = 2
         /\ ReadBits(Flags(p), 16, 5, 1) = p.data_alignment_indicator
         /\ ReadBits(Flags(p), 16, 8, 1) = p.pts_indicator
         /\ ReadBits(Flags(p), 16, 9, 1) = p.dts_indicator
         /\ ReadBits(Flags(p), 16, 2, 3) = 0
         /\ ReadBits(Flags(p), 16, 6, 2) = 0
<1> DEFINE v == Flags(p)
<1>1. /\ v \in Int /\ 0 <= v /\ v < 65536
      /\ (v \div 16384) % 4 = 2 /\ (v \div 1024) % 2 = p.data_alignment_indicator
      /\ (v \div 128) % 2 = p.pts_indicator /\ (v \div 64) % 2 = p.dts_indicator
      /\ (v \div 2048) % 8 = 0 /\ (v \div 256) % 4 = 0
  <2> DEFINE a == p.data_alignment_indicator
             x == p.pts_indicator
             y == p.dts_indicator
  <2>1. a \in 0..1 /\ x \in 0..1 /\ y \in 0..1
    BY HeaderSizes, Zenon
  <2>2. v = 32768 + a * 1024 + x * 128 + y * 64
    BY DEF Flags
  <2> HIDE DEF v, a, x, y
  <2>3. /\ v \in Int /\ 0 <= v /\ v < 65536
        /\ (v \div 16384) % 4 = 2 /\ (v \div 1024) % 2 = a
        /\ (v \div 128) % 2 = x /\ (v \div 64) % 2 = y
        /\ (v \div 2048) % 8 = 0 /\ (v \div 256) % 4 = 0
    BY <2>1, <2>2, SMT
  <2> QED BY <2>3 DEF a, x, y
<1> HIDE DEF v
<1>2. /\ ReadBits(v, 16, 0, 2) = (v \div 16384) % 4
      /\ ReadBits(v, 16, 5, 1) = (v \div 1024) % 2
      /\ ReadBits(v, 16, 8, 1) = (v \div 128) % 2
      /\ ReadBits(v, 16, 9, 1) = (v \div 64) % 2
      /\ ReadBits(v, 16, 2, 3) = (v \div 2048) % 8
      /\ ReadBits(v, 16, 6, 2) = (v \div 256) % 4
  BY Powers, MorePowers, SMT DEF ReadBits
<1> QED BY <1>1, <1>2 DEF IsWord, v

(* ts_pes_pack_stream: where the parts of the header are.                  *)
LEMMA HeaderParts ==
  ASSUME NEW p \in PesType, NEW h, h = Header(p)
  PROVE  /\ h \in Seq(Int) /\ Len(h) = HeaderSize(p)
         /\ h[1] = Flags(p) \div 256 /\ h[2] = Flags(p) % 256
         /\ h[3] = HeaderSize(p) - 3
         /\ p.pts_indicator = 1 => Holds(h, 3, TimeBytes(p.pts, 1, p.dts_indicator))
         /\ p.dts_indicator = 1 =>
              Holds(h, 3 + 5 * p.pts_indicator, TimeBytes(p.dts, 0, 1))
<1> DEFINE w == Bytes16(Flags(p))
           n == <<HeaderSize(p) - 3>>
           T == TimeBytes(p.pts, 1, p.dts_indicator)
           D == TimeBytes(p.dts, 0, 1)
           t == IF p.pts_indicator = 1 THEN T ELSE <<>>
           d == IF p.dts_indicator = 1 THEN D ELSE <<>>
           x == p.pts_indicator
           y == p.dts_indicator
<1>1. h = w \o n \o t \o d
  <2>1. /\ WriteBits(p.data_alignment_indicator, 16, 5, 1)
             = p.data_alignment_indicator * 1024
        /\ WriteBits(p.pts_indicator, 16, 8, 1) = p.pts_indicator * 128
        /\ WriteBits(p.dts_indicator, 16, 9, 1) = p.dts_indicator * 64
        /\ 2^15 = 32768
    BY HeaderSizes, Powers, MorePowers, SMT DEF WriteBits
  <2>2. 2^15 + WriteBits(p.data_alignment_indicator, 16, 5, 1)
          + WriteBits(p.pts_indicator, 16, 8, 1)
          + WriteBits(p.dts_indicator, 16, 9, 1) = Flags(p)
    BY <2>1 DEF Flags
  <2> QED BY <2>2, Zenon DEF Header
<1>2. x \in 0..1 /\ y \in 0..1 /\ HeaderSize(p) = 3 + 5 * x + 5 * y
  BY HeaderSizes
<1>3. /\ w \in Seq(Int) /\ Len(w) = 2
      /\ w[1] = Flags(p) \div 256 /\ w[2] = Flags(p) % 256
  BY FlagsFacts, WordBytes
<1>4. n \in Seq(Int) /\ Len(n) = 1 /\ n[1] = HeaderSize(p) - 3
  BY <1>2
<1>5. t \in Seq(Int) /\ Len(t) = 5 * x /\ (x = 1 => t = T)
  <2>1. CASE x = 1
    <3>1. p.pts \in TimeType /\ 1 \in 0..1 /\ p.dts_indicator \in 0..1
      BY HeaderSizes
    <3>2. T \in Seq(Int) /\ Len(T) = 5
      BY <3>1, TimeParts, ZenonT(30)
    <3> QED BY <2>1, <3>2
  <2>2. CASE x # 1
    BY <1>2, <2>2, EmptySeq
  <2> QED BY <2>1, <2>2
<1>6. d \in Seq(Int) /\ Len(d) = 5 * y /\ (y = 1 => d = D)
  <2>1. CASE y = 1
    <3>1. p.dts \in TimeType /\ 1 \in 0..1 /\ 0 \in 0..1
      BY HeaderSizes
    <3>2. D \in Seq(Int) /\ Len(D) = 5
      BY <3>1, TimeParts, ZenonT(30)
    <3> QED BY <2>1, <3>2
  <2>2. CASE y # 1
    BY <1>2, <2>2, EmptySeq
  <2> QED BY <2>1, <2>2
<1> HIDE DEF w, n, t, d, T, D, x, y
<1> DEFINE a == w \o n
           b == a \o t
           c == b \o d
<1>7. /\ a \in Seq(Int) /\ Len(a) = 3
      /\ a[1] = w[1] /\ a[2] = w[2] /\ a[3] = n[1]
  <2>1. /\ a \in Seq(Int) /\ Len(a) = 2 + 1
        /\ Holds(a, 0, w) /\ Holds(a, 2, n)
    BY <1>3, <1>4, Joined, ZenonT(30)
  <2> HIDE DEF a
  <2>2. a[0 + 1] = w[1] /\ a[0 + 2] = w[2] /\ a[2 + 1] = n[1]
    BY <2>1, <1>3, <1>4 DEF Holds
  <2> QED BY <2>1, <2>2
<1> HIDE DEF a
<1>8. /\ b \in Seq(Int) /\ Len(b) = 3 + 5 * x
      /\ Holds(b, 0, a) /\ Holds(b, 3, t)
  BY <1>5, <1>7, Joined
<1> HIDE DEF b
<1>9. /\ c \in Seq(Int) /\ Len(c) = 3 + 5 * x + 5 * y
      /\ Holds(c, 0, b) /\ Holds(c, 3 + 5 * x, d)
  BY <1>6, <1>8, Joined
<1>10. Holds(c, 3, t)
  BY <1>2, <1>5, <1>6, <1>8, HoldsOn
<1> HIDE DEF c
<1>11. c[1] = a[1] /\ c[2] = a[2] /\ c[3] = a[3]
  <2>1. b[0 + 1] = a[1] /\ b[0 + 2] = a[2] /\ b[0 + 3] = a[3]
    BY <1>7, <1>8 DEF Holds
  <2>2. c[0 + 1] = b[1] /\ c[0 + 2] = b[2] /\ c[0 + 3] = b[3]
    BY <1>2, <1>8, <1>9 DEF Holds
  <2> QED BY <2>1, <2>2
<1>12. h = c
  BY <1>1 DEF a, b, c
<1>13. h \in Seq(Int) /\ Len(h) = HeaderSize(p)
  BY <1>2, <1>9, <1>12
<1>14. h[1] = Flags(p) \div 256 /\ h[2] = Flags(p) % 256 /\ h[3] = HeaderSize(p) - 3
  BY <1>3, <1>4, <1>7, <1>11, <1>12
<1>15. x = 1 => Holds(h, 3, T)
  BY <1>5, <1>10, <1>12
<1>16. y = 1 => Holds(h, 3 + 5 * x, D)
  BY <1>6, <1>9, <1>12
<1> QED BY <1>13, <1>14, <1>15, <1>16 DEF T, D, x, y

(* The header there is: none for the ids 0xbe and 0xbf.                    *)
HeadSize(p) == IF Headless(p.stream_id) THEN 0 ELSE HeaderSize(p)
HeadOf(p) == IF Headless(p.stream_id) THEN <<>> ELSE Header(p)

(* ts_pes_pack_stream: where the parts of a packet are.                    *)
LEMMA PackedParts ==
  ASSUME NEW p \in PesType, Length(p) < MaxLength, NEW b, b = Packed(p)
  PROVE  /\ b \in Seq(Int) /\ Len(b) = 6 + HeadSize(p) + Len(p.data)
         /\ b[1] = 0 /\ b[2] = 0 /\ b[3] = 1 /\ b[4] = p.stream_id
         /\ b[5] * 256 + b[6] = Length(p)
         /\ Holds(b, 6, HeadOf(p)) /\ Holds(b, 6 + HeadSize(p), p.data)
         /\ Length(p) \in Nat /\ HeadSize(p) \in 0..13
<1> DEFINE e == <<0, 0, 1, p.stream_id>>
           w == Bytes16(Length(p))
           h == HeadOf(p)
           u == e \o w
           v == u \o h
           d == p.data
<1>1. /\ p.stream_id \in Int /\ HeaderSize(p) \in 3..13
      /\ d \in Seq(Int) /\ Len(d) \in Nat
  BY HeaderSizes, Zenon
<1>2. b = v \o d
  <2>1. h = IF Headless(p.stream_id) THEN <<>> ELSE Header(p)
    BY DEF HeadOf
  <2> QED BY <2>1, Zenon DEF Packed
<1>3. Length(p) \in Nat /\ IsWord(Length(p))
  <2>1. Length(p) = 0 \/ Length(p) = HeaderSize(p) + Len(d)
    BY DEF Length
  <2>2. MaxLength \in Int /\ MaxLength <= 65536
    BY MaxLengthRange
  <2> HIDE DEF d
  <2>3. Length(p) \in Nat
    BY <1>1, <2>1
  <2> QED BY <2>2, <2>3 DEF IsWord
<1>4. /\ w \in Seq(Int) /\ Len(w) = 2
      /\ w[1] = Length(p) \div 256 /\ w[2] = Length(p) % 256
      /\ (Length(p) \div 256) * 256 + (Length(p) % 256) = Length(p)
  <2>1. (Length(p) \div 256) * 256 + (Length(p) % 256) = Length(p)
    BY <1>3, SMT
  <2> QED BY <1>3, <2>1, WordBytes
<1>5. h \in Seq(Int) /\ Len(h) = HeadSize(p) /\ HeadSize(p) \in 0..13
  <2>1. CASE Headless(p.stream_id)
    BY <2>1, EmptySeq DEF HeadOf, HeadSize
  <2>2. CASE ~Headless(p.stream_id)
    <3>1. Header(p) \in Seq(Int) /\ Len(Header(p)) = HeaderSize(p)
      BY HeaderParts
    <3> QED BY <1>1, <2>2, <3>1 DEF HeadOf, HeadSize
  <2> QED BY <2>1, <2>2
<1>6. /\ e \in Seq(Int) /\ Len(e) = 4
      /\ e[1] = 0 /\ e[2] = 0 /\ e[3] = 1 /\ e[4] = p.stream_id
  BY <1>1
<1> HIDE DEF e, w, h, d
<1>7. u \in Seq(Int) /\ Len(u) = 6 /\ Holds(u, 0, e) /\ Holds(u, 4, w)
  <2>1. /\ u \in Seq(Int) /\ Len(u) = Len(e) + Len(w)
        /\ Holds(u, 0, e) /\ Holds(u, Len(e), w)
    BY <1>4, <1>6, Joined, Zenon
  <2> HIDE DEF u
  <2>2. Len(e) + Len(w) = 6
    BY <1>4, <1>6
  <2> QED BY <1>6, <2>1, <2>2, Zenon
<1> HIDE DEF u
<1>8. /\ u[1] = 0 /\ u[2] = 0 /\ u[3] = 1 /\ u[4] = p.stream_id
      /\ u[5] * 256 + u[6] = Length(p)
  <2>1. u[0 + 1] = e[1] /\ u[0 + 2] = e[2] /\ u[0 + 3] = e[3] /\ u[0 + 4] = e[4]
    BY <1>6, <1>7 DEF Holds
  <2>2. u[4 + 1] = w[1] /\ u[4 + 2] = w[2]
    BY <1>4, <1>7 DEF Holds
  <2> QED BY <1>4, <1>6, <2>1, <2>2
<1>9. /\ v \in Seq(Int) /\ Len(v) = 6 + HeadSize(p)
      /\ Holds(v, 0, u) /\ Holds(v, 6, h)
  BY <1>5, <1>7, Joined
<1> HIDE DEF v
<1>10. /\ b \in Seq(Int) /\ Len(b) = 6 + HeadSize(p) + Len(d)
       /\ Holds(b, 0, v) /\ Holds(b, 6 + HeadSize(p), d)
  BY <1>1, <1>2, <1>9, Joined
<1>11. Holds(b, 6, h)
  BY <1>1, <1>2, <1>5, <1>9, HoldsOn
<1>12. /\ b[1] = 0 /\ b[2] = 0 /\ b[3] = 1 /\ b[4] = p.stream_id
       /\ b[5] * 256 + b[6] = Length(p)
  <2>1. \A i \in 1..6 : v[0 + i] = u[i]
    BY <1>7, <1>9 DEF Holds
  <2>2. \A i \in 1..6 : b[0 + i] = v[i]
    BY <1>5, <1>9, <1>10 DEF Holds
  <2>3. \A i \in 1..6 : b[i] = u[i]
    BY <2>1, <2>2
  <2> QED BY <1>8, <2>3
<1> QED BY <1>3, <1>5, <1>10, <1>11, <1>12 DEF h, d

(* b begins as p does when packed, for its first k bytes.                  *)
Begins(b, k, p) ==
  b \in Seq(Int) /\ k \in 0..Len(b) /\ \A i \in 1..k : b[i] = Packed(p)[i]

(* The stream behind the length field.                                     *)
Behind(b) == [valid |-> TRUE, rest |-> SubSeq(b, 7, Len(b))]

(* The first six bytes, and the stream behind them.                        *)
LEMMA StartRead ==
  ASSUME NEW p \in PesType, Length(p) < MaxLength, NEW b, NEW k,
         Begins(b, k, p), k >= 6
  PROVE  /\ Read8(Open(b), 3) = p.stream_id
         /\ Read(Open(b), 0, 4) = <<0, 0, 1, p.stream_id>>
         /\ Read16(Open(b), 4) = Length(p)
         /\ Skip(Open(b), 6) = Behind(b)
<1> DEFINE P == Packed(p)
<1>1. /\ P[1] = 0 /\ P[2] = 0 /\ P[3] = 1 /\ P[4] = p.stream_id
      /\ P[5] * 256 + P[6] = Length(p)
  BY PackedParts
<1> HIDE DEF P
<1>2. /\ b \in Seq(Int) /\ Len(b) \in Nat /\ Len(b) >= 6
      /\ \A i \in 1..Len(b) : b[i] \in Int
      /\ b[1] = P[1] /\ b[2] = P[2] /\ b[3] = P[3] /\ b[4] = P[4]
      /\ b[5] = P[5] /\ b[6] = P[6]
  BY LenProperties, ElementOfSeq, SMTT(30) DEF Begins, P
<1>3. Read8(Open(b), 3) = p.stream_id
  <2>1. Read8(Open(b), 3) = b[3 + 1]
    <3>1. 3 \in Nat /\ 3 + 1 <= Len(b)
      BY <1>2
    <3> QED BY <1>2, <3>1, ReadsByte, Zenon DEF Open
  <2> QED BY <1>1, <1>2, <2>1, SMTT(30)
<1>4. Read16(Open(b), 4) = Length(p)
  <2>1. Read16(Open(b), 4) = b[4 + 1] * 256 + b[4 + 2]
    <3>1. 4 \in Nat /\ 4 + 2 <= Len(b)
      BY <1>2
    <3> QED BY <1>2, <3>1, ReadsWord, Zenon DEF Open
  <2> QED BY <1>1, <1>2, <2>1
<1>5. Read(Open(b), 0, 4) = <<0, 0, 1, p.stream_id>>
  <2>1. Read(Open(b), 0, 4) = SubSeq(b, 1, 4)
    <3>1. 0 + 4 <= Len(b) /\ 0 + 1 = 1 /\ 0 + 4 = 4
      BY <1>2
    <3> QED BY <3>1, Zenon DEF Read, Open
  <2>2. /\ SubSeq(b, 1, 4) \in Seq(Int) /\ Len(SubSeq(b, 1, 4)) = 4
        /\ \A i \in 1..4 : SubSeq(b, 1, 4)[i] = b[1 + i - 1]
    <3>1. 1 \in Int /\ 4 \in Int /\ 1 <= 1 /\ 1 <= 4 + 1 /\ 4 <= Len(b)
      BY <1>2
    <3> DEFINE c == SubSeq(b, 1, 4)
    <3>2. /\ c \in Seq(Int) /\ Len(c) = 4 + 1 - 1
          /\ \A i \in 1..(4 + 1 - 1) : c[i] = b[1 - 1 + i]
      BY <1>2, <3>1, Cut, Zenon
    <3> HIDE DEF c
    <3>3. c \in Seq(Int) /\ Len(c) = 4 /\ \A i \in 1..4 : c[i] = b[1 + i - 1]
      BY <3>2
    <3> QED BY <3>3 DEF c
  <2>3. p.stream_id \in Int
    BY HeaderSizes, Zenon
  <2>4. <<0, 0, 1, p.stream_id>> \in Seq(Int) /\ Len(<<0, 0, 1, p.stream_id>>) = 4
    BY <2>3
  <2>5. \A i \in 1..4 : SubSeq(b, 1, 4)[i] = <<0, 0, 1, p.stream_id>>[i]
    BY <1>1, <1>2, <2>2, SMTT(30)
  <2> QED BY <2>1, <2>2, <2>4, <2>5, SeqEqual
<1>6. Skip(Open(b), 6) = Behind(b)
  <2>1. 6 <= Len(b) /\ 6 + 1 = 7
    BY <1>2
  <2>2. Skip([valid |-> TRUE, rest |-> b], 6) =
          [valid |-> TRUE, rest |-> SubSeq(b, 6 + 1, Len(b))]
    BY <2>1, SkipLeaves, Zenon
  <2> QED BY <2>1, <2>2, Zenon DEF Open, Behind
<1> QED BY <1>3, <1>4, <1>5, <1>6

(* The fields of a ts_pes.                                                 *)
Fields8(a, b, c, e, f, t, u, d) ==
  [stream_id |-> a, data_alignment_indicator |-> b, other |-> c,
   pts_indicator |-> e, dts_indicator |-> f, pts |-> t, dts |-> u, data |-> d]

LEMMA PesFields ==
  ASSUME NEW p \in PesType
  PROVE  p = Fields8(p.stream_id, p.data_alignment_indicator, p.other,
                     p.pts_indicator, p.dts_indicator, p.pts, p.dts, p.data)
<1>1. ASSUME NEW A, NEW B, NEW C, NEW E, NEW F, NEW T, NEW U, NEW D,
             NEW q \in [stream_id : A, data_alignment_indicator : B, other : C,
                        pts_indicator : E, dts_indicator : F, pts : T, dts : U,
                        data : D]
      PROVE  q = Fields8(q.stream_id, q.data_alignment_indicator, q.other,
                         q.pts_indicator, q.dts_indicator, q.pts, q.dts, q.data)
  BY SMTT(30) DEF Fields8
<1> QED BY <1>1 DEF PesType

(* The packet read when d is what is behind the header.                    *)
LEMMA CarriedWith ==
  ASSUME NEW p \in PesType, NEW d
  PROVE  /\ [Carried(p) EXCEPT !.data = d] =
              [stream_id |-> p.stream_id,
               data_alignment_indicator |-> p.data_alignment_indicator,
               other |-> 0, pts_indicator |-> p.pts_indicator,
               dts_indicator |-> p.dts_indicator,
               pts |-> IF p.pts_indicator = 1 THEN Low33(p.pts) ELSE Zero,
               dts |-> IF p.dts_indicator = 1 THEN Low33(p.dts) ELSE Zero,
               data |-> d]
         /\ [Carried(p) EXCEPT !.data = p.data] = Carried(p)
         /\ [Carried(p) EXCEPT !.data = d].data = d
         /\ [[Carried(p) EXCEPT !.data = d] EXCEPT !.data = <<>>] =
              [Carried(p) EXCEPT !.data = <<>>]
<1> DEFINE t == IF p.pts_indicator = 1 THEN Low33(p.pts) ELSE Zero
           u == IF p.dts_indicator = 1 THEN Low33(p.dts) ELSE Zero
           C(x) == Fields8(p.stream_id, p.data_alignment_indicator, 0,
                           p.pts_indicator, p.dts_indicator, t, u, x)
<1>1. Carried(p) = [[[p EXCEPT !.other = 0] EXCEPT !.pts = t] EXCEPT !.dts = u]
  BY Zenon DEF Carried
<1> HIDE DEF t, u
<1>2. Carried(p) = C(p.data)
  <2> DEFINE F(o, g, h) ==
               Fields8(p.stream_id, p.data_alignment_indicator, o,
                       p.pts_indicator, p.dts_indicator, g, h, p.data)
  <2>1. p = F(p.other, p.pts, p.dts)
    BY PesFields, Zenon
  <2>2. [F(p.other, p.pts, p.dts) EXCEPT !.other = 0] = F(0, p.pts, p.dts)
    BY SMT DEF Fields8
  <2>3. [F(0, p.pts, p.dts) EXCEPT !.pts = t] = F(0, t, p.dts)
    BY SMT DEF Fields8
  <2>4. [F(0, t, p.dts) EXCEPT !.dts = u] = F(0, t, u)
    BY SMT DEF Fields8
  <2>5. F(0, t, u) = C(p.data)
    OBVIOUS
  <2> HIDE DEF F, C
  <2>6. [p EXCEPT !.other = 0] = F(0, p.pts, p.dts)
    BY <2>1, <2>2, Zenon
  <2>7. [[p EXCEPT !.other = 0] EXCEPT !.pts = t] = F(0, t, p.dts)
    BY <2>3, <2>6, Zenon
  <2> QED BY <1>1, <2>4, <2>5, <2>7, Zenon
<1>3. ASSUME NEW x, NEW y
      PROVE  [C(x) EXCEPT !.data = y] = C(y) /\ C(x).data = x
  <2>1. [C(x) EXCEPT !.data = y] = C(y)
    BY SMT DEF Fields8
  <2>2. C(x).data = x
    BY SMT DEF Fields8
  <2> QED BY <2>1, <2>2, Zenon
<1>4. /\ [Carried(p) EXCEPT !.data = d] = C(d)
      /\ [Carried(p) EXCEPT !.data = p.data] = Carried(p)
      /\ [Carried(p) EXCEPT !.data = d].data = d
      /\ [[Carried(p) EXCEPT !.data = d] EXCEPT !.data = <<>>] =
           [Carried(p) EXCEPT !.data = <<>>]
  <2> HIDE DEF C
  <2>1. [Carried(p) EXCEPT !.data = d] = C(d)
    BY <1>2, <1>3, ZenonT(60)
  <2>2. [Carried(p) EXCEPT !.data = p.data] = Carried(p)
    BY <1>2, <1>3, Zenon
  <2>3. [Carried(p) EXCEPT !.data = d].data = d
    BY <1>3, <2>1, Zenon
  <2>4. [Carried(p) EXCEPT !.data = <<>>] = C(<<>>)
    BY <1>2, <1>3, ZenonT(60)
  <2>5. [[Carried(p) EXCEPT !.data = d] EXCEPT !.data = <<>>] = C(<<>>)
    BY <1>3, <2>1, Zenon
  <2> QED BY <2>1, <2>2, <2>3, <2>4, <2>5, Zenon
<1> QED BY <1>4, Zenon DEF t, u, Fields8

(* ts_pes_unpack_stream, behind the length field of a packet that is whole *)
(* as far as its header goes.                                              *)
LEMMA HeadRead ==
  ASSUME NEW p \in PesType, Length(p) < MaxLength, ~Headless(p.stream_id),
         NEW b, NEW k, Begins(b, k, p), k >= 6 + HeaderSize(p)
  PROVE  /\ HeaderSound(Read16(Behind(b), 0), Behind(b))
         /\ WithHeader(p.stream_id, Read16(Behind(b), 0), Behind(b)) =
              [Carried(p) EXCEPT !.data = SubSeq(b, 7 + HeaderSize(p), Len(b))]
<1>0. PICK s : s = Behind(b)
  OBVIOUS
<1>v. PICK v : v = Read16(s, 0)
  OBVIOUS
<1> DEFINE n == HeaderSize(p)
           r == SubSeq(b, 7, Len(b))
           h == Header(p)
           x == p.pts_indicator
           y == p.dts_indicator
<1>1. /\ n \in 3..13 /\ n = 3 + 5 * x + 5 * y /\ x \in 0..1 /\ y \in 0..1
      /\ p.pts \in TimeType /\ p.dts \in TimeType
  BY HeaderSizes
<1>2. /\ b \in Seq(Int) /\ Len(b) \in Nat /\ k \in 0..Len(b) /\ Len(b) >= 6 + n
      /\ \A i \in 1..Len(b) : b[i] \in Int
      /\ \A i \in 1..(6 + n) : b[i] = Packed(p)[i]
  <2>1. /\ b \in Seq(Int) /\ k \in 0..Len(b)
        /\ \A i \in 1..k : b[i] = Packed(p)[i]
    BY DEF Begins
  <2>2. Len(b) \in Nat /\ \A i \in 1..Len(b) : b[i] \in Int
    BY <2>1, LenProperties, ElementOfSeq
  <2>3. k >= 6 + n
    OBVIOUS
  <2> HIDE DEF n
  <2> QED BY <1>1, <2>1, <2>2, <2>3
<1>3. Len(h) = n /\ \A i \in 1..n : Packed(p)[6 + i] = h[i]
  <2>1. Holds(Packed(p), 6, h)
    BY PackedParts DEF HeadOf
  <2>2. Len(h) = n
    BY HeaderParts
  <2> QED BY <2>1, <2>2 DEF Holds
<1>4. /\ h[1] = Flags(p) \div 256 /\ h[2] = Flags(p) % 256 /\ h[3] = n - 3
      /\ x = 1 => Holds(h, 3, TimeBytes(p.pts, 1, y))
      /\ y = 1 => Holds(h, 3 + 5 * x, TimeBytes(p.dts, 0, 1))
  BY HeaderParts
<1>5. /\ r \in Seq(Int) /\ Len(r) = Len(b) - 6
      /\ \A i \in 1..(Len(b) - 6) : r[i] = b[6 + i]
  <2>1. /\ r \in Seq(Int) /\ Len(r) = Len(b) - 6
        /\ \A i \in 1..(Len(b) - 7 + 1) : r[i] = b[7 + i - 1]
    BY <1>1, <1>2, SubSeqProperties
  <2> QED BY <1>2, <2>1
<1> HIDE DEF n, r, h, x, y
<1>6. \A i \in 1..n : r[i] = h[i]
  <2> SUFFICES ASSUME NEW i \in 1..n PROVE r[i] = h[i]
    OBVIOUS
  <2>1. i \in 1..(Len(b) - 6) /\ 6 + i \in 1..(6 + n)
    BY <1>1, <1>2
  <2>2. r[i] = b[6 + i] /\ b[6 + i] = Packed(p)[6 + i] /\ Packed(p)[6 + i] = h[i]
    BY <1>2, <1>3, <1>5, <2>1, Zenon
  <2> QED BY <2>2, Zenon
<1>7. s = [valid |-> TRUE, rest |-> r]
  BY <1>0, Zenon DEF r, Behind
<1>8. v = Flags(p)
  <2>1. v = r[0 + 1] * 256 + r[0 + 2]
    <3>1. 0 \in Nat /\ 0 + 2 <= Len(r)
      BY <1>1, <1>2, <1>5
    <3>2. Read16(s, 0) = r[0 + 1] * 256 + r[0 + 2]
      BY <1>5, <1>7, <3>1, ReadsWord, Zenon
    <3> QED BY <1>v, <3>2, Zenon
  <2>2. r[1] = h[1] /\ r[2] = h[2]
    BY <1>1, <1>6
  <2>3. (Flags(p) \div 256) * 256 + (Flags(p) % 256) = Flags(p)
    BY FlagsFacts, WordParts DEF IsWord
  <2> QED BY <1>4, <2>1, <2>2, <2>3
<1>9. Read8(s, 2) = n - 3
  <2>1. Read8(s, 2) = r[2 + 1]
    <3>1. 2 \in Nat /\ 2 + 1 <= Len(r)
      BY <1>1, <1>2, <1>5
    <3> QED BY <1>5, <1>7, <3>1, ReadsByte, Zenon
  <2>2. r[3] = h[3]
    BY <1>1, <1>6
  <2> QED BY <1>4, <2>1, <2>2
<1>10. Skip(s, 3 + Read8(s, 2)) =
         [valid |-> TRUE, rest |-> SubSeq(b, 7 + n, Len(b))]
  <2>1. 3 + Read8(s, 2) = n
    BY <1>1, <1>9
  <2>2. Skip(s, n) = [valid |-> TRUE, rest |-> SubSeq(r, n + 1, Len(r))]
    <3>1. n <= Len(r)
      BY <1>1, <1>2, <1>5
    <3> QED BY <1>7, <3>1, SkipLeaves, Zenon
  <2>3. /\ SubSeq(r, n + 1, Len(r)) \in Seq(Int)
        /\ Len(SubSeq(r, n + 1, Len(r))) = Len(b) - 6 - n
        /\ \A i \in 1..(Len(b) - 6 - n) : SubSeq(r, n + 1, Len(r))[i] = r[n + i]
    <3>1. n \in Nat /\ n <= Len(r) /\ Len(r) - n = Len(b) - 6 - n
      BY <1>1, <1>2, <1>5
    <3>2. /\ SubSeq(r, n + 1, Len(r)) \in Seq(Int)
          /\ Len(SubSeq(r, n + 1, Len(r))) = Len(r) - n
          /\ \A i \in 1..(Len(r) - n) : SubSeq(r, n + 1, Len(r))[i] = r[n + i]
      BY <1>5, <3>1, Left, SMTT(30)
    <3> QED BY <3>1, <3>2, Zenon
  <2>4. /\ SubSeq(b, 7 + n, Len(b)) \in Seq(Int)
        /\ Len(SubSeq(b, 7 + n, Len(b))) = Len(b) - 6 - n
        /\ \A i \in 1..(Len(b) - 6 - n) : SubSeq(b, 7 + n, Len(b))[i] = b[6 + n + i]
    <3>1. /\ 6 + n \in Nat /\ 6 + n <= Len(b) /\ 7 + n = 6 + n + 1
          /\ Len(b) - (6 + n) = Len(b) - 6 - n
      BY <1>1, <1>2
    <3>2. /\ SubSeq(b, 7 + n, Len(b)) \in Seq(Int)
          /\ Len(SubSeq(b, 7 + n, Len(b))) = Len(b) - (6 + n)
          /\ \A i \in 1..(Len(b) - (6 + n)) :
               SubSeq(b, 7 + n, Len(b))[i] = b[6 + n + i]
      BY <1>2, <3>1, Left, ZenonT(30)
    <3> QED BY <3>1, <3>2, Zenon
  <2>5. SubSeq(r, n + 1, Len(r)) = SubSeq(b, 7 + n, Len(b))
    <3>1. \A i \in 1..(Len(b) - 6 - n) : r[n + i] = b[6 + n + i]
      BY <1>1, <1>2, <1>5
    <3> QED BY <2>3, <2>4, <3>1, SeqEqual
  <2> QED BY <2>1, <2>2, <2>5
<1>11. HeaderSound(v, s)
  <2>1. /\ ReadBits(v, 16, 0, 2) = 2 /\ ReadBits(v, 16, 8, 1) = x
        /\ ReadBits(v, 16, 9, 1) = y
    BY <1>8, FlagsFacts DEF x, y
  <2>2. Skip(s, 3 + Read8(s, 2)).valid
    BY <1>10, Fields, Zenon
  <2>3. Read8(s, 2) >= 5 * (x + y)
    BY <1>1, <1>9
  <2> QED BY <2>1, <2>2, <2>3, Zenon DEF HeaderSound
<1>12. x = 1 => ReadTime(s, 3) = Low33(p.pts)
  <2> SUFFICES ASSUME x = 1 PROVE ReadTime(s, 3) = Low33(p.pts)
    OBVIOUS
  <2> DEFINE q == TimeBytes(p.pts, 1, y)
  <2>1. /\ p.pts \in TimeType /\ 1 \in 0..1 /\ y \in 0..1 /\ 3 \in Nat
        /\ 3 + 5 <= n /\ 3 + 5 <= Len(r)
    BY <1>1, <1>2, <1>5
  <2>2. Len(q) = 5
    BY <2>1, TimeParts, ZenonT(30)
  <2>3. Holds(h, 3, q)
    BY <1>4
  <2> HIDE DEF q
  <2>4. \A i \in 1..5 : 3 + i \in 1..n
    BY <1>1, <2>1
  <2>5. Holds(r, 3, q)
    BY <1>6, <2>2, <2>3, <2>4, Zenon DEF Holds
  <2> QED BY <1>5, <1>7, <2>1, <2>5, TimeRead, Zenon DEF q
<1>13. y = 1 => ReadTime(s, 3 + 5 * x) = Low33(p.dts)
  <2> SUFFICES ASSUME y = 1 PROVE ReadTime(s, 3 + 5 * x) = Low33(p.dts)
    OBVIOUS
  <2> DEFINE q == TimeBytes(p.dts, 0, 1)
             at == 3 + 5 * x
  <2>1. /\ p.dts \in TimeType /\ 0 \in 0..1 /\ 1 \in 0..1 /\ at \in Nat
        /\ at + 5 <= n /\ at + 5 <= Len(r)
    BY <1>1, <1>2, <1>5
  <2>2. Len(q) = 5
    BY <2>1, TimeParts, SMTT(30)
  <2>3. Holds(h, at, q)
    BY <1>4
  <2> HIDE DEF q, at
  <2>4. \A i \in 1..5 : at + i \in 1..n
    BY <1>1, <2>1
  <2>5. Holds(r, at, q)
    BY <1>6, <2>2, <2>3, <2>4, Zenon DEF Holds
  <2> QED BY <1>5, <1>7, <2>1, <2>5, TimeRead, Zenon DEF q, at
<1>14. WithHeader(p.stream_id, v, s) =
         [stream_id |-> p.stream_id,
          data_alignment_indicator |-> p.data_alignment_indicator,
          other |-> 0, pts_indicator |-> x, dts_indicator |-> y,
          pts |-> IF x = 1 THEN Low33(p.pts) ELSE Zero,
          dts |-> IF y = 1 THEN Low33(p.dts) ELSE Zero,
          data |-> SubSeq(b, 7 + n, Len(b))]
  <2>1. /\ ReadBits(v, 16, 8, 1) = x /\ ReadBits(v, 16, 9, 1) = y
        /\ ReadBits(v, 16, 5, 1) = p.data_alignment_indicator
        /\ ReadBits(v, 16, 2, 3) * 4 + ReadBits(v, 16, 6, 2) = 0
    <3>1. /\ ReadBits(v, 16, 8, 1) = x /\ ReadBits(v, 16, 9, 1) = y
          /\ ReadBits(v, 16, 5, 1) = p.data_alignment_indicator
          /\ ReadBits(v, 16, 2, 3) = 0 /\ ReadBits(v, 16, 6, 2) = 0
      BY <1>8, FlagsFacts, Zenon DEF x, y
    <3> QED BY <3>1
  <2>2. Skip(s, 3 + Read8(s, 2)).rest = SubSeq(b, 7 + n, Len(b))
    BY <1>10, Fields, Zenon
  <2>3. (IF ReadBits(v, 16, 8, 1) = 1 THEN ReadTime(s, 3) ELSE Zero)
          = IF x = 1 THEN Low33(p.pts) ELSE Zero
    BY <1>12, <2>1
  <2>4. (IF ReadBits(v, 16, 9, 1) = 1
           THEN ReadTime(s, 3 + 5 * ReadBits(v, 16, 8, 1)) ELSE Zero)
          = IF y = 1 THEN Low33(p.dts) ELSE Zero
    BY <1>13, <2>1
  <2> QED BY <2>1, <2>2, <2>3, <2>4, Zenon DEF WithHeader
<1>15. WithHeader(p.stream_id, v, s) =
         [Carried(p) EXCEPT !.data = SubSeq(b, 7 + n, Len(b))]
  <2>1. [Carried(p) EXCEPT !.data = SubSeq(b, 7 + n, Len(b))] =
          [stream_id |-> p.stream_id,
           data_alignment_indicator |-> p.data_alignment_indicator,
           other |-> 0, pts_indicator |-> p.pts_indicator,
           dts_indicator |-> p.dts_indicator,
           pts |-> IF p.pts_indicator = 1 THEN Low33(p.pts) ELSE Zero,
           dts |-> IF p.dts_indicator = 1 THEN Low33(p.dts) ELSE Zero,
           data |-> SubSeq(b, 7 + n, Len(b))]
    BY CarriedWith, Zenon
  <2> QED BY <1>14, <2>1, Zenon DEF x, y
<1> QED BY <1>0, <1>v, <1>11, <1>15, Zenon DEF n

-----------------------------------------------------------------------------
(* The beginning of a packet, and what comes behind the fault.             *)
LEMMA Spliced ==
  ASSUME NEW P \in Seq(Int), NEW m \in 0..Len(P), NEW n \in 1..(Len(P) + 1),
         NEW b, b = SubSeq(P, 1, m) \o SubSeq(P, n, Len(P))
  PROVE  /\ b \in Seq(Int) /\ Len(b) = m + (Len(P) + 1 - n)
         /\ \A a \in 1..m : b[a] = P[a]
<1> DEFINE p == SubSeq(P, 1, m)
           q == SubSeq(P, n, Len(P))
<1>1. Len(P) \in Nat /\ \A i \in 1..Len(P) : P[i] \in Int
  BY LenProperties, ElementOfSeq
<1>2. /\ p \in Seq(Int) /\ Len(p) = m /\ \A a \in 1..m : p[a] = P[a]
  <2>1. \A i \in 1..m : P[i] \in Int
    BY <1>1
  <2>2. /\ p \in Seq(Int) /\ Len(p) = IF 1 <= m THEN m - 1 + 1 ELSE 0
        /\ \A a \in 1..(m - 1 + 1) : p[a] = P[1 + a - 1]
    BY <1>1, <2>1, SubSeqProperties
  <2> QED BY <1>1, <2>2
<1>3. q \in Seq(Int) /\ Len(q) = Len(P) + 1 - n
  <2>1. /\ n \in Int /\ Len(P) \in Int
        /\ 1 <= n /\ n <= Len(P) + 1 /\ Len(P) <= Len(P)
    BY <1>1
  <2> QED BY <2>1, Cut
<1> HIDE DEF p, q
<1>4. b = p \o q
  BY DEF p, q
<1>5. b \in Seq(Int) /\ Len(b) = Len(p) + Len(q) /\ Holds(b, 0, p)
  BY <1>2, <1>3, <1>4, Joined, Zenon
<1>6. \A a \in 1..m : b[a] = P[a]
  <2> SUFFICES ASSUME NEW a \in 1..m PROVE b[a] = P[a]
    OBVIOUS
  <2>1. b[0 + a] = p[a]
    BY <1>2, <1>5, Zenon DEF Holds
  <2>2. 0 + a = a
    OBVIOUS
  <2> QED BY <1>2, <2>1, <2>2, Zenon
<1> QED BY <1>2, <1>3, <1>5, <1>6

LEMMA CutShort ==
  ASSUME NEW P \in Seq(Int), NEW m \in 0..Len(P), NEW b, b = SubSeq(P, 1, m)
  PROVE  b \in Seq(Int) /\ Len(b) = m /\ \A a \in 1..m : b[a] = P[a]
<1>1. Len(P) \in Nat /\ \A i \in 1..Len(P) : P[i] \in Int
  BY LenProperties, ElementOfSeq
<1>2. 1 \in Int /\ m \in Int /\ 1 <= 1 /\ 1 <= m + 1 /\ m <= Len(P)
  BY <1>1
<1> DEFINE c == SubSeq(P, 1, m)
<1>3. /\ c \in Seq(Int) /\ Len(c) = m + 1 - 1
      /\ \A a \in 1..(m + 1 - 1) : c[a] = P[1 - 1 + a]
  BY <1>2, Cut, Zenon
<1> HIDE DEF c
<1>4. c \in Seq(Int) /\ Len(c) = m /\ \A a \in 1..m : c[a] = P[a]
  BY <1>2, <1>3
<1> QED BY <1>4, Zenon DEF c

(* What arrives of a packet in which bytes were lost or repeated: it is as *)
(* long as before only when nothing of its header is missing.              *)
Damaged ==
  /\ Begins(bytes, intact, pes)
  /\ intact <= Len(Packed(pes))
  /\ \/ intact <= 5 /\ Len(bytes) = intact
     \/ intact >= 6 /\ Len(bytes) # Len(Packed(pes))

(* The two parts of ReadsBack.                                             *)
RefusedIfLong ==
  phase # "start" =>
    (phase = "refused" <=>
       ~Video(pes.stream_id) /\ HeaderSize(pes) + Len(pes.data) >= MaxLength)

ReadBack ==
  phase = "done" /\ bytes = Packed(pes) =>
    IF Headless(pes.stream_id) THEN result = -1
    ELSE result = 1 /\ read = Carried(pes)

SentInv ==
  /\ pes \in PesType
  /\ phase \in {"packed", "sent"} => Length(pes) < MaxLength
  /\ phase = "packed" => bytes = Packed(pes) /\ intact = Len(bytes)
  /\ phase = "sent" => Damaged
  /\ RefusedIfLong
  /\ ReadBack
  /\ DamageRefused

(* Unpacking when the file ends in the first six bytes.                    *)
LEMMA CutRefused ==
  ASSUME pes \in PesType, Length(pes) < MaxLength, Begins(bytes, intact, pes),
         intact <= 5, Len(bytes) = intact, Unpack
  PROVE  result' = -1
<1> DEFINE id == Read8(Open(bytes), 3)
           s == Skip(Open(bytes), 6)
           v == Read16(s, 0)
<1>1. s = Destroyed
  BY DEF Begins, Skip, Open
<1>2. v = 0
  <2>1. Read(Destroyed, 0, 2)[1] = 0 /\ Read(Destroyed, 0, 2)[2] = 0
    BY DEF Read, Destroyed
  <2>2. \A r : Word(r, 1) = r[1] * 256 + r[2]
    BY DEF Word
  <2> QED BY <1>1, <2>1, <2>2 DEF Read16
<1>3. ~HeaderSound(v, s)
  <2>1. ReadBits(0, 16, 0, 2) = 0
    BY MorePowers, SMT DEF ReadBits
  <2> QED BY <1>2, <2>1 DEF HeaderSound
<1>4. ~s.valid
  BY <1>1 DEF Destroyed
<1>5. result' = 1 => (IF Headless(id) THEN s.valid ELSE HeaderSound(v, s))
  BY DEF Unpack
<1>6. result' \in {-1, 1}
  BY DEF Unpack
<1> QED BY <1>3, <1>4, <1>5, <1>6

(* Unpacking when the first six bytes are there.                           *)
LEMMA Unpacked ==
  ASSUME pes \in PesType, Length(pes) < MaxLength, NEW k, Begins(bytes, k, pes),
         k >= 6, Unpack
  PROVE  LET id == pes.stream_id
             s == Behind(bytes)
             v == Read16(s, 0)
             ok == /\ Length(pes) # 0 \/ Video(id)
                   /\ Length(pes) = 0 \/ Length(pes) = Len(bytes) - 6
                   /\ Headless(id) \/ HeaderSound(v, s)
         IN /\ result' = IF ok THEN 1 ELSE -1
            /\ ok /\ ~Headless(id) => read' = WithHeader(id, v, s)
<1> DEFINE id == pes.stream_id
           s == Behind(bytes)
           v == Read16(s, 0)
<1>1. /\ Read8(Open(bytes), 3) = id
      /\ Read(Open(bytes), 0, 4) = <<0, 0, 1, id>>
      /\ Read16(Open(bytes), 4) = Length(pes)
      /\ Skip(Open(bytes), 6) = s
  BY StartRead
<1>2. s.valid /\ Len(s.rest) = Len(bytes) - 6
  <2>1. bytes \in Seq(Int) /\ 6 \in Nat /\ 6 <= Len(bytes) /\ 7 = 6 + 1
    BY LenProperties DEF Begins
  <2>2. Len(SubSeq(bytes, 7, Len(bytes))) = Len(bytes) - 6
    BY <2>1, Left, Zenon
  <2> QED BY <2>2, Fields, Zenon DEF Behind
<1>3. s.valid
  BY <1>2
<1>4. LengthSound(id, Length(pes), s) <=>
        /\ Length(pes) # 0 \/ Video(id)
        /\ Length(pes) = 0 \/ Length(pes) = Len(bytes) - 6
  BY <1>2, Zenon DEF LengthSound
<1> DEFINE good == /\ LengthSound(id, Length(pes), s)
                   /\ IF Headless(id) THEN s.valid ELSE HeaderSound(v, s)
<1>5. /\ result' = IF good THEN 1 ELSE -1
      /\ good /\ ~Headless(id) => read' = WithHeader(id, v, s)
  <2>1. IF /\ Read(Open(bytes), 0, 4) = <<0, 0, 1, id>>
           /\ LengthSound(id, Read16(Open(bytes), 4), s)
           /\ IF Headless(id) THEN s.valid ELSE HeaderSound(v, s)
          THEN /\ result' = 1
               /\ read' = IF Headless(id)
                            THEN [NoPes EXCEPT !.stream_id = id, !.data = s.rest]
                            ELSE WithHeader(id, v, s)
          ELSE /\ result' = -1
               /\ UNCHANGED read
    <3> HIDE DEF id, s
    <3> QED BY <1>1, Zenon DEF Unpack, v
  <2> QED BY <1>1, <2>1
<1> HIDE DEF s, v, id
<1> QED BY <1>3, <1>4, <1>5, Zenon DEF s, v, id

LEMMA LengthIsInt ==
  ASSUME NEW p \in PesType
  PROVE  Length(p) \in Int /\ MaxLength \in Int
<1> DEFINE n == HeaderSize(p)
           m == Len(p.data)
<1>1. n \in 3..13 /\ m \in Nat
  BY HeaderSizes, Zenon
<1>2. Length(p) = IF Video(p.stream_id) /\ n + m >= MaxLength THEN 0 ELSE n + m
  BY Zenon DEF Length
<1> HIDE DEF n, m
<1>3. Length(p) \in Int
  BY <1>1, <1>2
<1> QED BY <1>3, MaxLengthRange

(* The length field is right, or video's 0.                                *)
LEMMA Lengths ==
  ASSUME NEW p \in PesType
  PROVE  \/ Length(p) = HeaderSize(p) + Len(p.data) /\ Length(p) # 0
         \/ Length(p) = 0 /\ Video(p.stream_id) /\ ~Headless(p.stream_id)
<1> DEFINE n == HeaderSize(p) + Len(p.data)
<1>1. n # 0
  <2>1. HeaderSize(p) \in 3..13 /\ Len(p.data) \in Nat
    BY HeaderSizes, Zenon
  <2> QED BY <2>1
<1>2. Length(p) = IF Video(p.stream_id) /\ n >= MaxLength THEN 0 ELSE n
  BY Zenon DEF Length
<1>3. Video(p.stream_id) => ~Headless(p.stream_id)
  BY DEF Video, Headless
<1> HIDE DEF n
<1>4. \/ Length(p) = n /\ Length(p) # 0
      \/ Length(p) = 0 /\ Video(p.stream_id) /\ ~Headless(p.stream_id)
  BY <1>1, <1>2, <1>3
<1> QED BY <1>4 DEF n

(* The packets that are refused are those too long for the field.          *)
LEMMA LongRefused ==
  ASSUME NEW p \in PesType
  PROVE  Length(p) >= MaxLength <=>
           ~Video(p.stream_id) /\ HeaderSize(p) + Len(p.data) >= MaxLength
<1> DEFINE n == HeaderSize(p) + Len(p.data)
           video == Video(p.stream_id)
<1>1. n \in Int
  <2>1. HeaderSize(p) \in 3..13 /\ Len(p.data) \in Nat
    BY HeaderSizes, Zenon
  <2> QED BY <2>1
<1>2. MaxLength \in Int /\ ~(0 >= MaxLength)
  BY MaxLengthRange
<1>3. Length(p) = IF video /\ n >= MaxLength THEN 0 ELSE n
  BY Zenon DEF Length
<1> HIDE DEF n, video
<1>4. Length(p) >= MaxLength <=> ~video /\ n >= MaxLength
  <2>1. video => ~(Length(p) >= MaxLength)
    BY <1>1, <1>2, <1>3
  <2>2. ~video => Length(p) = n
    BY <1>3, Zenon
  <2> QED BY <2>1, <2>2, Zenon
<1> QED BY <1>4 DEF n, video

LEMMA RefusalKept ==
  ASSUME SentInv, pes' = pes, phase \notin {"start", "refused"},
         phase' \notin {"start", "refused"}
  PROVE  RefusedIfLong'
<1>1. ~(~Video(pes.stream_id) /\ HeaderSize(pes) + Len(pes.data) >= MaxLength)
  BY Zenon DEF SentInv, RefusedIfLong
<1>2. HeaderSize(pes)' = HeaderSize(pes) /\ Video(pes.stream_id)' = Video(pes.stream_id)
  BY DEF HeaderSize, Video
<1> QED BY <1>1, <1>2, Zenon DEF RefusedIfLong

LEMMA UnpackReadsBack ==
  ASSUME SentInv, Unpack
  PROVE  ReadBack'
<1>1. /\ pes \in PesType /\ Length(pes) < MaxLength
      /\ pes' = pes /\ bytes' = bytes /\ intact' = intact
  BY DEF SentInv, Unpack
<1> SUFFICES ASSUME bytes = Packed(pes)
             PROVE  IF Headless(pes.stream_id) THEN result' = -1
                    ELSE result' = 1 /\ read' = Carried(pes)
  BY <1>1 DEF ReadBack, Packed, Length, Header, HeaderSize, Carried
<1> DEFINE n == HeaderSize(pes)
           L == Len(bytes)
           s == Behind(bytes)
<1>2. /\ bytes \in Seq(Int) /\ L = 6 + HeadSize(pes) + Len(pes.data)
      /\ HeadSize(pes) \in 0..13 /\ Holds(bytes, 6 + HeadSize(pes), pes.data)
  BY <1>1, PackedParts
<1>3. n \in 3..13 /\ pes.data \in Seq(Int) /\ Len(pes.data) \in Nat
  BY <1>1, HeaderSizes, Zenon
<1>4. Begins(bytes, L, pes) /\ L >= 6 /\ L \in Nat
  <2>1. L \in Nat /\ L >= 6
    <3> DEFINE h == HeadSize(pes)
               m == Len(pes.data)
    <3>1. L = 6 + h + m /\ h \in 0..13 /\ m \in Nat
      BY <1>2, <1>3, Zenon
    <3> HIDE DEF L, h, m
    <3> QED BY <3>1
  <2>2. L \in 0..L
    BY <2>1
  <2>3. \A i \in 1..L : bytes[i] = Packed(pes)[i]
    OBVIOUS
  <2> QED BY <1>2, <2>1, <2>2, <2>3, Zenon DEF Begins
<1>5. CASE Headless(pes.stream_id)
  <2>1. Length(pes) = n + Len(pes.data) /\ Length(pes) # 0
    BY <1>1, <1>5, Lengths
  <2>2. L - 6 = Len(pes.data)
    BY <1>2, <1>3, <1>5 DEF HeadSize
  <2>3. ~(Length(pes) = 0 \/ Length(pes) = L - 6)
    BY <1>3, <2>1, <2>2, SMTT(30)
  <2>4. result' = -1
    BY <1>1, <1>4, <2>3, Unpacked
  <2> QED BY <1>5, <2>4
<1>6. CASE ~Headless(pes.stream_id)
  <2>1. L = 6 + n + Len(pes.data) /\ Holds(bytes, 6 + n, pes.data)
    BY <1>2, <1>6 DEF HeadSize
  <2>2. /\ HeaderSound(Read16(s, 0), s)
        /\ WithHeader(pes.stream_id, Read16(s, 0), s) =
             [Carried(pes) EXCEPT !.data = SubSeq(bytes, 7 + n, L)]
    <3>1. L >= 6 + n
      <4> DEFINE m == Len(pes.data)
      <4>1. L = 6 + n + m /\ n \in 3..13 /\ m \in Nat
        BY <1>3, <2>1, Zenon
      <4> HIDE DEF L, n, m
      <4> QED BY <4>1
    <3> QED BY <1>1, <1>4, <1>6, <3>1, HeadRead, Zenon
  <2>3. /\ Length(pes) # 0 \/ Video(pes.stream_id)
        /\ Length(pes) = 0 \/ Length(pes) = L - 6
    <3> DEFINE m == Len(pes.data)
    <3>1. L - 6 = n + m
      <4>1. L = 6 + n + m /\ n \in 3..13 /\ m \in Nat
        BY <1>3, <2>1, Zenon
      <4> HIDE DEF L, n, m
      <4> QED BY <4>1
    <3>2. \/ Length(pes) = n + m /\ Length(pes) # 0
          \/ Length(pes) = 0 /\ Video(pes.stream_id)
      BY <1>1, Lengths, Zenon
    <3> HIDE DEF L, n, m
    <3> QED BY <3>1, <3>2, Zenon
  <2>4. result' = 1 /\ read' = WithHeader(pes.stream_id, Read16(s, 0), s)
    <3> HIDE DEF s
    <3> QED BY <1>1, <1>4, <1>6, <2>2, <2>3, Unpacked, Zenon DEF s, L
  <2>5. SubSeq(bytes, 7 + n, L) = pes.data
    <3> DEFINE d == SubSeq(bytes, 7 + n, L)
    <3>1. /\ 6 + n \in Nat /\ 6 + n <= L /\ 7 + n = 6 + n + 1
          /\ L - (6 + n) = Len(pes.data)
      <4> DEFINE m == Len(pes.data)
      <4>1. L = 6 + n + m /\ n \in 3..13 /\ m \in Nat
        BY <1>3, <2>1, Zenon
      <4> HIDE DEF L, n, m
      <4>2. /\ 6 + n \in Nat /\ 6 + n <= L /\ 7 + n = 6 + n + 1
            /\ L - (6 + n) = m
        BY <4>1
      <4> QED BY <4>2 DEF m
    <3>2. /\ d \in Seq(Int) /\ Len(d) = L - (6 + n)
          /\ \A i \in 1..(L - (6 + n)) : d[i] = bytes[6 + n + i]
      BY <1>2, <3>1, Left, Zenon
    <3>3. \A i \in 1..Len(pes.data) : d[i] = pes.data[i]
      BY <2>1, <3>1, <3>2, Zenon DEF Holds
    <3>4. Len(d) = Len(pes.data) /\ \A i \in 1..Len(d) : d[i] = pes.data[i]
      BY <3>1, <3>2, <3>3, Zenon
    <3>5. d = pes.data
      <4> HIDE DEF d
      <4> QED BY <1>3, <3>2, <3>4, SeqEqual, Zenon
    <3> QED BY <3>5
  <2>6. [Carried(pes) EXCEPT !.data = pes.data] = Carried(pes)
    BY <1>1, CarriedWith, Zenon
  <2> QED BY <1>6, <2>2, <2>4, <2>5, <2>6
<1> QED BY <1>5, <1>6

LEMMA Distances ==
  ASSUME NEW L \in Nat, NEW k \in 0..L, NEW n \in 3..13, NEW z \in Nat,
         k <= 6 + n + z, k >= 6 + n
  PROVE  /\ k - 6 - n \in 0..z /\ 6 + n \in Nat /\ 6 + n <= L /\ 7 + n = 6 + n + 1
         /\ k \in Int /\ k = 6 + n + (k - 6 - n) /\ k <= L
OBVIOUS

(* The header is read right when the fault lies behind it, and so is the   *)
(* data up to the fault.                                                   *)
LEMMA HeadSurvives ==
  ASSUME NEW p \in PesType, Length(p) < MaxLength, ~Headless(p.stream_id),
         NEW b, NEW k, Begins(b, k, p), k <= Len(Packed(p)),
         k >= 6 + HeaderSize(p), NEW r,
         r = [Carried(p) EXCEPT !.data = SubSeq(b, 7 + HeaderSize(p), Len(b))]
  PROVE  /\ [r EXCEPT !.data = <<>>] = [Carried(p) EXCEPT !.data = <<>>]
         /\ IsPrefix(SubSeq(p.data, 1, k - 6 - HeaderSize(p)), r.data)
<1> DEFINE n == HeaderSize(p)
           L == Len(b)
           z == Len(p.data)
           m == k - 6 - n
           e == SubSeq(p.data, 1, m)
           d == SubSeq(b, 7 + n, L)
<1>1. n \in 3..13 /\ p.data \in Seq(Int) /\ z \in Nat
  BY HeaderSizes, Zenon
<1>2. /\ b \in Seq(Int) /\ k \in 0..L
      /\ \A i \in 1..k : b[i] = Packed(p)[i]
  BY Zenon DEF Begins
<1>3. Len(Packed(p)) = 6 + n + z /\ Holds(Packed(p), 6 + n, p.data)
  <2>1. HeadSize(p) = n
    BY Zenon DEF HeadSize
  <2> QED BY <2>1, PackedParts, SMTT(30)
<1>4. r.data = d /\ [r EXCEPT !.data = <<>>] = [Carried(p) EXCEPT !.data = <<>>]
  BY CarriedWith, Zenon
<1>5. L \in Nat /\ m \in 0..z /\ 6 + n \in Nat /\ 6 + n <= L /\ 7 + n = 6 + n + 1
  <2>1. L \in Nat
    BY <1>2, LenProperties
  <2>2. k \in 0..L /\ k <= 6 + n + z /\ k >= 6 + n
    BY <1>2, <1>3, Zenon
  <2>3. n \in 3..13 /\ z \in Nat
    BY <1>1, Zenon
  <2> QED BY <2>1, <2>2, <2>3, Distances, ZenonT(30)
<1>6. e \in Seq(Int) /\ Len(e) = m /\ \A i \in 1..m : e[i] = p.data[i]
  BY <1>1, <1>5, CutShort, Zenon
<1>7. /\ d \in Seq(Int) /\ Len(d) = L - (6 + n)
      /\ \A i \in 1..(L - (6 + n)) : d[i] = b[6 + n + i]
  BY <1>2, <1>5, Left, ZenonT(30)
<1>k. k \in Int /\ k = 6 + n + m /\ k <= L
  <2>1. k \in 0..L /\ k <= 6 + n + z /\ k >= 6 + n /\ n \in 3..13
    BY <1>1, <1>2, <1>3, Zenon
  <2> QED BY <1>1, <1>5, <2>1, Distances, Zenon
<1> HIDE DEF e, d, m
<1>8. Len(e) <= Len(d) /\ m \in 0..Len(e) /\ m \in 0..Len(d)
  <2> DEFINE x == Len(e)
             y == Len(d)
  <2>1. x = m /\ y = L - (6 + n)
    BY <1>6, <1>7, Zenon
  <2> HIDE DEF x, y, L, n, z
  <2>2. x <= y /\ m \in 0..x /\ m \in 0..y
    BY <1>1, <1>5, <1>k, <2>1
  <2> QED BY <2>2 DEF x, y
<1>9. \A i \in 1..m : e[i] = d[i]
  <2> SUFFICES ASSUME NEW i \in 1..m PROVE e[i] = d[i]
    OBVIOUS
  <2>1. i \in 1..z /\ 6 + n + i \in 1..k /\ i \in 1..(L - (6 + n))
    <3> HIDE DEF z, n, L
    <3> QED BY <1>1, <1>5, <1>k, SMTT(30)
  <2>2. d[i] = Packed(p)[6 + n + i]
    BY <1>2, <1>7, <2>1, Zenon
  <2>3. Packed(p)[6 + n + i] = p.data[i]
    BY <1>3, <2>1, Zenon DEF Holds
  <2> QED BY <1>6, <2>2, <2>3, Zenon
<1>10. SubSeq(e, 1, m) = SubSeq(d, 1, m)
  <2>1. /\ SubSeq(e, 1, m) \in Seq(Int) /\ Len(SubSeq(e, 1, m)) = m
        /\ \A i \in 1..m : SubSeq(e, 1, m)[i] = e[i]
    BY <1>6, <1>8, CutShort, Zenon
  <2>2. /\ SubSeq(d, 1, m) \in Seq(Int) /\ Len(SubSeq(d, 1, m)) = m
        /\ \A i \in 1..m : SubSeq(d, 1, m)[i] = d[i]
    BY <1>7, <1>8, CutShort, Zenon
  <2>3. /\ Len(SubSeq(e, 1, m)) = Len(SubSeq(d, 1, m))
        /\ \A i \in 1..Len(SubSeq(e, 1, m)) :
             SubSeq(e, 1, m)[i] = SubSeq(d, 1, m)[i]
    BY <1>9, <2>1, <2>2, Zenon
  <2> QED BY <2>1, <2>2, <2>3, SeqEqual, Zenon
<1>11. IsPrefix(e, d)
  BY <1>6, <1>8, <1>10, Zenon DEF IsPrefix
<1> QED BY <1>4, <1>11, Zenon DEF e, m, d

LEMMA UnpackRefusesDamage ==
  ASSUME SentInv, Unpack
  PROVE  DamageRefused'
<1>1. /\ pes \in PesType /\ Length(pes) < MaxLength
      /\ pes' = pes /\ bytes' = bytes /\ intact' = intact
  BY DEF SentInv, Unpack
<1> SUFFICES ASSUME bytes # Packed(pes), result' = 1
             PROVE
    \/ /\ Video(pes.stream_id) /\ Length(pes) = 0
       /\ intact >= 6 + HeaderSize(pes) =>
            /\ [read' EXCEPT !.data = <<>>] = [Carried(pes) EXCEPT !.data = <<>>]
            /\ IsPrefix(SubSeq(pes.data, 1, intact - 6 - HeaderSize(pes)), read'.data)
    \/ Headless(pes.stream_id) /\ Len(bytes) = Len(Packed(pes)) + HeaderSize(pes)
  BY <1>1, ZenonT(30) DEF DamageRefused, Packed, Length, Header, HeaderSize, Carried
<1> DEFINE n == HeaderSize(pes)
           L == Len(bytes)
           m == Len(pes.data)
           s == Behind(bytes)
<1>2. /\ Begins(bytes, intact, pes) /\ intact >= 6 /\ L # Len(Packed(pes))
      /\ intact <= Len(Packed(pes))
  <2>1. Damaged
    <3>1. CASE phase = "packed"
      BY <3>1 DEF SentInv
    <3>2. CASE phase = "sent"
      BY <3>2 DEF SentInv
    <3> QED BY <3>1, <3>2 DEF Unpack
  <2>2. ~(intact <= 5 /\ Len(bytes) = intact)
    BY <1>1, <2>1, CutRefused DEF Damaged
  <2> QED BY <2>1, <2>2 DEF Damaged
<1>3. /\ Len(Packed(pes)) = 6 + HeadSize(pes) + m
      /\ n \in 3..13 /\ m \in Nat /\ L \in Nat
  <2>1. L \in Nat
    BY <1>2, LenProperties DEF Begins
  <2> QED BY <1>1, <2>1, PackedParts, HeaderSizes, Zenon
<1>4. /\ Length(pes) = 0 \/ Length(pes) = L - 6
      /\ ~Headless(pes.stream_id) =>
           read' = WithHeader(pes.stream_id, Read16(s, 0), s)
  <2>1. 1 # -1
    OBVIOUS
  <2> DEFINE ok == /\ Length(pes) # 0 \/ Video(pes.stream_id)
                   /\ Length(pes) = 0 \/ Length(pes) = L - 6
                   /\ \/ Headless(pes.stream_id)
                      \/ HeaderSound(Read16(s, 0), s)
  <2>2. /\ result' = IF ok THEN 1 ELSE -1
        /\ ok /\ ~Headless(pes.stream_id) =>
             read' = WithHeader(pes.stream_id, Read16(s, 0), s)
    <3> HIDE DEF s
    <3> QED BY <1>1, <1>2, Unpacked, Zenon DEF s, L, ok
  <2> HIDE DEF s
  <2> QED BY <2>1, <2>2, Zenon
<1>5. CASE Length(pes) # 0
  <2>1. L - 6 = n + m
    <3>1. Length(pes) = n + m
      BY <1>1, <1>5, Lengths, Zenon
    <3> QED BY <1>4, <1>5, <3>1, Zenon
  <2>2. CASE Headless(pes.stream_id)
    <3>1. Len(Packed(pes)) = 6 + 0 + m
      BY <1>3, <2>2, Zenon DEF HeadSize
    <3>2. L = 6 + 0 + m + n
      <4> HIDE DEF L, m, n
      <4> QED BY <1>3, <2>1
    <3> QED BY <2>2, <3>1, <3>2, Zenon
  <2>3. CASE ~Headless(pes.stream_id)
    <3>1. Len(Packed(pes)) = 6 + n + m
      BY <1>3, <2>3, Zenon DEF HeadSize
    <3>2. L = 6 + n + m
      <4> HIDE DEF L, m, n
      <4> QED BY <1>3, <2>1
    <3> QED BY <1>2, <3>1, <3>2, Zenon
  <2> QED BY <2>2, <2>3
<1>6. CASE Length(pes) = 0
  <2>1. Video(pes.stream_id) /\ ~Headless(pes.stream_id)
    BY <1>1, <1>6, Lengths
  <2> SUFFICES ASSUME intact >= 6 + n
               PROVE  /\ [read' EXCEPT !.data = <<>>]
                           = [Carried(pes) EXCEPT !.data = <<>>]
                      /\ IsPrefix(SubSeq(pes.data, 1, intact - 6 - n), read'.data)
    BY <1>6, <2>1
  <2>2. read' = [Carried(pes) EXCEPT !.data = SubSeq(bytes, 7 + n, L)]
    BY <1>1, <1>2, <1>4, <2>1, HeadRead, Zenon
  <2> QED BY <1>1, <1>2, <2>1, <2>2, HeadSurvives, Zenon
<1> QED BY <1>5, <1>6

LEMMA SentInit == Init => SentInv
<1> SUFFICES ASSUME Init PROVE SentInv
  OBVIOUS
<1>1. pes \in PesType /\ phase = "start"
  BY InitTypes
<1> QED BY <1>1 DEF SentInv, RefusedIfLong, ReadBack, DamageRefused

LEMMA SentPack ==
  ASSUME SentInv, Pack
  PROVE  SentInv'
<1>1. pes' = pes /\ pes \in PesType
  BY DEF SentInv, Pack
<1>2. phase' = "refused" <=> Length(pes) >= MaxLength
  BY DEF Pack
<1>3. RefusedIfLong'
  <2>1. HeaderSize(pes)' = HeaderSize(pes) /\ Video(pes.stream_id)' = Video(pes.stream_id)
    BY <1>1 DEF HeaderSize, Video
  <2> QED BY <1>1, <1>2, <2>1, LongRefused, Zenon DEF RefusedIfLong
<1>4. CASE Length(pes) >= MaxLength
  <2>1. phase' = "refused"
    BY <1>4 DEF Pack
  <2> QED BY <1>1, <1>3, <2>1 DEF SentInv, ReadBack, DamageRefused
<1>5. CASE ~(Length(pes) >= MaxLength)
  <2>1. phase' = "packed" /\ bytes' = Packed(pes) /\ intact' = Len(Packed(pes))
    BY <1>5 DEF Pack
  <2>2. Length(pes) < MaxLength
    <3>1. Length(pes) \in Int /\ MaxLength \in Int
      BY <1>1, LengthIsInt, Zenon
    <3> QED BY <1>5, <3>1
  <2>3. Packed(pes)' = Packed(pes) /\ Length(pes)' = Length(pes)
    BY <1>1 DEF Packed, Length, Header, HeaderSize
  <2> QED BY <1>1, <1>3, <2>1, <2>2, <2>3 DEF SentInv, ReadBack, DamageRefused
<1> QED BY <1>4, <1>5

(* Lose, Repeat and CutOff.                                                *)
LEMMA SentDamaged ==
  ASSUME SentInv, Lose \/ Repeat \/ CutOff
  PROVE  SentInv'
<1> DEFINE P == Packed(pes)
           N == Len(P)
<1>1. /\ phase = "packed" /\ phase' = "sent" /\ pes' = pes
      /\ pes \in PesType /\ Length(pes) < MaxLength /\ bytes = P
  BY DEF Lose, Repeat, CutOff, Arrive, SentInv
<1>2. P \in Seq(Int) /\ N \in Nat /\ N >= 6
  <2>1. /\ P \in Seq(Int) /\ N = 6 + HeadSize(pes) + Len(pes.data)
        /\ HeadSize(pes) \in 0..13
    BY <1>1, PackedParts
  <2>2. Len(pes.data) \in Nat
    BY <1>1, HeaderSizes
  <2> QED BY <2>1, <2>2, SMTT(30)
<1> SUFFICES /\ bytes' \in Seq(Int) /\ intact' \in 0..Len(bytes') /\ intact' <= N
             /\ \A i \in 1..intact' : bytes'[i] = P[i]
             /\ \/ intact' <= 5 /\ Len(bytes') = intact'
                \/ intact' >= 6 /\ Len(bytes') # N
  <2>1. P' = P /\ Length(pes)' = Length(pes)
    BY <1>1, ZenonT(30) DEF Packed, Length, Header, HeaderSize
  <2>3. RefusedIfLong'
    BY <1>1, RefusalKept
  <2> HIDE DEF P
  <2>2. /\ bytes' \in Seq(Int) /\ intact' \in 0..Len(bytes') /\ intact' <= N
        /\ \A i \in 1..intact' : bytes'[i] = P[i]
        /\ \/ intact' <= 5 /\ Len(bytes') = intact'
           \/ intact' >= 6 /\ Len(bytes') # N
        => Damaged'
    BY <1>1, <2>1 DEF Damaged, Begins, P
  <2> QED BY <1>1, <2>1, <2>2, <2>3 DEF SentInv, ReadBack, DamageRefused
<1> HIDE DEF P
<1>3. CASE Lose
  <2>1. PICK i \in 7..N : \E j \in i..N :
          /\ bytes' = SubSeq(P, 1, i - 1) \o SubSeq(P, j + 1, N)
          /\ intact' = i - 1
    BY <1>1, <1>3 DEF Lose, Arrive
  <2>2. PICK j \in i..N :
          /\ bytes' = SubSeq(P, 1, i - 1) \o SubSeq(P, j + 1, N)
          /\ intact' = i - 1
    BY <2>1
  <2>3. i - 1 \in 0..N /\ j + 1 \in 1..(N + 1)
    BY <1>2
  <2>4. /\ bytes' \in Seq(Int) /\ Len(bytes') = i - 1 + (N + 1 - (j + 1))
        /\ \A a \in 1..(i - 1) : bytes'[a] = P[a]
    BY <1>2, <2>2, <2>3, Spliced
  <2>5. intact' = i - 1
    BY <2>2
  <2>6. /\ i - 1 \in 0..(i - 1 + (N + 1 - (j + 1))) /\ i - 1 <= N /\ i - 1 >= 6
        /\ i - 1 + (N + 1 - (j + 1)) # N
    <3> HIDE DEF N
    <3> QED BY <1>2
  <2> QED BY <2>4, <2>5, <2>6, Zenon
<1>4. CASE Repeat
  <2>1. PICK i \in 7..N : \E j \in i..N :
          bytes' = SubSeq(P, 1, j) \o SubSeq(P, i, N) /\ intact' = j
    BY <1>1, <1>4 DEF Repeat, Arrive
  <2>2. PICK j \in i..N :
          bytes' = SubSeq(P, 1, j) \o SubSeq(P, i, N) /\ intact' = j
    BY <2>1
  <2>3. j \in 0..N /\ i \in 1..(N + 1)
    BY <1>2
  <2>4. /\ bytes' \in Seq(Int) /\ Len(bytes') = j + (N + 1 - i)
        /\ \A a \in 1..j : bytes'[a] = P[a]
    BY <1>2, <2>2, <2>3, Spliced
  <2>5. intact' = j
    BY <2>2
  <2>6. /\ j \in 0..(j + (N + 1 - i)) /\ j <= N /\ j >= 6
        /\ j + (N + 1 - i) # N
    <3> HIDE DEF N
    <3> QED BY <1>2
  <2> QED BY <2>4, <2>5, <2>6, Zenon
<1>5. CASE CutOff
  <2>1. PICK n \in 0..5 : bytes' = SubSeq(P, 1, n) /\ intact' = n
    BY <1>1, <1>5 DEF CutOff, Arrive
  <2>2. /\ bytes' \in Seq(Int) /\ Len(bytes') = n
        /\ \A a \in 1..n : bytes'[a] = P[a]
    BY <1>2, <2>1, CutShort
  <2> QED BY <1>2, <2>1, <2>2
<1> QED BY <1>3, <1>4, <1>5

LEMMA SentNext == SentInv /\ [Next]_vars => SentInv'
<1> SUFFICES ASSUME SentInv, [Next]_vars PROVE SentInv'
  OBVIOUS
<1>1. CASE Unpack
  <2>1. phase' = "done" /\ pes' = pes /\ phase \in {"packed", "sent"}
    BY <1>1 DEF Unpack
  <2>2. RefusedIfLong'
    BY <2>1, RefusalKept
  <2> QED BY <1>1, <2>1, <2>2, UnpackReadsBack, UnpackRefusesDamage DEF SentInv
<1>2. CASE UNCHANGED vars
  <2>1. /\ pes' = pes /\ phase' = phase /\ bytes' = bytes /\ intact' = intact
        /\ result' = result /\ read' = read
    BY <1>2 DEF vars
  <2>2. /\ Packed(pes)' = Packed(pes) /\ Length(pes)' = Length(pes)
        /\ HeaderSize(pes)' = HeaderSize(pes) /\ Carried(pes)' = Carried(pes)
    BY <2>1 DEF Packed, Length, Header, HeaderSize, Carried
  <2>3. ReadBack' /\ DamageRefused'
    BY <2>1, <2>2, Zenon DEF SentInv, ReadBack, DamageRefused
  <2>5. RefusedIfLong'
    BY <2>1, <2>2, Zenon DEF SentInv, RefusedIfLong
  <2>4. Damaged' <=> Damaged
    BY <2>1, <2>2, Zenon DEF Damaged, Begins
  <2> QED BY <2>1, <2>2, <2>3, <2>4, <2>5, Zenon DEF SentInv
<1> QED BY <1>1, <1>2, SentPack, SentDamaged DEF Next

(* ts_pes_pack_stream and ts_pes_unpack_stream: what is refused is what is *)
(* too long and not video, and what is packed is read back, for every      *)
(* packet, but for the ids whose length counts a header they do not have.  *)
THEOREM ReadsBackAlways == Spec => []ReadsBack
<1>1. SentInv => ReadsBack
  BY DEF SentInv, RefusedIfLong, ReadBack, ReadsBack
<1> QED BY <1>1, SentInit, SentNext, PTL DEF Spec

(* ts_pes_unpack_stream: of the packets in which bytes were lost or        *)
(* repeated only video without a length passes, or one without a header,   *)
(* and of the former what lies before the fault is right.                  *)
THEOREM DamageRefusedAlways == Spec => []DamageRefused
<1>1. SentInv => DamageRefused
  BY DEF SentInv
<1> QED BY <1>1, SentInit, SentNext, PTL DEF Spec

=============================================================================

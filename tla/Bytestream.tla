----------------------------- MODULE Bytestream -----------------------------
(***************************************************************************)
(* bytestream: a cursor over bytes.  A read past the end gives zeros and   *)
(* destroys the stream, so that every later read gives zeros too and the   *)
(* caller may check once, at the end.                                      *)
(***************************************************************************)
EXTENDS Integers, Sequences

Byte == 0..255

(* data # NULL, and the bytes from begin to end.                           *)
StreamState == [valid : BOOLEAN, rest : Seq(Byte)]

(* bytestream_construct and bytestream_destruct.                           *)
Open(bytes) == [valid |-> TRUE, rest |-> bytes]

Destroyed == [valid |-> FALSE, rest |-> <<>>]

(* bytestream_read of n bytes, after `at' bytes have been read: what the   *)
(* caller gets.  All the reads before it have failed if one has.           *)
Read(s, at, n) ==
  IF s.valid /\ at + n <= Len(s.rest)
    THEN SubSeq(s.rest, at + 1, at + n)
    ELSE [i \in 1..n |-> 0]

(* The stream after reads of n bytes in all.                               *)
Skip(s, n) ==
  IF s.valid /\ n <= Len(s.rest)
    THEN [valid |-> TRUE, rest |-> SubSeq(s.rest, n + 1, Len(s.rest))]
    ELSE Destroyed

(* bytestream_read16; a value of 32 bits is kept as two of these.          *)
Word(b, i) == b[i] * 256 + b[i + 1]
Read8(s, at) == Read(s, at, 1)[1]
Read16(s, at) == Word(Read(s, at, 2), 1)

(* bytestream_write16.                                                     *)
Bytes16(v) == <<(v \div 256) % 256, v % 256>>

(* bytestream_read_bits and _write_bits: `bits' bits, `offset' from the    *)
(* top of a value of `size' bits.  The mask is an int: see Builds in Pes   *)
(* for what that means for 33 bits.                                        *)
ReadBits(v, size, offset, bits) == (v \div 2^(size - offset - bits)) % 2^bits

WriteBits(v, size, offset, bits) == (v % 2^bits) * 2^(size - offset - bits)

=============================================================================

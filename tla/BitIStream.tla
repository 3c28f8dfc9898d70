----------------------------- MODULE BitIStream -----------------------------
(***************************************************************************)
(* BitIStream (util/bit_input_stream.hpp): reads bits and integers from a  *)
(* stream of bytes, for the decoders of module Decoders.  Two bytes are    *)
(* buffered, m_current and m_next.  The last bits of a file, its trailer,  *)
(* say how many bits of the last byte count, so the end of the data has to *)
(* be seen one byte ahead.  (LZ-End files are read with it too and have no *)
(* trailer.)                                                               *)
(*                                                                         *)
(* A byte has 8 bits and a trailer 3; here they are parameters.  Bytes are *)
(* numbers, most significant bit first.                                    *)
(***************************************************************************)
EXTENDS Integers, SequencesExt

CONSTANTS
  TrailerBits,       \* 3 in the code
  LongestInt         \* the widest integer a reader takes, at most 64 bits

ASSUME TrailerAssumption == TrailerBits \in Nat \ {0, 1} /\ LongestInt \in Nat \ {0}

ByteBits == 2^TrailerBits

(* The powers of two up to the widest integer.  (TLAPS has no theory of    *)
(* exponentiation; TLC evaluates this for the instance.)                   *)
ASSUME PowersAssumption ==
  /\ TrailerBits <= LongestInt /\ ByteBits <= LongestInt
  /\ 2^0 = 1 /\ \A n \in 0 .. (LongestInt - 1) : 2^(n + 1) = 2 * 2^n

MSB == ByteBits - 1

(* The number a sequence of digits stands for. *)
InBase(base, digits) ==
  LET value[k \in 0 .. Len(digits)] == IF k = 0 THEN 0 ELSE base * value[k - 1] + digits[k]
  IN  value[Len(digits)]

Number(bits) == InBase(2, bits)

Zeros(n) == [k \in 1 .. n |-> 0]

(***************************************************************************)
(* The bytes of a file: the content, zeros up to the end of the last byte, *)
(* and in the last bits of the file the number of bits of the last byte.   *)
(* If these do not fit behind the content they make a byte of their own.   *)
(***************************************************************************)
Encoded(data) ==
  LET tail   == Len(data) % ByteBits
      fits   == tail <= ByteBits - TrailerBits
      padded == data \o Zeros(IF tail = 0 THEN 0 ELSE ByteBits - tail)
      bytes  == [k \in 1 .. (Len(padded) \div ByteBits) |->
                   Number(SubSeq(padded, (k - 1) * ByteBits + 1, k * ByteBits))]
  IN  IF fits /\ tail > 0 THEN Front(bytes) \o << Last(bytes) + tail >>
      ELSE Append(bytes, tail)

VARIABLES
  content,           \* what the file holds
  bytes,             \* the file
  trailed,           \* does it end with a trailer?
  in,                \* the members of the BitIStream and the state of m_stream
  bitsRead,          \* m_bits_read
  result             \* the last integer read, and its width

file == << content, bytes, trailed >>

streamVars == << in, bitsRead, result >>

-----------------------------------------------------------------------------
(* The members, as functions of the members before. *)

(* m_stream: the next byte can be read.  A stream that has failed stays so.*)
CanGet(s) == s.good /\ s.pos < Len(bytes)

(* Variant: a trailer byte is taken for data. *)
NextFromStreamNoTrailer(s) ==
  IF CanGet(s)
  THEN [s EXCEPT !.pos = @ + 1, !.next = bytes[s.pos + 1], !.good = s.pos + 1 < Len(bytes)]
  ELSE [s EXCEPT !.good = FALSE, !.final = TRUE, !.finalBits = s.current % 2^TrailerBits, !.next = 0]

(***************************************************************************)
(* read_next_from_stream: the next byte, and a look at whether it is the   *)
(* last one.  If it holds nothing but the trailer the file ends before it. *)
(***************************************************************************)
NextFromStream(s) ==
  IF CanGet(s)
  THEN LET byte    == bytes[s.pos + 1]
           trailer == byte % 2^TrailerBits
           read    == [s EXCEPT !.pos = @ + 1, !.next = byte]
       IN  IF s.pos + 1 < Len(bytes) THEN read
           ELSE IF trailer > ByteBits - TrailerBits
           THEN [read EXCEPT !.good = FALSE, !.finalBits = trailer, !.final = TRUE, !.next = 0]
           ELSE [read EXCEPT !.good = FALSE, !.finalBits = trailer]
  ELSE [s EXCEPT !.good = FALSE, !.final = TRUE, !.finalBits = s.current % 2^TrailerBits, !.next = 0]

(* read_next *)
ReadNext(s) == NextFromStream([s EXCEPT !.current = s.next, !.cursor = MSB])

Eof(s) == s.final /\ s.cursor <= MSB - s.finalBits

(* read_bit; at the end it returns 0. *)
ReadBit(s) ==
  IF Eof(s) THEN [value |-> 0, in |-> s]
  ELSE [value |-> (s.current \div 2^s.cursor) % 2,
        in    |-> IF s.cursor > 0 THEN [s EXCEPT !.cursor = @ - 1] ELSE ReadNext(s)]

(* Bit by bit. *)
OneMore(read) ==
  LET bit == ReadBit(read.in) IN [value |-> 2 * read.value + bit.value, in |-> bit.in]

ReadBits(s, n) ==
  LET read[k \in 0 .. n] == IF k = 0 THEN [value |-> 0, in |-> s] ELSE OneMore(read[k - 1])
  IN  read[n]

(* The n bytes that m_stream.read leaves; those behind the end are zero. *)
RawBytes(s, n) ==
  [k \in 1 .. n |-> IF s.good /\ s.pos + k <= Len(bytes) THEN bytes[s.pos + k] ELSE 0]

Joined(raw) == InBase(2^ByteBits, raw)

AfterRaw(s, n) ==
  IF s.good /\ s.pos + n <= Len(bytes) THEN [s EXCEPT !.pos = @ + n]
  ELSE [s EXCEPT !.pos = Len(bytes), !.good = FALSE]

(* Variant: a whole byte more is taken from m_stream. *)
WholeBytesOneMore(s, rest) ==
  IF rest >= 2 * ByteBits
  THEN LET n == rest \div ByteBits
       IN  [value |-> (s.next * 2^(ByteBits * n) + Joined(RawBytes(s, n))) * 2^(rest % ByteBits),
            in    |-> NextFromStream(AfterRaw(s, n))]
  ELSE IF rest >= ByteBits
  THEN LET moved == ReadNext(s) IN [value |-> moved.current * 2^(rest - ByteBits), in |-> moved]
  ELSE [value |-> 0, in |-> s]

(* The whole bytes among `rest` bits: m_next, and the others directly from *)
(* m_stream, past the buffers.                                             *)
WholeBytes(s, rest) ==
  IF rest >= 2 * ByteBits
  THEN LET n == rest \div ByteBits - 1
       IN  [value |-> (s.next * 2^(ByteBits * n) + Joined(RawBytes(s, n))) * 2^(rest % ByteBits),
            in    |-> NextFromStream(AfterRaw(s, n))]
  ELSE IF rest >= ByteBits
  THEN LET moved == ReadNext(s) IN [value |-> moved.current * 2^(rest - ByteBits), in |-> moved]
  ELSE [value |-> 0, in |-> s]

(* Variant: the whole bytes are not taken off what remains. *)
ReadIntKeepsRest(s, width) ==
  IF width < s.cursor + 1 THEN ReadBits(s, width)
  ELSE LET rest   == width - (s.cursor + 1)
           whole  == WholeBytes(s, rest)
           moved  == ReadNext(whole.in)
           remain == rest % ByteBits
           value  == (s.current % 2^(s.cursor + 1)) * 2^rest + whole.value
       IN  IF remain = 0 THEN [value |-> value, in |-> moved]
           ELSE [value |-> value + moved.current \div 2^(ByteBits - remain),
                 in    |-> [moved EXCEPT !.cursor = MSB - rest]]

(* read_int: bit by bit within the current byte; otherwise the rest of it, *)
(* the whole bytes and the first bits of the byte after them.              *)
ReadInt(s, width) ==
  IF width < s.cursor + 1 THEN ReadBits(s, width)
  ELSE LET rest   == width - (s.cursor + 1)
           whole  == WholeBytes(s, rest)
           moved  == ReadNext(whole.in)
           remain == rest % ByteBits
           value  == (s.current % 2^(s.cursor + 1)) * 2^rest + whole.value
       IN  IF remain = 0 THEN [value |-> value, in |-> moved]
           ELSE [value |-> value + moved.current \div 2^(ByteBits - remain),
                 in    |-> [moved EXCEPT !.cursor = MSB - remain]]

-----------------------------------------------------------------------------
Remaining == Len(content) - bitsRead

Fresh == [pos |-> 0, good |-> TRUE, current |-> 0, next |-> 0,
          final |-> FALSE, finalBits |-> 0, cursor |-> 0]

(* The constructor; a file that is missing or empty is at its end. *)
Opened ==
  IF bytes = << >> THEN [Fresh EXCEPT !.good = FALSE, !.final = TRUE]
  ELSE ReadNext([Fresh EXCEPT !.pos = 1, !.next = bytes[1]])

StreamInit ==
  /\ in = Opened
  /\ bitsRead = 0
  /\ result = [value |-> 0, width |-> 0]

(* A caller reads bits and integers that it knows to be there. *)
TakeBit ==
  /\ Remaining > 0
  /\ result' = [value |-> ReadBit(in).value, width |-> 1]
  /\ in' = ReadBit(in).in
  /\ bitsRead' = bitsRead + 1
  /\ UNCHANGED file

TakeInt ==
  /\ \E width \in 1 .. Min({Remaining, LongestInt}) :
       /\ result' = [value |-> ReadInt(in, width).value, width |-> width]
       /\ in' = ReadInt(in, width).in
       /\ bitsRead' = bitsRead + width
  /\ UNCHANGED file

(* Reading a bit behind the end changes nothing. *)
TakeBitAtEnd ==
  /\ Remaining = 0
  /\ result' = [value |-> ReadBit(in).value, width |-> 0]
  /\ in' = ReadBit(in).in
  /\ UNCHANGED << file, bitsRead >>

Take == TakeBit \/ TakeInt \/ TakeBitAtEnd

-----------------------------------------------------------------------------
(* Properties *)

(***************************************************************************)
(* Without a trailer, the end of a file that looks like the trailer of an  *)
(* empty last byte is taken for one: the byte is read as zero.             *)
(***************************************************************************)
LastByteKept ==
  trailed \/ bytes = << >> \/ Last(bytes) % 2^TrailerBits <= ByteBits - TrailerBits

(* What is read is what the file holds next, whatever was read before and  *)
(* in whichever way: no bit of a buffer is lost or read again when a read  *)
(* goes past the buffers, and none of the trailer is taken for data.       *)
ReadsContent ==
  (LastByteKept /\ bytes # << >>) =>
    result.value = Number(SubSeq(content, bitsRead - result.width + 1, bitsRead))

(* "If there are no more bytes, and all bits from the current buffer are   *)
(* read, we are done" (bit_input_stream.hpp:106): the end is reported as   *)
(* soon as the last bit is read, and not before.                           *)
EofExact == trailed => (Eof(in) <=> Remaining = 0)

(* An integer is read as its bits would be, one by one, and leaves the     *)
(* same buffers behind.                                                    *)
IntIsItsBits ==
  trailed => \A width \in 1 .. Min({Remaining, LongestInt}) :
    LET int  == ReadInt(in, width)
        bits == ReadBits(in, width)
    IN  /\ int.value = bits.value
        /\ int.in.cursor = bits.in.cursor /\ int.in.current = bits.in.current
        /\ int.in.next = bits.in.next /\ int.in.final = bits.in.final
=============================================================================

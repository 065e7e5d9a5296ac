------------------------------ MODULE WireTypes ------------------------------
(***************************************************************************)
(* The wire types (src/protocol/types/BasicTypes.ts), encoded and decoded. *)
(*                                                                         *)
(* A buffer is a sequence of bytes, a text (a string in UTF-8 or a byte    *)
(* array) is known by its length and holds the bytes Content(length), and  *)
(* an array is known by the number of its elements.  Floating point        *)
(* numbers are not modelled.                                               *)
(***************************************************************************)
EXTENDS Integers, Sequences, SequencesExt

CONSTANTS Null

ASSUME NullAssumption == Null \notin Int

NumberTypes ==
    {"boolean", "int8", "int16", "int32", "int64", "uint8", "uint16", "uint32", "uint64"}
TextTypes == {"string", "compactString", "bytes", "compactBytes"}
ArrayTypes == {"array", "compactArray"}
CompactTypes == {"compactString", "compactBytes", "compactArray"}
Types == NumberTypes \cup TextTypes \cup ArrayTypes

\* Types whose number, or whose length, is written with a sign.
SignedTypes == {"boolean", "int8", "int16", "int32", "int64", "string", "bytes", "array"}

Field(type, value) == [type |-> type, value |-> value]

-----------------------------------------------------------------------------
\* Bytes of a number, or of the length of a text or array.
Width(type) ==
    CASE type \in {"boolean", "int8", "uint8"} -> 1
      [] type \in {"int16", "uint16", "string"} -> 2
      [] type \in {"int32", "uint32", "bytes", "array"} -> 4
      [] type \in {"int64", "uint64"} -> 8

\* The number without its k least significant bytes.
Shifted(n, k) ==
    LET shift[i \in Nat] == IF i = 0 THEN n ELSE shift[i - 1] \div 256
    IN  shift[k]

\* Two's complement, the most significant byte first.
EncodeNumber(width, n) == [i \in 1 .. width |-> Shifted(n, width - i) % 256]

\* Whether Buffer.write... takes the number.
InRange(type, n) ==
    Shifted(n, Width(type) - 1) \in IF type \in SignedTypes THEN -128 .. 127 ELSE 0 .. 255

\* Seven bits a byte, the least significant first, all but the last marked.
Varint[n \in Nat] == IF n > 127 THEN <<128 + (n % 128)>> \o Varint[n \div 128] ELSE <<n>>

\* Buffer.alloc(length), and what of the bytes fits into it.
Fill(length, bytes) == [i \in 1 .. length |-> IF i <= Len(bytes) THEN bytes[i] ELSE 0]

\* The number of bytes that are allocated for a compact length.
sizeOfLength[n \in Nat] == IF n > 127 THEN 1 + sizeOfLength[n \div 128] ELSE 1

\* Mutants (names in Mut...) are plausible wrong versions of the definition
\* that follows.
MutLengthTooSmall(type, n) ==
    IF type \in CompactTypes
    THEN IF n = Null THEN <<0>> ELSE Fill(sizeOfLength[n], Varint[n + 1])
    ELSE EncodeNumber(Width(type), IF n = Null THEN -1 ELSE n)

MutNullIsEmpty(type, n) ==
    IF type \in CompactTypes
    THEN IF n = Null THEN <<1>> ELSE Fill(sizeOfLength[n + 1], Varint[n + 1])
    ELSE EncodeNumber(Width(type), IF n = Null THEN -1 ELSE n)

\* What precedes a text or the elements of an array: -1 or, when compact, 0
\* for null, where a length is one more than it is.
EncodeLength(type, n) ==
    IF type \in CompactTypes
    THEN IF n = Null THEN <<0>> ELSE Fill(sizeOfLength[n + 1], Varint[n + 1])
    ELSE EncodeNumber(Width(type), IF n = Null THEN -1 ELSE n)

Content(n) == [i \in 1 .. n |-> i % 128]

EncodeText(type, n) == EncodeLength(type, n) \o (IF n = Null THEN <<>> ELSE Content(n))

\* The elements are strings, of one byte or none.
ElementType(type) == IF type = "array" THEN "string" ELSE "compactString"
ElementLength(i) == i % 2

EncodeElements(type, n) ==
    FlattenSeq([i \in 1 .. n |-> EncodeText(ElementType(type), ElementLength(i))])

EncodeArray(type, n) ==
    EncodeLength(type, n) \o (IF n = Null THEN <<>> ELSE EncodeElements(type, n))

Encode(field) ==
    CASE field.type \in NumberTypes -> EncodeNumber(Width(field.type), field.value)
      [] field.type \in TextTypes -> EncodeText(field.type, field.value)
      [] field.type \in ArrayTypes -> EncodeArray(field.type, field.value)

\* A number out of range, or a text that is longer than its length can say.
Encodable(field) ==
    field.value # Null /\ field.type \notin CompactTypes => InRange(field.type, field.value)

-----------------------------------------------------------------------------
\* Decoding gives a value and the offset behind it, or throws when it would
\* read a byte that is not there.
Throws == [threw |-> TRUE, value |-> Null, next |-> 0]
Got(value, next) == [threw |-> FALSE, value |-> value, next |-> next]

DecodeNumber(bytes, type, from) ==
    LET sign == IF type \in SignedTypes /\ bytes[from + 1] >= 128 THEN -1 ELSE 0
        upTo[i \in 0 .. Width(type)] ==
            IF i = 0 THEN sign ELSE upTo[i - 1] * 256 + bytes[from + i]
    IN  IF from + Width(type) > Len(bytes)
        THEN Throws
        ELSE Got(upTo[Width(type)], from + Width(type))

\* Seven bits of a compact length, below those of the bytes behind it.
Below(byte, rest) ==
    IF rest.threw THEN rest ELSE Got((byte % 128) + 128 * rest.value, rest.next)

\* A compact length, when so many bytes are left.
VarintOf(bytes, left) ==
    LET upTo[n \in 0 .. Len(bytes)] ==
            LET at == Len(bytes) - n + 1
            IN  IF n = 0 THEN Throws
                ELSE IF bytes[at] < 128 THEN Got(bytes[at], at)
                ELSE Below(bytes[at], upTo[n - 1])
    IN  upTo[left]

DecodeVarint(bytes, from) ==
    VarintOf(bytes, IF from < Len(bytes) THEN Len(bytes) - from ELSE 0)

\* What a number that was read says as a length: below 0 or, when compact, 0
\* is null, and compact lengths are one more than they are.
AsLength(type, n) ==
    LET null == IF type \in CompactTypes THEN n.value = 0 ELSE n.value < 0
    IN  IF n.threw
        THEN n
        ELSE Got(IF null THEN Null ELSE IF type \in CompactTypes THEN n.value - 1 ELSE n.value,
                 n.next)

\* A length, or Null.
DecodeLength(bytes, type, from) ==
    AsLength(type, IF type \in CompactTypes
                   THEN DecodeVarint(bytes, from)
                   ELSE DecodeNumber(bytes, type, from))

MutOffsetStopsAtEnd(bytes, n) ==
    LET upTo == IF n.next + n.value <= Len(bytes) THEN n.next + n.value ELSE Len(bytes)
    IN  IF n.threw \/ n.value = Null
        THEN n
        ELSE Got(SubSeq(bytes, n.next + 1, upTo), upTo)

\* The text behind a length: toString() and slice() end with the buffer, the
\* offset does not.
Text(bytes, n) ==
    LET upTo == IF n.next + n.value <= Len(bytes) THEN n.next + n.value ELSE Len(bytes)
    IN  IF n.threw \/ n.value = Null
        THEN n
        ELSE Got(SubSeq(bytes, n.next + 1, upTo), n.next + n.value)

DecodeText(bytes, type, from) == Text(bytes, DecodeLength(bytes, type, from))

\* One more element behind those that were read so far.
AppendElement(so, element) ==
    IF so.threw \/ element.threw
    THEN Throws
    ELSE Got(Append(so.value, element.value), element.next)

NextElement(bytes, type, so) ==
    AppendElement(so, DecodeText(bytes, ElementType(type), so.next))

\* The elements behind a length.
Elements(bytes, type, n) ==
    LET upTo[i \in Nat] ==
            IF i = 0 THEN Got(<<>>, n.next) ELSE NextElement(bytes, type, upTo[i - 1])
    IN  IF n.threw \/ n.value = Null THEN n ELSE upTo[n.value]

DecodeArray(bytes, type, from) == Elements(bytes, type, DecodeLength(bytes, type, from))

Decode(bytes, type, from) ==
    CASE type \in NumberTypes -> DecodeNumber(bytes, type, from)
      [] type \in TextTypes -> DecodeText(bytes, type, from)
      [] type \in ArrayTypes -> DecodeArray(bytes, type, from)

-----------------------------------------------------------------------------
\* The value that a field stands for.
Payload(field) ==
    IF field.type \in NumberTypes \/ field.value = Null THEN field.value
    ELSE IF field.type \in TextTypes THEN Content(field.value)
    ELSE [i \in 1 .. field.value |-> Content(ElementLength(i))]
=============================================================================

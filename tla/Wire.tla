-------------------------------- MODULE Wire --------------------------------
(***************************************************************************)
(* The Encoder that collects buffers and joins them                        *)
(* (src/protocol/Encoder.ts) and the Decoder that walks through the result *)
(* (src/protocol/Decoder.ts), with the size field and the headers of       *)
(* requests and responses.                                                 *)
(***************************************************************************)
EXTENDS WireTypes

CONSTANTS
    Numbers,       \* numbers to write, also out of the range of some type
    Lengths,       \* lengths of texts to write
    ArrayLengths,  \* lengths of arrays to write
    TooLong,       \* lengths that are beyond 16 bits
    Versions,      \* API versions of requests
    MaxFields,     \* bound: fields written by a bare encoder
    MaxBody,       \* bound: fields behind a header
    MaxCut         \* bound: bytes that a buffer may end too early

\* Versions are of 16 bits, and one more than a length has 31, so that >> and <<
\* of a compact length drop none of them.
ASSUME WireAssumption ==
    /\ Numbers \subseteq Int
    /\ \A n \in Lengths \cup ArrayLengths \cup TooLong : n \in Nat /\ n <= 2147483646
    /\ \A apiVersion \in Versions : apiVersion \in Nat /\ apiVersion <= 32767
    /\ MaxFields \in Nat /\ MaxBody \in Nat /\ MaxCut \in Nat

VARIABLES
    message,        \* "fields", or with the header of a "request" or "response"
    wirePhase,      \* "writing", "abandoned", then "reading", "ended", "threw"
    written,        \* the fields that were written
    buffers,        \* of the Encoder
    size,           \* of the Encoder
    decoderBuffer,  \* buffer of the Decoder
    offset,         \* of the Decoder
    read            \* the values that were read

wireVars == <<message, wirePhase, written, buffers, size, decoderBuffer, offset, read>>

Values(type) ==
    CASE type = "boolean" -> {0, 1}
      [] type \in NumberTypes \ {"boolean"} -> Numbers
      [] type = "string" -> Lengths \cup TooLong \cup {Null}
      [] type \in ArrayTypes -> ArrayLengths \cup {Null}
      [] OTHER -> Lengths \cup {Null}

-----------------------------------------------------------------------------
\* RequestHeader.encode: the tag comes with version 2 of the API.
RequestHeader(apiVersion, clientId) ==
    <<Field("int16", 3), Field("int16", apiVersion), Field("int32", 1),
      Field("string", clientId)>>
        \o (IF apiVersion >= 2 THEN <<Field("uint16", 0)>> ELSE <<>>)

ResponseHeader == <<Field("int32", 1)>>

SizeHeader == Field("int32", 0)

\* What an encoder holds when it has written these fields.
Holds(fields) ==
    /\ written = fields
    /\ buffers = [i \in DOMAIN fields |-> Encode(fields[i])]
    /\ size = Len(FlattenSeq(buffers))

WireInit ==
    /\ wirePhase = "writing"
    /\ \/ message = "fields" /\ Holds(<<>>)
       \/ message = "response" /\ Holds(<<SizeHeader>> \o ResponseHeader)
       \/ /\ message = "request"
          /\ \E apiVersion \in Versions, clientId \in {Null, 0, 1} :
                 Holds(<<SizeHeader>> \o RequestHeader(apiVersion, clientId))
    /\ decoderBuffer = <<>>
    /\ offset = 0
    /\ read = <<>>

Headers == CASE message = "fields" -> 0
             [] message = "response" -> 2
             [] message = "request" -> IF written[3].value >= 2 THEN 6 ELSE 5

MayWrite ==
    /\ wirePhase = "writing"
    /\ Len(written) < Headers + (IF message = "fields" THEN MaxFields ELSE MaxBody)

\* Encoder.write...: encode, push, and count the bytes.
Write(field) ==
    /\ MayWrite
    /\ Encodable(field)
    /\ written' = Append(written, field)
    /\ LET bytes == Encode(field)
       IN  buffers' = Append(buffers, bytes) /\ size' = size + Len(bytes)
    /\ UNCHANGED <<message, wirePhase, decoderBuffer, offset, read>>

\* The same with a value that Buffer refuses: it throws, and whoever was
\* encoding gives up the message.
WriteThrows(field) ==
    /\ MayWrite
    /\ ~Encodable(field)
    /\ wirePhase' = "abandoned"
    /\ UNCHANGED <<message, written, buffers, size, decoderBuffer, offset, read>>

MutSizeCountsItself(bytes) == EncodeNumber(4, Len(bytes)) \o SubSeq(bytes, 5, Len(bytes))

\* Request.toBuffer: the size field, written as 0 at first, says how many bytes
\* follow it.
UpdateSize(bytes) == EncodeNumber(4, Len(bytes) - 4) \o SubSeq(bytes, 5, Len(bytes))

\* The message is built and a decoder gets it, or all but its last bytes.  The
\* decoder of a message with a header begins behind the size field.  A message
\* whose size has no 32 bits is not built: toBuffer() throws.
Build(cut) ==
    /\ wirePhase = "writing"
    /\ Len(written) > Headers
    /\ message # "fields" => InRange("int32", size - 4)
    /\ LET joined == Fill(size, FlattenSeq(buffers))
           bytes == IF message = "fields" THEN joined ELSE UpdateSize(joined)
       IN  decoderBuffer' = SubSeq(bytes, 1, size - cut)
    /\ offset' = IF message = "fields" THEN 0 ELSE 4
    /\ wirePhase' = "reading"
    /\ UNCHANGED <<message, written, buffers, size, read>>

\* The fields as their reader knows them.
ToRead == IF message = "fields" THEN written ELSE Tail(written)

\* Decoder.read... of the next field.
Read ==
    /\ wirePhase = "reading"
    /\ LET field == ToRead[Len(read) + 1]
           got == Decode(decoderBuffer, field.type, offset)
       IN  IF got.threw
           THEN wirePhase' = "threw" /\ UNCHANGED <<offset, read>>
           ELSE /\ offset' = got.next
                /\ read' = Append(read, got.value)
                /\ wirePhase' = IF Len(read) + 1 = Len(ToRead) THEN "ended" ELSE "reading"
    /\ UNCHANGED <<message, written, buffers, size, decoderBuffer>>

WireNext ==
    \/ \E type \in Types : \E value \in Values(type) :
           Write(Field(type, value)) \/ WriteThrows(Field(type, value))
    \/ \E cut \in 0 .. MaxCut : Build(cut)
    \/ Read

WireSpec == WireInit /\ [][WireNext]_wireVars

-----------------------------------------------------------------------------
IsRead == wirePhase \in {"reading", "ended", "threw"}
Whole == Len(decoderBuffer) = size

\* A decoder that reads a whole message field by field gets what the encoder
\* was given, null and empty told apart, never throws, and ends at its end.  The
\* size field of a request counts the bytes behind it, by which the other side
\* finds where the next one starts.
DecodingUndoesEncoding ==
    IsRead /\ Whole =>
        /\ wirePhase # "threw"
        /\ \A k \in DOMAIN read : read[k] = Payload(ToRead[k])
        /\ wirePhase = "ended" => offset = Len(decoderBuffer)
        /\ message # "fields" =>
               DecodeNumber(decoderBuffer, "int32", 0).value = Len(decoderBuffer) - 4

\* A message that ends too early is not read as if it were whole: a read
\* throws, or the offset is beyond the buffer, and of all that was read only
\* the last value may be wrong, a text or array that was shortened.
ShortMessageIsNoticed ==
    IsRead /\ ~Whole =>
        /\ wirePhase = "ended" => offset > Len(decoderBuffer)
        /\ \A k \in DOMAIN read :
               read[k] # Payload(ToRead[k]) => k = Len(read) /\ offset > Len(decoderBuffer)
=============================================================================

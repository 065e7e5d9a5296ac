------------------------------ MODULE Messages ------------------------------
(***************************************************************************)
(* The messages of NetworkClient on one connection: ApiVersions, then any  *)
(* number of Metadata (src/network/protocol/, with the framing of          *)
(* BrokerConnection.send).  Requests are written into buffers whose size   *)
(* is computed by hand, and responses are read by counting.                *)
(*                                                                         *)
(* The broker writes the fields that the comments of the parsers name,     *)
(* from the version on that they give ("added in v3").  What a parser      *)
(* returns is the list of the values that it read, counts included.        *)
(***************************************************************************)
EXTENDS WireTypes

CONSTANTS
    Texts,           \* lengths of names and ids, 0 among them
    Counts,          \* lengths of arrays in a response
    MetadataMax      \* the newest version of Metadata that a broker has

\* Texts with a length of 16 bits, and versions; an element of an array has its
\* position for a name, so that positions have 16 bits, too.
ASSUME MessagesAssumption ==
    \A n \in Texts \cup Counts \cup MetadataMax : n \in Nat /\ n <= 32767

MetadataKey == 3
ApiVersionsKey == 18
ApiKeys == {MetadataKey, ApiVersionsKey}

VARIABLES
    clientId,     \* its length, or Null
    messagePhase, \* "created", "requested", "answered", "ready" or "failed"
    apiKey,       \* of the last request, with its version
    apiVersion,
    topicsAsked,  \* the topics it is about, Null for all, until the broker has read it
    request,      \* its bytes, until then
    answerVersion, \* that the broker answers in
    answer,       \* the fields that the broker wrote last
    response,     \* their bytes, until they are parsed
    understood,   \* what was parsed, <<>> before, and Null when it threw
    apiVersions   \* the newest version of Metadata that the client knows of

messageVars == <<clientId, messagePhase, apiKey, apiVersion, topicsAsked, request,
                 answerVersion, answer, response, understood, apiVersions>>

TopicLists == {Null} \cup BoundedSeq(Texts, 2)

MessagesInit ==
    /\ clientId \in Texts \cup {Null}
    /\ messagePhase = "created"
    /\ apiKey = ApiVersionsKey
    /\ apiVersion = 0
    /\ topicsAsked = Null
    /\ request = <<>>
    /\ answerVersion = 0
    /\ answer = <<>>
    /\ response = <<>>
    /\ understood = <<>>
    /\ apiVersions = Null

-----------------------------------------------------------------------------
\* The version that a parser takes every answer to be of.
ParserVersion(key) == IF key = ApiVersionsKey THEN 1 ELSE 8

\* RequestHeader.encode and BrokerConnection.send.  An empty client id is
\* written as null.
HasId == clientId \notin {0, Null}

EncodeHeader(key, version) ==
    Fill(10 + (IF HasId THEN clientId ELSE 0),
         EncodeNumber(2, key) \o EncodeNumber(2, version) \o EncodeNumber(4, 1)
             \o EncodeText("string", IF HasId THEN clientId ELSE Null))

\* The size field leaves itself out.
Framed(bytes) == EncodeNumber(4, Len(bytes)) \o bytes

\* The broker answers in the version of the request or, whatever that is, in
\* the one of the parser.
SendRequest(key, version, body) ==
    /\ messagePhase' = "requested"
    /\ apiKey' = key
    /\ apiVersion' = version
    /\ request' = Framed(EncodeHeader(key, version) \o body)
    /\ answerVersion' \in {version, ParserVersion(key)}
    /\ answer' = <<>>
    /\ understood' = <<>>
    /\ UNCHANGED <<clientId, response, apiVersions>>

\* ApiVersionsRequest.encode: the name and the version of the client, and the
\* number of tagged fields, for which 4 bytes are allocated.
ClientName == 17
ClientVersion == 5

ApiVersionsBody ==
    Fill(2 + ClientName + 2 + ClientVersion + 4,
         EncodeText("string", ClientName) \o EncodeText("string", ClientVersion) \o <<0>>)

fetchApiVersions ==
    /\ messagePhase = "created"
    /\ SendRequest(ApiVersionsKey, 0, ApiVersionsBody)
    /\ UNCHANGED topicsAsked

\* Mutants (names in Mut...) are plausible wrong versions of the definition
\* that follows.
MutForgetsLengths(topics) == 4 + (IF topics = Null THEN 0 ELSE 2 * Len(topics)) + 3

\* MetadataRequest.encode: the topics and three flags, which are not set.
MetadataSize(topics) ==
    LET upTo[i \in 0 .. Len(topics)] == IF i = 0 THEN 0 ELSE upTo[i - 1] + 2 + topics[i]
    IN  4 + (IF topics = Null THEN 0 ELSE upTo[Len(topics)]) + 3

MetadataBody(topics) ==
    Fill(MetadataSize(topics),
         (IF topics = Null
          THEN EncodeNumber(4, -1)
          ELSE EncodeNumber(4, Len(topics))
                   \o FlattenSeq([i \in DOMAIN topics |-> EncodeText("string", topics[i])]))
             \o <<0, 0, 0>>)

\* refreshMetadata, in the newest version that the broker has.
refreshMetadata(topics) ==
    /\ messagePhase = "ready"
    /\ SendRequest(MetadataKey, IF apiVersions = Null THEN 0 ELSE apiVersions,
                   MetadataBody(topics))
    /\ topicsAsked' = topics

-----------------------------------------------------------------------------
\* The broker.  A field of an answer, when the version has it; an array is its
\* length and the fields of its elements.
V(since, type, value) == IF since <= answerVersion THEN <<Field(type, value)>> ELSE <<>>

Array(since, elements) ==
    V(since, "int32", Len(elements))
        \o (IF since <= answerVersion THEN FlattenSeq(elements) ELSE <<>>)

ApiVersionsAnswer(errorCode, keys, max) ==
    V(0, "int16", errorCode) \o V(1, "int32", 7)
        \o Array(0, [i \in DOMAIN keys |->
                        V(0, "int16", keys[i]) \o V(0, "int16", 0) \o V(0, "int16", max)])

Nodes(since, n) == Array(since, [i \in 1 .. n |-> V(0, "int32", i)])

PartitionOf(p, nodes) ==
    V(0, "int16", 9) \o V(0, "int32", p) \o V(0, "int32", 1) \o V(7, "int32", 12)
        \o Nodes(0, nodes[1]) \o Nodes(0, nodes[2]) \o Nodes(5, nodes[3])

TopicOf(t, partitions, nodes) ==
    V(0, "int16", 3) \o V(0, "string", t) \o V(1, "boolean", t % 2)
        \o Array(0, [p \in 1 .. partitions |-> PartitionOf(p, nodes)])
        \o V(8, "int32", 30)

BrokerOf(b, rack) ==
    V(0, "int32", b) \o V(0, "string", b) \o V(0, "int32", 9092) \o V(1, "string", rack)

MetadataAnswer(brokers, rack, cluster, topics, nodes) ==
    V(3, "int32", 5)
        \o Array(0, [b \in 1 .. brokers |-> BrokerOf(b, rack)])
        \o V(2, "string", cluster) \o V(1, "int32", 1)
        \o Array(0, [t \in DOMAIN topics |-> TopicOf(t, topics[t], nodes)])
        \o V(8, "int32", 31)

Answers(fields) ==
    /\ messagePhase' = "answered"
    /\ answer' = fields
    /\ response' = EncodeNumber(4, 1)
                       \o FlattenSeq([i \in DOMAIN fields |-> Encode(fields[i])])
    /\ topicsAsked' = Null
    /\ request' = <<>>
    /\ UNCHANGED <<clientId, apiKey, apiVersion, answerVersion, understood, apiVersions>>

AnswersApiVersions ==
    /\ messagePhase = "requested" /\ apiKey = ApiVersionsKey
    /\ \E errorCode \in {0, 35}, max \in MetadataMax,
          keys \in {<<>>, <<0>>, <<0, MetadataKey>>, <<MetadataKey, ApiVersionsKey>>} :
           Answers(ApiVersionsAnswer(errorCode, keys, max))

AnswersMetadata ==
    /\ messagePhase = "requested" /\ apiKey = MetadataKey
    /\ \E brokers \in Counts, rack \in Texts \cup {Null}, cluster \in Texts \cup {Null},
          topics \in BoundedSeq(Counts, 2), nodes \in [1 .. 3 -> Counts] :
           Answers(MetadataAnswer(brokers, rack, cluster, topics, nodes))

-----------------------------------------------------------------------------
\* Parsing.  A "text" is a string that is read as if it could not be null.
DecodeField(bytes, type, from) ==
    IF type = "text"
    THEN Text(bytes, DecodeNumber(bytes, "string", from))
    ELSE Decode(bytes, type, from)

ReadField(bytes, type, so) == AppendElement(so, DecodeField(bytes, type, so.next))

\* One field after the other, behind what was read so far.
Reads(bytes, so, types) ==
    LET upTo[i \in 0 .. Len(types)] ==
            IF i = 0 THEN so ELSE ReadField(bytes, types[i], upTo[i - 1])
    IN  upTo[Len(types)]

\* A loop over as many elements as were counted; more than there are bytes
\* are too many.
Loop(bytes, counted, ReadElement(_)) ==
    LET upTo[i \in 0 .. Last(counted.value)] ==
            IF i = 0 THEN counted ELSE ReadElement(upTo[i - 1])
    IN  IF counted.threw
        THEN Throws
        ELSE IF Last(counted.value) > Len(bytes) THEN Throws
        ELSE IF Last(counted.value) < 0 THEN counted
        ELSE upTo[Last(counted.value)]

ReadArray(bytes, so, ReadElement(_)) == Loop(bytes, Reads(bytes, so, <<"int32">>), ReadElement)

\* An array whose elements have fields of these types.
ReadRows(bytes, so, types) == ReadArray(bytes, so, LAMBDA read : Reads(bytes, read, types))

\* ApiVersionsResponse.parse
ParseApiVersions(bytes) ==
    ReadRows(bytes, Reads(bytes, Got(<<>>, 0), <<"int16", "int32">>),
             <<"int16", "int16", "int16">>)

\* The parts of MetadataResponse.parse.
ReadNodes(bytes, so) == ReadRows(bytes, so, <<"int32">>)

MutNoLeaderEpoch(bytes, so) ==
    ReadNodes(bytes, ReadNodes(bytes, ReadNodes(bytes,
        Reads(bytes, so, <<"int16", "int32", "int32">>))))

ReadPartition(bytes, so) ==
    ReadNodes(bytes, ReadNodes(bytes, ReadNodes(bytes,
        Reads(bytes, so, <<"int16", "int32", "int32", "int32">>))))

ReadTopic(bytes, so) ==
    Reads(bytes,
          ReadArray(bytes, Reads(bytes, so, <<"int16", "text", "boolean">>),
                    LAMBDA read : ReadPartition(bytes, read)),
          <<"int32">>)

ReadBrokers(bytes, so) ==
    ReadRows(bytes, so, <<"int32", "text", "int32", "string">>)

ReadTopics(bytes, so) == ReadArray(bytes, so, LAMBDA read : ReadTopic(bytes, read))

ParseMetadata(bytes) ==
    LET brokers == ReadBrokers(bytes, Reads(bytes, Got(<<>>, 0), <<"int32">>))
        topics == ReadTopics(bytes, Reads(bytes, brokers, <<"string", "int32">>))
    IN  Reads(bytes, topics, <<"int32">>)

\* Of the ranges that were parsed, the last one for Metadata counts.
NewestMetadata(values) ==
    LET ranges == {j \in 1 .. values[3] : values[3 * j + 1] = MetadataKey}
        last == CHOOSE j \in ranges : \A k \in ranges : k <= j
    IN  IF ranges = {} THEN Null ELSE values[3 * last + 3]

\* ResponseHeader.decode takes the correlation id, the client parses the rest.
Parsed ==
    LET bytes == SubSeq(response, 5, Len(response))
    IN  IF apiKey = ApiVersionsKey THEN ParseApiVersions(bytes) ELSE ParseMetadata(bytes)

\* The client goes on with what was parsed: an exception, or the error code of
\* ApiVersions, makes connect() fail before the table is filled.
Parses(parsed) ==
    LET ofApiVersions == apiKey = ApiVersionsKey
        fails == parsed.threw \/ parsed.value[1] # 0
    IN  /\ messagePhase = "answered"
        /\ messagePhase' = IF ofApiVersions /\ fails THEN "failed" ELSE "ready"
        /\ apiVersions' = IF ofApiVersions /\ ~fails THEN NewestMetadata(parsed.value)
                          ELSE apiVersions
        /\ understood' = IF parsed.threw THEN Null ELSE parsed.value
        /\ response' = <<>>
        /\ UNCHANGED <<clientId, apiKey, apiVersion, topicsAsked, request, answerVersion,
                       answer>>

ClientParses == Parses(Parsed)

MessagesNext ==
    \/ fetchApiVersions
    \/ \E topics \in TopicLists : refreshMetadata(topics)
    \/ AnswersApiVersions
    \/ AnswersMetadata
    \/ ClientParses

MessagesSpec == MessagesInit /\ [][MessagesNext]_messageVars

-----------------------------------------------------------------------------
\* What a request starts with, read from its bytes (RequestHeader.decode).
HeaderOf(bytes) == Reads(bytes, Got(<<>>, 4), <<"int16", "int16", "int32", "string">>)

ReadTopicNames(bytes, so) == ReadRows(bytes, so, <<"string">>)

\* The sizes that are computed by hand are those that are written: a request
\* has its header, its fields and nothing behind them but the zeros of an
\* allocation that was too large, and its size field counts its bytes.
RequestsAreWhole ==
    messagePhase = "requested" =>
        LET header == HeaderOf(request)
            body == IF apiKey = ApiVersionsKey
                    THEN Reads(request, Got(<<>>, header.next), <<"string", "string", "int8">>)
                    ELSE Reads(request, ReadTopicNames(request, Got(<<>>, header.next)),
                               <<"boolean", "boolean", "boolean">>)
            texts == IF apiKey = ApiVersionsKey THEN <<ClientName, ClientVersion>>
                     ELSE IF topicsAsked = Null THEN <<-1>>
                     ELSE <<Len(topicsAsked)>> \o topicsAsked
            flags == IF apiKey = ApiVersionsKey THEN <<0>> ELSE <<0, 0, 0>>
        IN  /\ DecodeNumber(request, "int32", 0).value = Len(request) - 4
            /\ header.value = <<apiKey, apiVersion, 1,
                                IF HasId THEN Content(clientId) ELSE Null>>
            /\ ~body.threw
            /\ body.value = [i \in DOMAIN texts |->
                                IF apiKey = MetadataKey /\ i = 1 THEN texts[i]
                                ELSE Content(texts[i])] \o flags
            /\ \A i \in body.next + 1 .. Len(request) : request[i] = 0
            /\ apiKey = MetadataKey => body.next = Len(request)

\* What the client reads out of an answer is, field by field, what the broker
\* wrote into it, null and empty told apart: the request says "Use version 0
\* initially" (src/network/NetworkClient.ts), and later "Get the maximum
\* supported version for METADATA API".
AnswersUnderstood ==
    understood # <<>> => understood = [i \in DOMAIN answer |-> Payload(answer[i])]

\* Both ways: a request is as long as it says, whatever the client made of the
\* answers before it, and an answer in the version of its parser is read as it
\* was written (src/network/protocol/).
MessagesAreUnderstood ==
    /\ RequestsAreWhole
    /\ answerVersion = ParserVersion(apiKey) => AnswersUnderstood
=============================================================================

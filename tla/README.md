# Verification of kafka-nodeTS

TLA+ models of the Kafka client for Node in this repository, the TLC
configurations that check them and TLAPS proofs about them. Paths are relative
to the repository root; the code is under `src/`.

## The system

Node runs one handler at a time. All the concurrency of this code is in what may
happen between two handlers, and between two `await`s of one method: socket
events, timers, callbacks of `write()`, calls of the application, responses.

| component | source | state | operations | interacts with | hard because |
|---|---|---|---|---|---|
| BrokerConnection | `src/network/BrokerConnection.ts` | connection state, socket, connection timer, sweep interval, correlation-id counter, in-flight map, receive buffer | `connect`, `disconnect`, `send`, socket listeners, timers | `net`/`tls` sockets; promises of its callers; `error` and `disconnect` events of its owner | a dropped socket keeps its listeners; answers, sweep, write errors and disconnects race for a request; ids wrap; split responses |
| NetworkClient | `src/network/NetworkClient.ts` | seed connections, map of connections, flags `isClosed`, `isInitialized`, `isRefreshingMetadata`, metadata timer, API versions | `connect`, `close`, `refreshMetadata`, `sendRequest`, `sendToPartitionLeader` | owns BrokerConnections and a ClusterMetadata | every method awaits; one refresh at a time; retries in retries; `close` overlaps everything |
| ClusterMetadata | `src/network/ClusterMetadata.ts` | topics, brokers, controller, initialised | `updateMetadata`, `findLeader`, `findCoordinatorNode` | fed by NetworkClient, emits `update` | old topics are kept; which changes are announced |
| KafkaConsumer | `src/consumer/KafkaConsumer.ts` | three flags, subscriptions, assignment, rebalance listener, poll interval | `connect`, `subscribe`, `assign`, `unsubscribe`, `start`, `stop`, `poll`, `commit*`, `seek*`, `close` | application callbacks and events; simulates the cluster | callbacks run in the middle of methods and may call any of them; `close` closes only after a timer |
| KafkaProducer | `src/producer/KafkaProducer.ts` | two flags | `connect`, `send`, `flush`, `close` | application callbacks; simulates the cluster | `send` connects implicitly; `close` awaits before it closes; a callback or a listener of `ready` may throw |
| AdminClient | `src/admin/` | two flags; data holders | `connect`, `close`, topic and config operations, `assignReplicas` | simulates the cluster | operations connect, wait, and then read what the caller still holds; a setter that fails half-way |
| frame reader | `handleIncomingData` in `BrokerConnection.ts` | receive buffer | one loop per `data` event | feeds `handleResponse` | any chunking of the stream |
| wire types, messages | `src/protocol/`, `src/network/protocol/` | none (cursor of a decoder) | encode, decode | NetworkClient, BrokerConnection | boundaries: null and empty, varints, widths, versions |
| serdes | `src/serde/` | none | serialize, deserialize | none | null |
| errors, configuration and record types | `src/errors/`, config interfaces | none | none | all | nothing to model |

What makes each correct:

- **BrokerConnection**: a `send()` settles exactly once, by its own response or
  by an error, and does settle; `connect()` settles within its timeout; fields,
  timers and sockets of one attempt never act on another.
- **NetworkClient**: the single-flight refresh excludes nobody for ever; nobody
  waits on a connection that is gone; retries are bounded; a lost connection is
  replaced; a closed client stays closed.
- **ClusterMetadata**: `findLeader` answers from the newest response that had the
  topic; an announced change is a change and every change is announced.
- **KafkaConsumer**: the listener knows what the consumer has and a subscription is
  served, whatever the callbacks call; one interval while it runs; `close` releases
  everything and nothing is emitted after it.
- **KafkaProducer**: the callback of a send is called once, with its outcome (finding 6 says when it is not);
  nothing is put on its way after `close`; `flush` outlasts what was on its way; calls settle.
- **AdminClient**: every call settles, whatever closes or fails under it; assignments
  are those of the last call.
- **wire types, messages**: decoding undoes encoding, sizes computed by hand are those that
  are written, and an answer is read in the version it was written in.
- **frame reader**: exactly the frames of the stream come out, however it is cut.

## Modules

| module | role |
|---|---|
| `BrokerConnection` | the whole object, one action per handler |
| `RequestChannel` | what `send()` promises: abstract specification |
| `BrokerConnectionProofs` | its safety, and that it implements RequestChannel, proved |
| `NetworkClient` | the client over abstract connections, one action per stretch between two `await`s |
| `NetworkClientProofs` | its safety, proved |
| `ClusterMetadata`, `ClusterMetadataProofs` | `updateMetadata`, the `update` event and a listener of it, `findLeader`, `findCoordinatorNode`; all its properties, proved |
| `KafkaConsumer`, `KafkaConsumerProofs` | subscription, assignment, polling and `close`, with callbacks that call back; its safety, proved |
| `KafkaProducer`, `KafkaProducerProofs` | calls that overlap and the timers they wait for; its safety, proved |
| `AdminClient` | operations over collections that their caller may change meanwhile |
| `ReplicaAssignments` | the setters of `NewTopic` and `NewPartitions` |
| `FrameReader` | `handleIncomingData` over a stream of responses, one action per turn of its loop |
| `PartsProofs` | the safety of the last two, proved; that of `ReplicaAssignments` of the specification that `MCParts` checks |
| `WireTypes` | the wire types, encoded and decoded, over bytes |
| `Wire`, `WireProofs` | Encoder, Decoder, headers and the size field; that decoding undoes encoding and short messages are noticed, proved |
| `Messages`, `MessagesProofs` | the ApiVersions and Metadata requests and responses of NetworkClient, and its table of API versions; that both ends understand them, proved |
| `MCBrokerConnection`, `MCNetworkClient` | symmetry for TLC |
| `MCListeners` | consumer or metadata, one of them in each behaviour (`subject`): the two objects that tell a listener what changes; symmetry and sample data |
| `MCParts` | frame reader, producer, admin client, replica assignments, wire and messages, one of them in each behaviour (`subject`), as they share nothing |

### BrokerConnection

The variables are the fields of the object under their own names, the promises it
gave out, and the runtime below it. `attempt[s]` is the promise of the `connect()` that
created socket `s`, `joiner` that of a `connect()` that found one under way, `req[r]`
that of a `send()`; `inFlight` is `inFlightRequests`; `phase`, `listening`,
`idleArmed` and `wire` are what Node keeps per socket. `connectionTimeout` holds
the socket whose timer is armed, so that a timer out of step can be seen.
`disconnect()` has no `await` in it, so it is atomic and `CLOSING` is never seen.

| action | code |
|---|---|
| `StartConnect`, `ConnectThrows`, `JoinConnect` | `connect()` when disconnected, when `net.connect` refuses its arguments, when connecting |
| `ConnectTimeout` | the callback of its `setTimeout` |
| `SocketConnected`, `SocketError`, `SocketEnd`, `SocketClose`, `SocketTimeout` | the listeners of a socket, the current one or an older one |
| `IncomingFrames`, `IncomingPartial`, `IncomingMisframed` | `handleIncomingData` with `handleResponse`: one or several whole frames, a part of one, bytes of a mixture |
| `Send`, `SendNotConnected`, `SendTooLarge` | `send()` |
| `WriteError` | the callback of `socket.write` |
| `Expire`, `Tick` | a request gets older than its timeout; the sweep |
| `Disconnect` | `disconnect()` by the owner |

Two kinds of guard are not the code's. `StartConnect` reuses a socket identity
only when nothing of its former life is left, and `Fresh` does so for requests.
`WithinIdWindow` bounds the environment: fewer ids than there are (2147483647) are drawn
while a request is live, which lives for seconds. It speaks of how many ids were drawn
(`younger`, history) and not of which: that the next id is then free is what `LiveIdsDistinct`
is about, and a counter that starts again with a connection breaks it.
TLC uses `IdModulus = 3`, the smallest that lets two requests be live.

`SplitFrames` separates two environments. When it is FALSE each response arrives
in one `data` event. When it is TRUE it may be cut; the bytes that wait in the buffer
are abstracted to whose they are, and what is cut out of a mixture may be any frames, fail to decode, or
have a size below zero, with which the loop reads before its buffer or never comes back (`alive` then is FALSE).
`net.connect` throws of its arguments, which do not change, so that `ConnectThrows` is of an object that never had a socket. Listeners for metrics (`response`, `throttle`, bytes) are taken not to throw.

### RequestChannel

Calls are issued or refused one by one; any set of them is answered, each by its own response, or fails. The refinement maps `req` (an overdue call is a pending
one) and `answer`; everything else of BrokerConnection stutters or is one step.

### FrameReader

The stream of one connection is given by where each response starts (`start`), and a
byte is its position in it. The buffer is always a stretch of the stream, from `base` on;
`processed` is the local variable of the handler. `Receive` is the call of the handler,
`Extract` a turn of the loop, `Finish` the way out of the loop and what is kept; no event
comes in between. Where no response starts the size that is read is not defined, so that a
reader out of step proves nothing. A size is not negative. What comes of bytes of an older
connection is in BrokerConnection, which takes from here that a response whose last
byte arrives is handled in that event.

### NetworkClient

A connection is what BrokerConnection shows of itself: connected or not, and its
promises. Two findings about BrokerConnection reach up: a seed whose object was
disconnected while connecting may come up `"hollow"`, connected without a socket,
and a seed without `error` listener ends the process when it fails. `older[i]` is whether a socket that seed `i` was
made to let go of may still act on it, with its listeners. Such a seed may come up or be disconnected by
that socket's events, and a `connect()` of it may hang for ever (finding 1); a seed whose `connect()` throws (`"bad"`) leaves the
next callers with a state CONNECTING that nothing ends (`"stuck"`). Which of the callers that await a reused seed an event
settles is left open (`W` in `SeedConnects` and `SeedBreaks`), as `BrokerConnection` has the attempts one by one.

`refresh` is the local state of the one `refreshMetadata()` that runs: its caller,
where it is, the broker it uses, the brokers still to visit. `cpc`/`at` and
`rpc`/`target`/`try` are program counters and locals of `connect()` and of
`sendToPartitionLeader()` with the `sendRequest()` in it. `Drained` says that Node runs
the continuations of settled promises before the next event. The metadata is reduced
to what the client acts on: which brokers a response lists, and the leader of the one
partition the requests are for. `close()` is atomic, as its awaits are of promises
that are already settled. The application listens to the client's `error` event.

### ClusterMetadata

`updateMetadata` is one handler without `await`, so one action. A topic's metadata is its
list of partitions; `brokers` is the map in its order, which `findCoordinatorNode` reads.
`Absent` is a missing entry. Sorting two arrays and comparing them is comparing how often
each element occurs. The map from index to partition that `hasPartitionChanges` builds is an
existential quantifier, as an index occurs once. The event is part of the action: `update` is the
list it carries, and `mirror` is what a listener knows that reads the named topics again and no
others; `View` is what can be learnt of a topic, the error codes of its partitions left out,
as no code reads them. A response (`Responses`) is consistent, as a broker sends it: leaders and
controller are among its brokers, a topic without error has partitions, nothing is listed twice.
`NetworkClient` keeps of all this only what it acts on; the two are not composed yet.

### KafkaConsumer

All methods are synchronous up to their first `await`, but some call the application in
their middle: `onPartitionsRevoked` from `simulateRebalance` and `unsubscribe`, the
`rebalance` event, `data` for each record. `stack` holds the calls that wait for such a
callback to return, the innermost on top; while it is not empty the application may call any
method (bounded by `MaxDepth`), and timers do not fire. Where a method calls back more than
once in a row without doing anything in between, one frame stands for both callbacks. What a
method does after its last callback is part of the step that ends it.

| action | code |
|---|---|
| `connect`, `Connected` | `connect()` to its timer; the timer |
| `subscribe`, `EndRebalance`, `RebalanceThrows` | `subscribe()` with `simulateRebalance()` up to the callbacks; after them; an event listener that throws |
| `assign` | `assign()` |
| `unsubscribe`, `EndUnsubscribe` | `unsubscribe()` up to and after its callback, also inside `close()` |
| `start`, `stop`, `IntervalFires` | the polling interval |
| `poll`, `DataHandled`, `DataThrows` | `poll()` one record at a time |
| `close`, `Closed` | `close()` to its timer; the timer |

`intervals` counts what is armed in the runtime, `pollInterval` is the handle. Three ghost variables
say what the properties are about. `owned` is what a rebalance listener knows that adds what it is
assigned and removes what is revoked. `bypassed` is set on the ways past it that the code leaves open:
`assign()` does not tell it, an exception of a `rebalance` listener leaves a rebalance half
done, and a `subscribe()` from the callback of an `unsubscribe()` is forgotten when
that returns. `reopened` is set when the application subscribes, assigns or starts
while a `close()` waits, which the code allows, as `isClosed` is set last. A method that refuses
(not connected, closed) changes nothing and is no action.

### KafkaProducer

A call is where it waits (`at`) and what is left of the timer it waits for (`timer`); all
delays are `setTimeout`s that stand for the cluster. A tick is 100 ms, which divides all of them
(500, 100, 200 and 300). `Tick` is enabled when no timer is due, so timers fire in the order of their
deadlines and in either order when these are equal; that is what Node does unless the event loop is
blocked for longer than the difference. `FlushWaits` depends on it: `flush()` waits for no send
in particular, only longer than a send takes. `called` records the arguments of each callback, and
`before` which records were on their way when a `flush()` or `close()` was called. A listener of `ready` or `close` that throws
rejects the call that emitted it.

### AdminClient and ReplicaAssignments

An operation waits for the connection if there is none, then for its own timer, and only
then goes through the array or map that the caller handed over. `collection` is what that holds
now, and `Change` is the caller changing it in between: the operation answers for what it then finds. The seven operations differ
in which names they answer for (`kind`). `isClosed` is looked at before an operation connects and not after. `ReplicaAssignments` is `assignReplicas` of both data holders; in `NewPartitions` it clears the map,
sets rows one by one, and throws at the first that is empty.

### WireTypes and Wire

Buffers are sequences of bytes. `Write` is any `write...` of the Encoder, `WriteThrows`
the same with a value that `Buffer` refuses, `Build` is `toBuffer()`, with the update of the size field when there is one, and
`Read` any `read...` of the Decoder. Texts are known by their length and have content that tells positions
apart. `Build` may drop the last byte, as a reader would see it that
took a message for whole too early: `ShortMessageIsNoticed` says what the code
can know then. A text that ends too early is shortened and not refused, as `toString`
and `slice` stop at the end of the buffer, but the offset runs past it.
`EncodeLength` follows the code in allocating by one function and filling by another.

### Messages

`src/network/protocol` has headers and encoders of its own, which allocate a buffer from a
sum and then move a cursor through it by hand; so do the parsers of the two responses.
`EncodeHeader`, `ApiVersionsBody` and `MetadataBody` fill a buffer of the size that the code computes
(a write beyond it is lost, as in `Fill`), `Framed` is what `BrokerConnection.send` puts before it, and
`ParseApiVersions` and `ParseMetadata` read the same types in the same order as the code. What they return
is the list of all values read, counts included. The client asks for ApiVersions once, in version 0, and then any number of
times for Metadata, in the version that its table names. The second parameter of each field of an answer (`V`) is the version that brought it,
taken from the comments of the parsers.

The broker answers in the version of the request or in the one that the parser takes every answer to be of, whatever was asked for
(`answerVersion`). In the parser's own version, what is read is what was written; in the other it is not (finding 5). The order and the
types of the fields of an answer are those that the comments of the parsers name, as there is no other layout in this repository: what is checked is that the
parsers count and place them right, and not that they agree with Kafka's own description of the protocol. The request for ApiVersions leaves three bytes behind its last field, as
four are allocated for a count that takes one; `RequestsAreWhole` allows zeros there.
The client id "" is written as null.

## Runs

Deadlock is not checked (`CHECK_DEADLOCK FALSE`): a connection whose process ended,
a closed client that has settled all calls, a consumer whose application calls nothing more and a stream
that is read are at rest.

| run | bounds | shows |
|---|---|---|
| `Connection_safety` | 2 sockets, 2 requests, a joining `connect()`, no `error` listener, ids mod 3, split and joined responses | the type, and five invariants that relate map, promises, timers, sweep and sockets |
| `Connection_liveness` | 1 socket (reused), 2 requests, a joining `connect()`, whole responses | answers match; BrokerConnection implements RequestChannel; `send()` and `connect()` settle |
| `Connection_reconnect_hangs` | 2 sockets | **violated**: a reconnect hangs |
| `Connection_buffer` | 2 sockets, split responses | **violated**: an answer is not the request's own |
| `Client_safety` | 2 brokers, 1 seed, 2 `connect()`, 1 request, timer, `close()` | the type, and four invariants about the refresh, the map, the waits and the timer |
| `Client_liveness` | 1 broker, 2 seeds, 1 `connect()`, 1 request | calls and refreshes end, unless a seed's `connect()` hangs under them |
| `Client_close` | 1 broker, 1 seed | **violated**: a closed client keeps a connection |
| `Client_dead` | 2 brokers, 1 seed | **violated**: a dead connection is not replaced |
| `Listeners` | consumer: 2 topics, 8 calls of the application, 2 levels of calls in callbacks, 2 records a poll; metadata: 2 topics, 2 brokers, 4 kinds of partition metadata | the types; five invariants about listener, subscription, interval and `close` of the consumer; a listener of the metadata is in step, what is announced is what changed, a new leader is known |
| `Parts` | frames: 3 responses of 0 to 5 bytes, every stream, every cut; producer: 2 sends, `connect`, `flush`, `close`; admin: 1 operation over 3 names with `connect` and `close`; replicas: 2 brokers, 2 rows; wire: 2 fields, or 1 field behind a header; messages: up to 2 topics, every array of 0 or 2 elements | frames come out whole, in order, at once; callbacks and flush of the producer, what it does when closed, that its calls settle and those of the admin client; rows of the last call; decoding undoes encoding, in fields and in messages; a short message is noticed |
| `Producer_callback` | 1 send | **violated**: the callback of a send is not called |
| `Messages_version` | the same messages | **violated**: an answer in the version that was asked for is misread |

Why these bounds are enough to see the interesting cases: two sockets are an old and
a new one, and a closed identity is used again, so histories are not limited to two
attempts; two requests are one that is answered late and one that took its place;
two brokers let the metadata swap one for the other; two `connect()` callers share
a seed or overlap in the refresh; a seed is used again after `close()`, also by a refresh, beside its old socket; with two seeds (`Client_liveness`)
`connect()` falls back to the next one. The third caller of a refresh is the timer. Three responses give one that is done, one in the buffer and one to come, and five
bytes are more than a size field. The partition metadata are one partition and neighbours of it that
differ in one respect, and a second index that comes and goes or changes place. Two topics make
a subscription that shrinks, grows or is swapped; eight calls are connect, subscribe, a change of it, a
call in its callback, one in that one's, and three to see what is left. Two sends are one before and one
after a flush or close. Lengths of texts, and the numbers in `MCParts`, are on both sides of the
boundaries of 7, 8, 15 and 16 bits (the length of an array is written like that of a text, and arrays are null, empty or
of one or two elements, one of them empty); two fields are enough to find out whether the second begins where the first ends.
In the messages a text is empty, null or two bytes long, and each array has no element or two, so that every place behind a text or an array is met shifted and not shifted.
The liveness runs use no symmetry.

How often a request is written to a socket (two tries with two writes each) is bounded in `TypeOK` of `NetworkClient`.

Each property has a mutant in `PROJECT.json`: a plausible mistake in the definition
it depends on (the operators named `Mut...`), with which TLC finds it violated.

### Fairness

- `BrokerConnection`: weak fairness of the sweep, of time passing for a pending
  request, of the connection timer and of the end of a TCP handshake. Timers of Node
  fire while the process runs, and the kernel decides a handshake. Nothing is assumed
  of the broker or of the application.
- `NetworkClient`: strong fairness of the steps of each caller and of the promises of
  connections, which settle by what `BrokerConnection` shows: `send()` always, `connect()` where the
  object has had one socket only. That is every new connection of a refresh, and a seed's attempt
  while the seed has let go of no socket (`LoneAttempt`). Nothing is assumed of a reused seed or of one whose
  `connect()` has thrown: there a `connect()` may hang (finding 1), and the liveness properties say what else
  could keep a call from ending: nothing (`MayHang`, of the call itself and not of others). Fairness is strong because an
  event has to wait while continuations of other callers run, and the event loop
  delays it without dropping it. Losses, timer and `close()` are not fair.
- `KafkaProducer` and `AdminClient`: weak fairness of time and of the timers that are due. Calls of the application are not fair.

### Findings

1. **A reconnect may hang** (`BrokerConnection.ts:246`). `disconnect()` leaves the
   listeners on the old socket. When that socket closes after `connect()` was called
   again, its listener runs `onDisconnect` on the new attempt: the timer is cleared, and the new socket
   loses its listeners and the reference to it (`:513`). It is not destroyed and goes on connecting, but nobody hears of it, and the promise is
   never settled. With one socket at a time `ConnectSettles` holds. In `NetworkClient` a seed's `connect()` that hangs inside
   `refreshMetadata` (`NetworkClient.ts:284`) leaves `isRefreshingMetadata` set for ever, and no later refresh runs; the request that started it waits for ever, too. Other
   requests and `connect()` calls still end, as they do not wait for the refresh of another.
2. **Bytes of a lost connection reach the next one** (`BrokerConnection.ts:381`): the
   buffer is never cleared. With whole responses `AnswersMatch` is proved.
3. **`close()` during a refresh leaks a connection** (`NetworkClient.ts:360`).
4. **A dead connection is never replaced** (`NetworkClient.ts:335`) as long as the
   metadata lists its broker.

5. **Requests and parsers disagree on versions** (`NetworkClient.ts:228`, `:292`). ApiVersions is asked for
   "in version 0", with a body that this version does not have (`ApiVersionsRequest.ts:18`), and the answer is
   read with a throttle time that comes with version 1 (`ApiVersionsResponse.ts:35`). Metadata is
   asked for in the newest version of the broker, or 0, and read as version 8 (`MetadataResponse.ts:52`, `:181`).
   With a broker that answers in the version it was asked for, what the client understands is not what was written.
6. **A send may settle without its callback** (`KafkaProducer.ts:103`), which `Callback.ts:3` says is called when the send completes:
   when `connect()` rejects, because a listener of `ready` throws, `send()` ends before it looks at the callback. A callback that throws when the
   record was sent is called a second time with its own error (`:150`). `CallbackAgrees` is what holds: a send that came past its `connect()` settles with what its
   callback was told last.

Behaviour that the models contain and that no run is spent on: two overlapping attempts
can leave an interval nobody can stop, or the state CONNECTED without a connected socket
(`BrokerConnection.ts:227`, `:529`); a `connect()` that joined an attempt is not told of a disconnect
(`:189`); an unreachable broker in the metadata and an idle seed end the process because
nobody listens to their `error` event (`NetworkClient.ts:353`, `:108`); a refresh that
ends after `close()` arms the metadata timer (`:401`); the second of two overlapping
`connect()` calls is ready without metadata (`:168`). `flush()` of the producer does not wait for a send that is
still connecting, though its comment says that all sends are complete
(`KafkaProducer.ts:158`); admin operations look at `isClosed` before they connect and not
after, and answer for what the caller's array or map holds after their delay. A rebalance listener is out of step after `assign()`, after an exception of a
`rebalance` listener, and after a `subscribe()` made while an `unsubscribe()` tells it; a consumer that is used while it closes keeps what it was given
(`bypassed` and `reopened` mark these). A topic that a response leaves out keeps leaders that are no longer brokers.

## Proofs

The connection, for every number of sockets, requests and joining callers, every id modulus, and both
values of `OwnerListens` and `SplitFrames` unless stated. The only assumptions are
`ConnectionAssumption`: the model values are distinct, the modulus is positive.

- `TypeCorrect`. `TypeOK` is inductive.
- `InFlightCorrect`, `LiveIdsCorrect`. Neither half is inductive alone: a new request
  overwrites no other only because live ids are distinct, and a write error removes no
  other's entry only because the map is exact. `RequestsInv` is both, and that the id of a live request
  is as far behind the counter as `younger` says, so that the counter comes to it only after `IdModulus` draws.
- `FieldsCorrect`: `InFlightIsTimed`, `ConnectTimerIsCurrent`, `CurrentSocketLive`,
  `DisconnectedIsClean`. The strengthening `FieldsInv` adds that a connected object
  runs its sweep (`SweepRuns`). The argument for the handlers of an old socket is that every way of
  closing leaves a clean object, whoever calls it, and that a socket that is not current
  can only close, or set the state to CONNECTED while it starts a sweep.
- `ImplementsChannel`, `AnswersCorrect`, for whole responses: each handler is one step of
  RequestChannel or a stutter, by `RequestsInv` (a response finds its own request under
  its id, or nobody) and by the buffer being empty.
- `FramesCorrect`, `FrameTypes`, for every number and size of responses (`FrameAssumption`). `FrameInv` says where
  the handler stands at each turn: the bytes it has not processed begin where the
  next response does; between two events no complete response is among them. That the starts of the responses
  increase is stated of the stream (`Layouts`) for any two of them and not just for neighbours, as
  it would take induction to get there.
- `ListenerCorrect`, `AnnouncedCorrect`, `ClusterCorrect`, `LeaderCorrect`, for every set of topics, brokers and partition metadata
  (`MetadataAssumption`, `AbsentAssumption`). The heart is `NoChangeSameView`: when each
  partition of the response has an equal one under its index, the indexes of the response
  are among those that were known, and as there are equally many (`IndexCount`) they are the
  same. Without the comparison of the lengths a partition that goes away is missed. `AnnouncedCorrect` is the
  converse, that of two equal views none is announced (`SameViewNoChange`); it holds whatever the order of replicas and partitions.

`NetworkClientProofs`, for any sets of brokers, requests and callers and any number of seeds: `ClientTypes`, `RefreshOwned`,
`NobodyWaitsOnLost`, `MapIsOneToOne` and `TimerIsRearmed` all come from one invariant
`IndInv`, whose parts need each other. `AtInv`: a caller that is at a seed is at one that exists, so
that what it finds out is about that seed. `WritesInv`: a request has written at most twice
in each earlier try and as often as its place says in this one, which gives the bound in the type.
`MapInv`: the keys of the map are the nodes with a connection, each once, and the node that a refresh
connects has none yet; `MapCount` gets the equation of `OneConnectionPerNode` from it. The
step lemmas go through the handlers by `LosingFacts`, `BeginFacts`, `ResumeOkFacts` and
`ResumeFailedFacts`, which say once what a loss of connections, the start and the end of a refresh leave alone.

`KafkaConsumerProofs`, for any topics, calls and depth of the stack: `ListenerKnows`, `SubscriptionServed`,
`PollingIsOwned`, `ClosedHoldsNothing`, `ConsumerTypes`. The properties hold only when no change of the
assignment is under way, so the invariant says what holds while one is: `ListenerInv`, the listener has
nothing or exactly the assignment; while an unsubscribe waits, it has nothing. `ServedInv` adds
that no rebalance is on top of an unsubscribe (`Ordered`) and that the subscription is empty while one waits.
`ReleaseInv`: what `close()` took stays away until its timer fires.

`KafkaProducerProofs`, for any calls: `CallbackTold`, `FlushOutlasts`, `NothingAfterClose`. For the
second, a record that a flush waits for has settled or is due strictly earlier than the flush (`Outruns`);
`Tick` keeps the order because it takes one from every timer and waits for none that is due.

`PartsProofs` has the frame reader's theorems (above) and, of the specification of `MCParts`, `RowsCorrect`, for any brokers and any number of
partitions: the assignments are the first rows of the last call, in their places (`RowsInv`), and there are as many as the
cardinality says that `toJSON()` loops to.

`WireProofs`, for any numbers, any lengths below 2147483647 (`WireAssumption`: one more must fit into the 31 bits that
`>>` and `<<` keep), any number of fields, and any number of bytes cut off: `DecodingCorrect` and `ShortMessagesCorrect`. The argument goes from the bytes up.

- Numbers, compact lengths and arrays are defined by recursion, and what a recursion computes for every input needs
  induction. The induction theorems of the library have an operator parameter and cannot be used; `NatMin` gets from
  `WFMin` that a set of naturals has a least element, and from it come `StrongInduction` and `Induction`, where a set stands for the property. `Recursion`
  and `StepwiseRecursion` give a function that satisfies a recursive equation, so that the `CHOOSE` behind a recursive
  definition is such a function (`ShiftedStep`, `VarintStep`, `DecodeNumberStep`, `VarintOfStep`, `ElementsStep`).
- `Agrees(bytes, chunk, from)` says that a buffer holds a chunk at an offset, as far as the buffer goes. Each type is
  read again when the buffer agrees with its encoding: `NumberIsReadAgain`, `VarintIsReadAgain`, `LengthIsReadAgain`,
  `TextIsReadAgain`, `ArrayIsReadAgain`, and `FieldIsReadAgain` for all of them. If the buffer ends within the encoding
  the decoder throws, or the offset is where the encoding would have ended (`ReadsAgain`), which is what a short message is noticed by.
- `Positions`: in the joined buffer every encoding is at the sum of the lengths before it.
- `WireInv`: the encoder's chunks are the encodings of what was written and `size` is their sum (`Encoded`); the decoder's buffer agrees
  with each of them, and with the size field that `toBuffer()` put in (`HandedOver`, `SizeIsUpdated`); the decoder stands at the start of a
  field, and all that it read is right, unless its offset is already beyond the end (`Walked`).

`MessagesProofs`: `RequestsAndAnswersCorrect`, `MessagesAreUnderstood` whatever version a request asks for and the broker answers in: every request is whole,
and an answer in the parser's version is read as it was written. Texts, numbers of brokers,
partitions and replicas are any of 16 bits (`MessagesAssumption`), as the fields of the protocol that hold lengths of
texts are; an element of an array has its position for a name. A request, and an answer, is about two topics at most, the bound of the module.

- A message is a sequence of fields, and all lemmas are about such sequences. `FieldBytes` and `Payloads` are what is
  written of them and what is to be read, and both respect concatenation (`FieldsJoined`, with `IsConcatenation` saying
  which bytes make a concatenation).
- `There` says that a buffer has the fields at the place where a parser stands, `After` is the place behind them with
  what was read; `FieldIsRead`, from `FieldIsReadAgain` of `WireProofs`, takes a parser from the one to the other, and `FieldsAreRead` does so
  for several fields.
- An array is its count and its elements. The parsers pass an operator to the loop, of which no lemma can speak, so each of the
  loops (`RowsAreRead`, `PartitionLoop`, `TopicLoop`) is stated by itself; what they share are `ElementsAreThere` and `Walk`, the
  places of a loop, with `SameSteps`: two functions that go on in the same way from the same start are the same. A count is
  not larger than the buffer since no element is empty (`PiecesCount`). `PartitionIsRead`, `TopicIsRead`, `MetadataIsParsed` and `ApiVersionsIsParsed` put the
  arrays and fields together in the order of the parsers.
- The buffers of requests are as long as their fields, or longer with zeros behind (`Padded`): `HeaderIsWritten`,
  `ApiVersionsIsWritten`, `MetadataIsWritten`, where `NamesAreCounted` has the sum of `MetadataRequest.encode`.
- An answer in another version may be read as anything, also as versions that no broker has. `NewestIsOfInt16`: whatever the bytes, the version that
  the next request asks for has 16 bits, as each number that the loop of `ParseApiVersions` reads behind the count does (`RangesKeepTrack`).
- `MessagesInv`: a request that waits is the one that was written (`RequestNow`), which is read as it should be (`RequestIsWhole`), and the answer on its
  way is one that its parser reads (`ParsedAlike`), so that each parse is of what the broker wrote.

Proved and in no run, as another property of the run says as much: `ConnectTimerIsCurrent` (with `FieldsCorrect`),
`KnownHasPartitions` and `CoordinatorIsKnown` (with `ClusterCorrect`).

Only model-checked: liveness (`RequestsSettle`, `ConnectSettles`, `RefreshEnds`, `CallsSettle`, `AdminCallsSettle`), which the prover does
not reach. `TimedCorrect`, `CleanCorrect`, `BufferCorrect` and `QuietCorrect` state single
conjuncts of the theorems above. With split responses `AnswersMatch` fails.

## What could follow

- NetworkClient composed with ClusterMetadata: the leader it acts on, and the responses of
  a cluster whose brokers come and go. The client keeps of the metadata only what it acts on.
- `MessagesAreUnderstood` proved for any number of topics: the sizes added up for two of them would be bounded by induction.

## Not modelled

- Floating point numbers, and `writeBuffer`, `peek` and `skip` of Encoder and Decoder. Numbers of 64 bits are
  checked with values that fit into 32; the proofs have no such bound.
- `getApiVersion` and `supportsApiVersion` of NetworkClient, which read the table that `Messages` fills; nothing
  in `src/` calls them.
- Serdes: total functions of one value, without state; `null` passes through them.
- `commitSync`, `commitAsync`, `seek*` and `position` of the consumer, which check, wait or
  emit and change no state.
- The choice of a partition by the producer and the metadata of records; entries of configurations and
  descriptions of topics in admin results.
- TLS options and the choice of socket class; metrics events; log messages; the backoff
  settings, which no code reads; errors and the table from codes to classes, which have no
  state (the distinction NetworkClient makes, DisconnectedError or not, is in its model);
  configuration and record types. The retry policy and
  the transactions named in the project plan have no source.

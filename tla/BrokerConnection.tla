-------------------------- MODULE BrokerConnection --------------------------
(***************************************************************************)
(* One BrokerConnection object (src/network/BrokerConnection.ts): the      *)
(* client side of a TCP connection to one Kafka broker, which multiplexes  *)
(* requests by correlation id over a socket it replaces at every connect.  *)
(*                                                                         *)
(* Node runs one handler at a time, to its end, so every action below is   *)
(* one whole handler: a public method, a timer callback, a callback of     *)
(* write(), or the listener of one socket event.  disconnect() is declared *)
(* async but awaits nothing, so it is atomic too and its state CLOSING is  *)
(* never seen by another handler.  A promise is the state its caller sees. *)
(*                                                                         *)
(* What the object shares between attempts (its state, its socket field,   *)
(* its timers, its receive buffer) is acted on by the listeners of every   *)
(* socket it ever created: disconnect() drops the socket without removing  *)
(* its listeners, so an earlier socket keeps delivering its events here.   *)
(***************************************************************************)
EXTENDS Naturals, FiniteSets

CONSTANTS
    Sockets,       \* the net.Socket objects, reused once closed and forgotten
    Requests,      \* the calls of send(), reused once settled
    Joiners,       \* callers of connect() that find an attempt under way
    NoSocket,      \* null, as a socket
    NoRequest,     \* no request: a free correlation id, no answer
    Mixed,         \* bytes of several streams, or of the middle of a frame
    IdModulus,     \* correlation ids are 0 .. IdModulus-1 (2147483647 in the code)
    OwnerListens,  \* the owner has attached an 'error' listener that returns
    SplitFrames    \* TCP may deliver a response in several 'data' events

ASSUME ConnectionAssumption ==
    /\ NoSocket \notin Sockets
    /\ Mixed \notin Sockets
    /\ NoRequest \notin Requests
    /\ IdModulus \in Nat \ {0}
    /\ OwnerListens \in BOOLEAN
    /\ SplitFrames \in BOOLEAN

VARIABLES
    \* The fields of the object.
    state,                  \* ConnectionState
    socket,                 \* the socket of the latest attempt, or NoSocket
    connectionTimeout,      \* the socket whose attempt's timer is armed
    requestTimeoutInterval, \* the interval the object holds a handle on runs
    correlationIdCounter,
    inFlight,               \* inFlightRequests: correlation id -> request
    buffer,                 \* whose incomplete frame is kept
    \* What its callers hold.
    attempt,                \* the promise of the connect() that made the socket
    joiner,                 \* the promise and 'error' listener of a joining connect()
    req,                    \* the promise of send()
    reqId,                  \* the correlation id drawn for the request
    answer,                 \* the request whose response resolved this one
    \* The runtime.
    phase,                  \* the life of a socket
    listening,              \* sockets that still have their listeners
    idleArmed,              \* sockets whose idle timer has not fired
    wire,                   \* requests written, not yet answered or failed
    leaked,                 \* some interval runs that no field refers to
    alive,                  \* no exception was left uncaught, no loop spins
    \* History.
    younger                 \* how many ids were drawn since the one of a request

fields   == <<state, socket, connectionTimeout, requestTimeoutInterval>>
requests == <<req, reqId, answer>>
ids      == <<correlationIdCounter, younger>>
network  == <<phase, listening, idleArmed, wire>>
vars     == <<fields, ids, inFlight, buffer, attempt, joiner, requests, network,
              leaked, alive>>

Ids == 0 .. IdModulus - 1

TypeOK ==
    /\ state \in {"DISCONNECTED", "CONNECTING", "CONNECTED"}
    /\ socket \in Sockets \cup {NoSocket}
    /\ connectionTimeout \in Sockets \cup {NoSocket}
    /\ requestTimeoutInterval \in BOOLEAN
    /\ correlationIdCounter \in Ids
    /\ inFlight \in [Ids -> Requests \cup {NoRequest}]
    /\ buffer \in Sockets \cup {NoSocket, Mixed}
    /\ attempt \in [Sockets -> {"none", "pending", "resolved", "rejected"}]
    /\ joiner \in [Joiners -> {"idle", "waiting", "armed"}]
    /\ req \in [Requests -> {"idle", "pending", "overdue", "resolved", "rejected"}]
    /\ reqId \in [Requests -> Ids]
    /\ answer \in [Requests -> Requests \cup {NoRequest}]
    /\ phase \in [Sockets -> {"closed", "connecting", "open", "failing", "gotEnd"}]
    /\ listening \in SUBSET Sockets
    /\ idleArmed \in SUBSET Sockets
    /\ wire \in [Sockets -> SUBSET Requests]
    /\ leaked \in BOOLEAN
    /\ alive \in BOOLEAN
    /\ younger \in [Requests -> Ids]

Init ==
    /\ state = "DISCONNECTED"
    /\ socket = NoSocket
    /\ connectionTimeout = NoSocket
    /\ requestTimeoutInterval = FALSE
    /\ correlationIdCounter = 0
    /\ inFlight = [i \in Ids |-> NoRequest]
    /\ buffer = NoSocket
    /\ attempt = [s \in Sockets |-> "none"]
    /\ joiner = [j \in Joiners |-> "idle"]
    /\ req = [r \in Requests |-> "idle"]
    /\ reqId = [r \in Requests |-> 0]
    /\ answer = [r \in Requests |-> NoRequest]
    /\ phase = [s \in Sockets |-> "closed"]
    /\ listening = {}
    /\ idleArmed = {}
    /\ wire = [s \in Sockets |-> {}]
    /\ leaked = FALSE
    /\ alive = TRUE
    /\ younger = [r \in Requests |-> 0]

-----------------------------------------------------------------------------
(* What the handlers share.                                                *)

isConnected == state = "CONNECTED" /\ socket # NoSocket

Unsettled(r) == req[r] \in {"pending", "overdue"}
Tracked(r) == \E i \in Ids : inFlight[i] = r
OnWire(r) == \E s \in Sockets : r \in wire[s]

\* Waited for, or still to be answered by the broker.
Live(r) == Unsettled(r) \/ OnWire(r)

\* Mutants (names in Mut...) are plausible wrong versions of the definition
\* they precede; the runs are repeated with them and must then fail.
MutIdNotWrapped == correlationIdCounter + 1
MutIdWrapsEarly == (correlationIdCounter + 1) % (IdModulus - 1)

nextCorrelationId == (correlationIdCounter + 1) % IdModulus

\* Settling a promise a second time changes nothing.
Rejected(a, s) == IF a[s] = "pending" THEN [a EXCEPT ![s] = "rejected"] ELSE a
Resolved(a, s) == IF a[s] = "pending" THEN [a EXCEPT ![s] = "resolved"] ELSE a

MutRejectWithoutClear ==
    /\ req' = [r \in Requests |-> IF Tracked(r) THEN "rejected" ELSE req[r]]
    /\ UNCHANGED <<inFlight, reqId, answer>>

\* The loop over inFlightRequests.values() and the clear() behind it.
RejectInFlight ==
    /\ req' = [r \in Requests |-> IF Tracked(r) THEN "rejected" ELSE req[r]]
    /\ inFlight' = [i \in Ids |-> NoRequest]
    /\ UNCHANGED <<reqId, answer>>

MutCloseForgetsRequests ==
    /\ state' = "DISCONNECTED"
    /\ socket' = NoSocket
    /\ connectionTimeout' = NoSocket
    /\ requestTimeoutInterval' = FALSE
    /\ UNCHANGED <<inFlight, requests>>

\* The state both ways of closing leave behind.
FieldsClosed ==
    /\ state' = "DISCONNECTED"
    /\ socket' = NoSocket
    /\ connectionTimeout' = NoSocket
    /\ requestTimeoutInterval' = FALSE

CloseFields == FieldsClosed /\ RejectInFlight

MutDisconnectOnlyConnected ==
    IF ~isConnected
    THEN UNCHANGED <<fields, inFlight, requests>>
    ELSE CloseFields

\* disconnect(): the socket is ended and forgotten but keeps its listeners.
disconnect ==
    IF state = "DISCONNECTED"
    THEN UNCHANGED <<fields, inFlight, requests>>
    ELSE CloseFields

\* onDisconnect(): the listeners removed are those of the CURRENT socket,
\* whichever socket's event brought us here.
onDisconnect ==
    /\ CloseFields
    /\ listening' = listening \ {socket}

\* emit('error') throws when nobody listens, and the process dies of it.
ErrorIsHeard == OwnerListens \/ \E j \in Joiners : joiner[j] # "idle"

\* onError(): once() listeners are consumed, then the connection is closed.
onError ==
    IF ErrorIsHeard
    THEN /\ joiner' = [j \in Joiners |-> "idle"]
         /\ disconnect
         /\ UNCHANGED alive
    ELSE /\ alive' = FALSE
         /\ UNCHANGED <<joiner, fields, inFlight, requests>>

MutErrorDoesNotReject(s) == UNCHANGED attempt

\* The reject() that follows onError in a handler is not reached by a throw.
RejectAttemptAfterError(s) ==
    attempt' = IF ErrorIsHeard THEN Rejected(attempt, s) ELSE attempt

-----------------------------------------------------------------------------
(* connect(), disconnect() and the timer of the attempt.                   *)

MutCounterPerConnection(s) ==
    /\ alive
    /\ state = "DISCONNECTED"
    /\ phase[s] = "closed" /\ wire[s] = {} /\ buffer # s
    /\ attempt[s] # "pending"
    /\ state' = "CONNECTING"
    /\ socket' = s
    /\ connectionTimeout' = s
    /\ correlationIdCounter' = 0
    /\ attempt' = [attempt EXCEPT ![s] = "pending"]
    /\ phase' = [phase EXCEPT ![s] = "connecting"]
    /\ listening' = listening \cup {s}
    /\ idleArmed' = idleArmed \cup {s}
    /\ UNCHANGED <<requestTimeoutInterval, younger, inFlight, buffer, joiner, requests,
                   wire, leaked, alive>>

\* connect() when DISCONNECTED.  A socket object is only used again when
\* nothing in the system refers to its former life.
StartConnect(s) ==
    /\ alive
    /\ state = "DISCONNECTED"
    /\ phase[s] = "closed" /\ wire[s] = {} /\ buffer # s
    /\ attempt[s] # "pending"
    /\ state' = "CONNECTING"
    /\ socket' = s
    /\ connectionTimeout' = s
    /\ attempt' = [attempt EXCEPT ![s] = "pending"]
    /\ phase' = [phase EXCEPT ![s] = "connecting"]
    /\ listening' = listening \cup {s}
    /\ idleArmed' = idleArmed \cup {s}
    /\ UNCHANGED <<requestTimeoutInterval, ids, inFlight, buffer, joiner, requests,
                   wire, leaked, alive>>

\* net.connect() or tls.connect() throws: the new promise rejects, the state
\* stays CONNECTING, and there is no socket and no timer.  It throws of the
\* configuration (a port that is not a number), so before any attempt has
\* made a socket.
ConnectThrows ==
    /\ alive
    /\ state = "DISCONNECTED"
    /\ \A s \in Sockets : attempt[s] = "none"
    /\ state' = "CONNECTING"
    /\ UNCHANGED <<socket, connectionTimeout, requestTimeoutInterval, ids, inFlight,
                   buffer, attempt, joiner, requests, network, leaked, alive>>

\* connect() when CONNECTING: two once() listeners and no timer of its own.
JoinConnect(j) ==
    /\ alive
    /\ state = "CONNECTING"
    /\ joiner[j] = "idle"
    /\ joiner' = [joiner EXCEPT ![j] = "waiting"]
    /\ UNCHANGED <<fields, ids, inFlight, buffer, attempt,
                   requests, network, leaked, alive>>

\* The callback of the attempt's setTimeout.
ConnectTimeout(s) ==
    /\ alive
    /\ connectionTimeout = s
    /\ onError
    /\ RejectAttemptAfterError(s)
    /\ UNCHANGED <<ids, buffer, network, leaked>>

\* The owner calls disconnect().
Disconnect ==
    /\ alive
    /\ state # "DISCONNECTED"
    /\ disconnect
    /\ UNCHANGED <<ids, buffer, attempt, joiner, network, leaked, alive>>

-----------------------------------------------------------------------------
(* The listeners of a socket, current or not.                              *)

\* startRequestTimeoutTimer(): a handle that is overwritten is lost.
startRequestTimeoutTimer ==
    /\ leaked' = (leaked \/ requestTimeoutInterval)
    /\ requestTimeoutInterval' = TRUE

SocketConnected(s) ==
    /\ alive
    /\ phase[s] = "connecting"
    /\ phase' = [phase EXCEPT ![s] = "open"]
    /\ IF s \in listening
       THEN /\ connectionTimeout' = NoSocket
            /\ state' = "CONNECTED"
            /\ startRequestTimeoutTimer
            /\ joiner' = [j \in Joiners |->
                            IF joiner[j] = "waiting" THEN "armed" ELSE joiner[j]]
            /\ attempt' = Resolved(attempt, s)
       ELSE UNCHANGED <<connectionTimeout, state, requestTimeoutInterval, leaked,
                        joiner, attempt>>
    /\ UNCHANGED <<socket, ids, inFlight, buffer, requests,
                   listening, idleArmed, wire, alive>>

\* Some of the writes the socket still held will have their callbacks fail;
\* the others were flushed, and no response to them can arrive any more.
LoseWire(s) ==
    \E failed \in SUBSET wire[s] : wire' = [wire EXCEPT ![s] = failed]

\* 'error', with the 'close' that follows it in the same turn: the close
\* listener ignores a close that follows an error.
SocketError(s) ==
    /\ alive
    /\ phase[s] # "closed"
    /\ phase' = [phase EXCEPT ![s] = "closed"]
    /\ LoseWire(s)
    /\ IF s \in listening
       THEN onError /\ RejectAttemptAfterError(s)
       ELSE /\ alive' = FALSE
            /\ UNCHANGED <<joiner, fields, inFlight, requests, attempt>>
    /\ UNCHANGED <<ids, buffer, listening, idleArmed, leaked>>

\* 'end': the broker closed its side.
SocketEnd(s) ==
    /\ alive
    /\ phase[s] = "open"
    /\ phase' = [phase EXCEPT ![s] = "gotEnd"]
    /\ IF s \in listening
       THEN onDisconnect /\ attempt' = Rejected(attempt, s)
       ELSE UNCHANGED <<fields, inFlight, requests, listening, attempt>>
    /\ UNCHANGED <<ids, buffer, joiner, idleArmed, wire, leaked, alive>>

\* 'close' with hadError false, once both sides have ended.
SocketClose(s) ==
    /\ alive
    /\ phase[s] = "gotEnd"
    /\ phase' = [phase EXCEPT ![s] = "closed"]
    /\ LoseWire(s)
    /\ IF s \in listening
       THEN onDisconnect
       ELSE UNCHANGED <<fields, inFlight, requests, listening>>
    /\ UNCHANGED <<ids, buffer, attempt, joiner, idleArmed, leaked, alive>>

\* 'timeout': no traffic for socketTimeout.  The listener is a once() one
\* and it does not reject the promise of connect().
SocketTimeout(s) ==
    /\ alive
    /\ phase[s] # "closed"
    /\ s \in idleArmed \cap listening
    /\ idleArmed' = idleArmed \ {s}
    /\ onError
    /\ UNCHANGED <<ids, buffer, attempt, phase, listening, wire, leaked>>

MutResponsesKeepEntries(from) ==
    /\ req' = [r \in Requests |->
                 IF reqId[r] \in DOMAIN from /\ inFlight[reqId[r]] = r
                 THEN "resolved" ELSE req[r]]
    /\ answer' = [r \in Requests |->
                    IF reqId[r] \in DOMAIN from /\ inFlight[reqId[r]] = r
                    THEN from[reqId[r]] ELSE answer[r]]
    /\ UNCHANGED <<inFlight, reqId>>

\* The calls found under these ids.
Found(K) == {r \in Requests : reqId[r] \in K /\ inFlight[reqId[r]] = r}

\* handleResponse() of the frames of one 'data' event: from[i] is the request
\* the broker wrote the frame with id i for.  An id that is not in flight is
\* ignored.
handleResponses(from) ==
    /\ inFlight' = [i \in Ids |-> IF i \in DOMAIN from THEN NoRequest ELSE inFlight[i]]
    /\ req' = [r \in Requests |-> IF r \in Found(DOMAIN from) THEN "resolved" ELSE req[r]]
    /\ answer' = [r \in Requests |->
                    IF r \in Found(DOMAIN from) THEN from[reqId[r]] ELSE answer[r]]
    /\ UNCHANGED reqId

\* 'data' that completes the frames for the requests R, the buffer holding
\* nothing or the beginning of the first of them, and may end inside another.
\* Of two frames with one id the first would get the entry.
IncomingFrames(s) ==
    /\ alive
    /\ phase[s] = "open" /\ s \in listening
    /\ buffer \in {NoSocket, s}
    /\ \E R \in SUBSET wire[s] \ {{}} :
         /\ wire' = [wire EXCEPT ![s] = @ \ R]
         /\ buffer' \in {NoSocket} \cup (IF SplitFrames /\ R # wire[s] THEN {s} ELSE {})
         /\ \E from \in [{reqId[r] : r \in R} -> R] :
              /\ \A i \in DOMAIN from : reqId[from[i]] = i
              /\ handleResponses(from)
    /\ UNCHANGED <<fields, ids, attempt, joiner, phase, listening, idleArmed,
                   leaked, alive>>

\* 'data' that ends inside a frame: the bytes wait in the buffer.
IncomingPartial(s) ==
    /\ alive
    /\ SplitFrames
    /\ phase[s] = "open" /\ s \in listening /\ wire[s] # {}
    /\ buffer = NoSocket
    /\ buffer' = s
    /\ UNCHANGED <<fields, ids, inFlight, attempt, joiner, requests, network,
                   leaked, alive>>

\* onError() in the middle of such an event: the calls found under K have
\* their frames, the others are rejected.  A closed object has neither.
CloseAfterResponses(K) ==
    /\ FieldsClosed
    /\ inFlight' = [i \in Ids |-> NoRequest]
    /\ req' = [r \in Requests |->
                 IF r \in Found(K) THEN "resolved"
                 ELSE IF Tracked(r) THEN "rejected" ELSE req[r]]
    /\ answer' = [r \in Requests |-> IF r \in Found(K) THEN NoRequest ELSE answer[r]]
    /\ UNCHANGED reqId
    /\ joiner' = [j \in Joiners |-> "idle"]

\* 'data' appended to bytes of another socket.  The frames that are cut out
\* of the mixture bear any ids K, and one of them may not decode, which is an
\* error.  What is left may again be out of step (Mixed, when it holds no
\* bytes too) or, by luck, end with the data.  The loop may also never come
\* back: an error nobody hears is thrown, and a size below zero takes the
\* index back, to turn for ever or to read before the first byte, which is
\* thrown too; nobody learns any more what was settled before.
IncomingMisframed(s) ==
    /\ alive
    /\ phase[s] = "open" /\ s \in listening /\ wire[s] # {}
    /\ buffer \notin {NoSocket, s}
    /\ \/ /\ \E R \in SUBSET wire[s] \ {{}} : wire' = [wire EXCEPT ![s] = @ \ R]
          /\ buffer' \in {NoSocket, Mixed}
          /\ \E K \in SUBSET Ids :
               \/ handleResponses([i \in K |-> NoRequest]) /\ UNCHANGED <<fields, joiner>>
               \/ ErrorIsHeard /\ CloseAfterResponses(K)
          /\ UNCHANGED alive
       \/ /\ alive' = FALSE
          /\ UNCHANGED <<wire, buffer, inFlight, requests, fields, joiner>>
    /\ UNCHANGED <<ids, attempt, phase, listening, idleArmed, leaked>>

-----------------------------------------------------------------------------
(* send(), its write callback and the timers of the requests.              *)

\* A bound on the environment, not a guard of the code: fewer ids than there
\* are (2147483647) are drawn while a request is live.
WithinIdWindow == \A r \in Requests : Live(r) => younger[r] + 1 < IdModulus

\* An id is drawn for r.
DrawId(r) ==
    /\ WithinIdWindow
    /\ correlationIdCounter' = nextCorrelationId
    /\ younger' = [q \in Requests |-> IF Live(q) /\ q # r THEN younger[q] + 1 ELSE 0]

\* A request identity is a new call: nothing of its former use remains.
Fresh(r) == ~Live(r)

\* send() when not connected throws before it draws an id.
SendNotConnected(r) ==
    /\ alive
    /\ Fresh(r)
    /\ ~isConnected
    /\ req' = [req EXCEPT ![r] = "rejected"]
    /\ answer' = [answer EXCEPT ![r] = NoRequest]
    /\ UNCHANGED <<fields, ids, inFlight, buffer, attempt, joiner,
                   reqId, network, leaked, alive>>

\* send() of more than maxRequestSize throws after it drew an id.
SendTooLarge(r) ==
    /\ alive
    /\ Fresh(r)
    /\ isConnected
    /\ DrawId(r)
    /\ req' = [req EXCEPT ![r] = "rejected"]
    /\ answer' = [answer EXCEPT ![r] = NoRequest]
    /\ UNCHANGED <<fields, inFlight, buffer, attempt, joiner,
                   reqId, network, leaked, alive>>

Send(r) ==
    /\ alive
    /\ Fresh(r)
    /\ isConnected
    /\ DrawId(r)
    /\ inFlight' = [inFlight EXCEPT ![nextCorrelationId] = r]
    /\ req' = [req EXCEPT ![r] = "pending"]
    /\ reqId' = [reqId EXCEPT ![r] = nextCorrelationId]
    /\ answer' = [answer EXCEPT ![r] = NoRequest]
    /\ wire' = [wire EXCEPT ![socket] = @ \cup {r}]
    /\ UNCHANGED <<fields, buffer, attempt, joiner,
                   phase, listening, idleArmed, leaked, alive>>

\* The callback of write() with an error: it comes before the 'error' event
\* of the socket or after the socket closed, whatever has become of the
\* request and of the connection meanwhile.
WriteError(s, r) ==
    /\ alive
    /\ phase[s] # "connecting" /\ r \in wire[s]
    /\ phase' = [phase EXCEPT ![s] = IF @ = "closed" THEN @ ELSE "failing"]
    /\ wire' = [wire EXCEPT ![s] = @ \ {r}]
    /\ inFlight' = [inFlight EXCEPT ![reqId[r]] = NoRequest]
    /\ req' = [req EXCEPT ![r] = IF Unsettled(r) THEN "rejected" ELSE @]
    /\ UNCHANGED <<fields, ids, buffer, attempt, joiner, reqId, answer,
                   listening, idleArmed, leaked, alive>>

\* The age of a request passes its timeout.
Expire(r) ==
    /\ alive
    /\ req[r] = "pending"
    /\ req' = [req EXCEPT ![r] = "overdue"]
    /\ UNCHANGED <<fields, ids, inFlight, buffer, attempt, joiner,
                   reqId, answer, network, leaked, alive>>

MutLateInverted(r) == Tracked(r) /\ req[r] = "pending"

\* The callback of an interval, held or leaked: every request in flight that
\* is overdue is deleted and rejected.
Late(r) == Tracked(r) /\ req[r] = "overdue"

Tick ==
    /\ alive
    /\ requestTimeoutInterval \/ leaked
    /\ \E r \in Requests : Late(r)
    /\ inFlight' = [i \in Ids |->
                      IF \E r \in Requests : Late(r) /\ inFlight[i] = r
                      THEN NoRequest ELSE inFlight[i]]
    /\ req' = [r \in Requests |-> IF Late(r) THEN "rejected" ELSE req[r]]
    /\ UNCHANGED <<fields, ids, buffer, attempt, joiner,
                   reqId, answer, network, leaked, alive>>

-----------------------------------------------------------------------------
SocketStep(s) ==
    \/ SocketConnected(s) \/ SocketError(s) \/ SocketEnd(s) \/ SocketClose(s)
    \/ SocketTimeout(s) \/ IncomingPartial(s) \/ IncomingMisframed(s)
    \/ IncomingFrames(s)
    \/ \E r \in Requests : WriteError(s, r)

RequestStep(r) ==
    SendNotConnected(r) \/ SendTooLarge(r) \/ Send(r) \/ Expire(r)

Next ==
    \/ \E s \in Sockets : StartConnect(s) \/ ConnectTimeout(s) \/ SocketStep(s)
    \/ \E j \in Joiners : JoinConnect(j)
    \/ \E r \in Requests : RequestStep(r)
    \/ ConnectThrows
    \/ Tick
    \/ Disconnect

Spec == Init /\ [][Next]_vars

(* Timers fire, clocks advance, and the kernel does not leave a connect()   *)
(* undecided.                                                              *)
HandshakeEnds(s) == phase[s] = "connecting" /\ (SocketConnected(s) \/ SocketError(s))

Fairness ==
    /\ WF_vars(Tick)
    /\ \A r \in Requests : WF_vars(Expire(r))
    /\ \A s \in Sockets : WF_vars(ConnectTimeout(s)) /\ WF_vars(HandshakeEnds(s))

FairSpec == Spec /\ Fairness

-----------------------------------------------------------------------------
(* Safety.                                                                 *)

\* The promises of send() and the map inFlightRequests agree through every
\* order of answers, write errors, timeouts, disconnections and events of
\* older sockets: a promise its caller still waits for is in the map under
\* the id it was sent with, so something can still settle it, and the map
\* holds nothing else.
InFlightExact ==
    /\ \A r \in Requests : Unsettled(r) => inFlight[reqId[r]] = r
    /\ \A i \in Ids : inFlight[i] # NoRequest =>
           /\ Unsettled(inFlight[i])
           /\ reqId[inFlight[i]] = i

\* Whatever is in flight has a socket and a running sweep: no way of losing
\* the connection leaves a request behind that no timer looks at.
InFlightIsTimed ==
    (\E r \in Requests : Tracked(r)) => isConnected /\ requestTimeoutInterval

\* The connection timer is armed only for the socket the object refers to,
\* while it connects and its caller still waits: a timer that outlived its
\* attempt would close the connection of a later one.
ConnectTimerIsCurrent ==
    connectionTimeout # NoSocket =>
        /\ state = "CONNECTING"
        /\ socket = connectionTimeout
        /\ attempt[socket] = "pending"

\* The socket the object refers to has not ended and is still listened to,
\* although the listeners of other sockets write the same fields and
\* onDisconnect removes listeners of a socket it was not called for.
CurrentSocketLive ==
    alive /\ socket # NoSocket =>
        phase[socket] \in {"connecting", "open", "failing"} /\ socket \in listening

\* Two calls that are waited for, or that the broker may still answer, never
\* share a correlation id, across connections too: the counter goes on where
\* the last connection left it, comes round at the end of the ids, and is
\* moved by every draw, also by one whose request is refused.
LiveIdsDistinct ==
    \A r1, r2 \in Requests :
        r1 # r2 /\ Live(r1) /\ Live(r2) => reqId[r1] # reqId[r2]

\* A disconnected object keeps no socket, no timer and no request, whichever
\* of the two ways of closing ran and however often.
DisconnectedIsClean ==
    state = "DISCONNECTED" =>
        /\ socket = NoSocket
        /\ connectionTimeout = NoSocket
        /\ ~requestTimeoutInterval
        /\ \A i \in Ids : inFlight[i] = NoRequest

\* A response settles the request it answers: not the one that took the place
\* of a timed-out request, nor one of a later connection.  "Handle a complete
\* response message" (handleResponse).  True of responses that arrive whole;
\* the bytes of one that a lost connection cut off are joined with those of
\* the next connection, which the run Connection_buffer shows.
AnswersMatch ==
    \A r \in Requests : req[r] = "resolved" => answer[r] = r

(* Liveness.                                                               *)

\* send() settles: by a response, an error or the sweep, also when the
\* broker never answers and whatever happens to the connection.
RequestsSettle ==
    \A r \in Requests : Unsettled(r) ~> ~Unsettled(r) \/ ~alive

\* connect() settles within connectionTimeout.  True of sockets that never
\* overlap; the run Connection_reconnect_hangs shows what else can happen.
ConnectSettles ==
    \A s \in Sockets : attempt[s] = "pending" ~> attempt[s] # "pending" \/ ~alive

-----------------------------------------------------------------------------
(* The promise to callers of send(): RequestChannel.                       *)

channelStatus ==
    [r \in Requests |-> IF req[r] = "overdue" THEN "pending" ELSE req[r]]

Channel == INSTANCE RequestChannel WITH NoAnswer <- NoRequest, status <- channelStatus

\* A call settles once, with its own response or an error, whatever the
\* sockets, the sweep and the callbacks of write() do.
ChannelSpec == Channel!Spec
=============================================================================

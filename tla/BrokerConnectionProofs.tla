----------------------- MODULE BrokerConnectionProofs -----------------------
(***************************************************************************)
(* The invariants of BrokerConnection hold of every number of sockets,     *)
(* requests and callers and of every id modulus.  TypeOK is inductive by   *)
(* itself; RequestsInv relates the map of in-flight requests, the promises *)
(* and the wire, and says where the ids of live requests stand to the      *)
(* counter; FieldsInv relates the fields of the object to each other and   *)
(* to the current socket.  With them and BufferEmpty the connection        *)
(* implements the abstract RequestChannel.                                 *)
(***************************************************************************)
EXTENDS BrokerConnection, TLAPS

-----------------------------------------------------------------------------
(* Types.                                                                  *)

\* The id drawn for a request is one of the ids.
LEMMA NextIdInIds ==
    ASSUME correlationIdCounter \in Ids
    PROVE  nextCorrelationId \in Ids
BY ConnectionAssumption DEF Ids, nextCorrelationId

\* A draw moves the counter and ages the live ids by less than a whole round.
LEMMA DrawType ==
    ASSUME TypeOK, NEW r \in Requests, DrawId(r)
    PROVE  correlationIdCounter' \in Ids /\ younger' \in [Requests -> Ids]
<1>1. correlationIdCounter' \in Ids
  BY NextIdInIds DEF TypeOK, DrawId
<1>2. 0 \in Ids
  BY ConnectionAssumption DEF Ids
<1>3. ASSUME NEW q \in Requests, Live(q)
      PROVE  younger[q] + 1 \in Ids
  <2>1. younger[q] \in Ids /\ younger[q] + 1 < IdModulus
    BY <1>3 DEF TypeOK, DrawId, WithinIdWindow
  <2> QED BY <2>1, ConnectionAssumption DEF Ids
<1> QED BY <1>1, <1>2, <1>3 DEF DrawId

\* What is shared by all handlers keeps its type, one helper after another.
LEMMA RejectInFlightType ==
    ASSUME TypeOK, RejectInFlight
    PROVE  /\ inFlight' \in [Ids -> Requests \cup {NoRequest}]
           /\ req' \in [Requests -> {"idle", "pending", "overdue", "resolved", "rejected"}]
           /\ reqId' \in [Requests -> Ids]
           /\ answer' \in [Requests -> Requests \cup {NoRequest}]
BY DEF TypeOK, RejectInFlight

\* The part of TypeOK that closing can disturb.
FieldsTyped ==
    /\ state \in {"DISCONNECTED", "CONNECTING", "CONNECTED"}
    /\ socket \in Sockets \cup {NoSocket}
    /\ connectionTimeout \in Sockets \cup {NoSocket}
    /\ requestTimeoutInterval \in BOOLEAN
    /\ inFlight \in [Ids -> Requests \cup {NoRequest}]
    /\ req \in [Requests -> {"idle", "pending", "overdue", "resolved", "rejected"}]
    /\ reqId \in [Requests -> Ids]
    /\ answer \in [Requests -> Requests \cup {NoRequest}]

\* Closing keeps the types.
LEMMA CloseFieldsType ==
    ASSUME TypeOK, CloseFields
    PROVE  FieldsTyped'
BY RejectInFlightType DEF CloseFields, FieldsClosed, FieldsTyped

\* So does disconnect(), which may do nothing.
LEMMA disconnectType ==
    ASSUME TypeOK, disconnect
    PROVE  FieldsTyped'
<1>1. CASE CloseFields
  BY <1>1, CloseFieldsType
<1>2. CASE UNCHANGED <<fields, inFlight, requests>>
  BY <1>2 DEF TypeOK, FieldsTyped, fields, requests
<1> QED BY <1>1, <1>2 DEF disconnect

\* onError() closes, or ends the process.
LEMMA onErrorType ==
    ASSUME TypeOK, onError
    PROVE  /\ FieldsTyped'
           /\ joiner' \in [Joiners -> {"idle", "waiting", "armed"}]
           /\ alive' \in BOOLEAN
<1>1. CASE disconnect /\ UNCHANGED alive /\ joiner' = [j \in Joiners |-> "idle"]
  BY <1>1, disconnectType DEF TypeOK
<1>2. CASE alive' = FALSE /\ UNCHANGED <<joiner, fields, inFlight, requests>>
  BY <1>2 DEF TypeOK, FieldsTyped, fields, requests
<1> QED BY <1>1, <1>2 DEF onError

\* Responses free their ids and resolve the calls found under them.
LEMMA ResponsesType ==
    ASSUME TypeOK, NEW K \in SUBSET Ids, NEW from \in [K -> Requests \cup {NoRequest}],
           handleResponses(from)
    PROVE  /\ inFlight' \in [Ids -> Requests \cup {NoRequest}]
           /\ req' \in [Requests -> {"idle", "pending", "overdue", "resolved", "rejected"}]
           /\ reqId' \in [Requests -> Ids]
           /\ answer' \in [Requests -> Requests \cup {NoRequest}]
<1>1. DOMAIN from = K /\ \A i \in K : from[i] \in Requests \cup {NoRequest}
  OBVIOUS
<1>2. \A r \in Found(K) : reqId[r] \in K
  BY DEF Found
<1>3. answer' \in [Requests -> Requests \cup {NoRequest}]
  BY <1>1, <1>2 DEF TypeOK, handleResponses
<1> QED BY <1>1, <1>3 DEF TypeOK, handleResponses

\* So does the end of an event in the middle of which the object closes.
LEMMA CloseAfterType ==
    ASSUME TypeOK, NEW K \in SUBSET Ids, CloseAfterResponses(K)
    PROVE  FieldsTyped' /\ joiner' \in [Joiners -> {"idle", "waiting", "armed"}]
BY DEF TypeOK, CloseAfterResponses, FieldsClosed, FieldsTyped

\* Settling the promise of connect() leaves it a promise.
LEMMA AttemptType ==
    ASSUME TypeOK, NEW s \in Sockets
    PROVE  /\ Rejected(attempt, s) \in [Sockets -> {"none", "pending", "resolved", "rejected"}]
           /\ Resolved(attempt, s) \in [Sockets -> {"none", "pending", "resolved", "rejected"}]
BY DEF TypeOK, Rejected, Resolved

\* Every handler leaves the fields, the promises and the sockets in their types,
\* for any numbers of sockets, requests and callers of connect().
THEOREM TypeCorrect == Spec => []TypeOK
<1>1. Init => TypeOK
  <2> SUFFICES ASSUME Init PROVE TypeOK
    OBVIOUS
  <2>1. 0 \in Ids
    BY ConnectionAssumption DEF Ids
  <2>2. /\ reqId \in [Requests -> Ids]
        /\ inFlight \in [Ids -> Requests \cup {NoRequest}]
        /\ correlationIdCounter \in Ids
    BY <2>1 DEF Init
  <2>3. /\ younger \in [Requests -> Ids]
        /\ attempt \in [Sockets -> {"none", "pending", "resolved", "rejected"}]
        /\ phase \in [Sockets -> {"closed", "connecting", "open", "failing", "gotEnd"}]
        /\ wire \in [Sockets -> SUBSET Requests]
        /\ joiner \in [Joiners -> {"idle", "waiting", "armed"}]
    BY <2>1 DEF Init
  <2>4. /\ req \in [Requests -> {"idle", "pending", "overdue", "resolved", "rejected"}]
        /\ answer \in [Requests -> Requests \cup {NoRequest}]
    BY DEF Init
  <2> QED
    BY <2>2, <2>3, <2>4 DEF Init, TypeOK
<1>2. TypeOK /\ [Next]_vars => TypeOK'
  <2> SUFFICES ASSUME TypeOK, [Next]_vars
               PROVE  TypeOK'
    OBVIOUS
  <2>1. ASSUME NEW s \in Sockets, StartConnect(s)
        PROVE  TypeOK'
    BY <2>1 DEF TypeOK, StartConnect, requests, ids
  <2>2. ASSUME NEW s \in Sockets, ConnectTimeout(s)
        PROVE  TypeOK'
    <3>1. attempt' \in [Sockets -> {"none", "pending", "resolved", "rejected"}]
      BY <2>2, AttemptType DEF TypeOK, ConnectTimeout, RejectAttemptAfterError
    <3> QED
      BY <2>2, <3>1, onErrorType DEF TypeOK, ConnectTimeout, FieldsTyped, network, ids
  <2>3. ASSUME NEW s \in Sockets, SocketConnected(s)
        PROVE  TypeOK'
    <3>1. CASE s \in listening
      <4>1. leaked' \in BOOLEAN /\ requestTimeoutInterval' \in BOOLEAN
        BY <2>3, <3>1 DEF TypeOK, SocketConnected, startRequestTimeoutTimer
      <4>2. attempt' \in [Sockets -> {"none", "pending", "resolved", "rejected"}]
        BY <2>3, <3>1, AttemptType DEF SocketConnected
      <4>3. joiner' \in [Joiners -> {"idle", "waiting", "armed"}]
        BY <2>3, <3>1 DEF TypeOK, SocketConnected
      <4>4. phase' \in [Sockets -> {"closed", "connecting", "open", "failing", "gotEnd"}]
        BY <2>3 DEF TypeOK, SocketConnected
      <4> QED
        BY <2>3, <3>1, <4>1, <4>2, <4>3, <4>4 DEF TypeOK, SocketConnected, requests, ids
    <3>2. CASE s \notin listening
      BY <2>3, <3>2 DEF TypeOK, SocketConnected, requests, ids
    <3> QED BY <3>1, <3>2
  <2>4. ASSUME NEW s \in Sockets, SocketError(s)
        PROVE  TypeOK'
    <3>1. wire' \in [Sockets -> SUBSET Requests]
      BY <2>4 DEF TypeOK, SocketError, LoseWire
    <3>2. CASE s \in listening
      <4>1. attempt' \in [Sockets -> {"none", "pending", "resolved", "rejected"}]
        BY <2>4, <3>2, AttemptType DEF TypeOK, SocketError, RejectAttemptAfterError
      <4> QED
        BY <2>4, <3>1, <3>2, <4>1, onErrorType DEF TypeOK, SocketError, FieldsTyped, ids
    <3>3. CASE s \notin listening
      BY <2>4, <3>1, <3>3 DEF TypeOK, SocketError, fields, requests, ids
    <3> QED BY <3>2, <3>3
  <2>5. ASSUME NEW s \in Sockets, SocketEnd(s)
        PROVE  TypeOK'
    <3>1. CASE s \in listening
      <4>1. FieldsTyped' /\ listening' \in SUBSET Sockets
        BY <2>5, <3>1, CloseFieldsType DEF TypeOK, SocketEnd, onDisconnect
      <4>2. attempt' \in [Sockets -> {"none", "pending", "resolved", "rejected"}]
        BY <2>5, <3>1, AttemptType DEF SocketEnd
      <4> QED
        BY <2>5, <4>1, <4>2 DEF TypeOK, SocketEnd, FieldsTyped, ids
    <3>2. CASE s \notin listening
      BY <2>5, <3>2 DEF TypeOK, SocketEnd, fields, requests, ids
    <3> QED BY <3>1, <3>2
  <2>6. ASSUME NEW s \in Sockets, SocketClose(s)
        PROVE  TypeOK'
    <3>1. wire' \in [Sockets -> SUBSET Requests]
      BY <2>6 DEF TypeOK, SocketClose, LoseWire
    <3>2. CASE s \in listening
      <4>1. FieldsTyped' /\ listening' \in SUBSET Sockets
        BY <2>6, <3>2, CloseFieldsType DEF TypeOK, SocketClose, onDisconnect
      <4> QED
        BY <2>6, <3>1, <4>1 DEF TypeOK, SocketClose, FieldsTyped, ids
    <3>3. CASE s \notin listening
      BY <2>6, <3>1, <3>3 DEF TypeOK, SocketClose, fields, requests, ids
    <3> QED BY <3>2, <3>3
  <2>7. ASSUME NEW s \in Sockets, SocketTimeout(s)
        PROVE  TypeOK'
    BY <2>7, onErrorType DEF TypeOK, SocketTimeout, FieldsTyped, ids
  <2>8. ASSUME NEW s \in Sockets, IncomingPartial(s)
        PROVE  TypeOK'
    BY <2>8 DEF TypeOK, IncomingPartial, fields, requests, network, ids
  <2>9. ASSUME NEW s \in Sockets, IncomingMisframed(s)
        PROVE  TypeOK'
    <3>1. /\ wire' \in [Sockets -> SUBSET Requests]
          /\ buffer' \in Sockets \cup {NoSocket, Mixed}
          /\ alive' \in BOOLEAN
      BY <2>9 DEF TypeOK, IncomingMisframed
    <3>2. CASE UNCHANGED <<wire, buffer, inFlight, requests, fields, joiner>>
      BY <2>9, <3>1, <3>2 DEF TypeOK, IncomingMisframed, fields, requests, ids
    <3>3. ASSUME NEW K \in SUBSET Ids, handleResponses([i \in K |-> NoRequest]),
                 UNCHANGED <<fields, joiner>>
          PROVE  TypeOK'
      <4>1. [i \in K |-> NoRequest] \in [K -> Requests \cup {NoRequest}]
        OBVIOUS
      <4> QED
        BY <2>9, <3>1, <3>3, <4>1, ResponsesType DEF TypeOK, IncomingMisframed, fields, ids
    <3>4. ASSUME NEW K \in SUBSET Ids, CloseAfterResponses(K)
          PROVE  TypeOK'
      BY <2>9, <3>1, <3>4, CloseAfterType DEF TypeOK, IncomingMisframed, FieldsTyped, ids
    <3> QED BY <2>9, <3>2, <3>3, <3>4 DEF IncomingMisframed
  <2>10. ASSUME NEW s \in Sockets, IncomingFrames(s)
         PROVE  TypeOK'
    <3>1. PICK R \in SUBSET wire[s] :
              /\ wire' = [wire EXCEPT ![s] = @ \ R]
              /\ buffer' \in {NoSocket, s}
              /\ \E from \in [{reqId[r] : r \in R} -> R] : handleResponses(from)
      BY <2>10 DEF IncomingFrames
    <3>2. PICK from \in [{reqId[r] : r \in R} -> R] : handleResponses(from)
      BY <3>1
    <3>3. R \subseteq Requests /\ {reqId[r] : r \in R} \subseteq Ids
      BY DEF TypeOK
    <3>4. from \in [{reqId[r] : r \in R} -> Requests \cup {NoRequest}]
      BY <3>3
    <3> QED
      BY <2>10, <3>1, <3>2, <3>3, <3>4, ResponsesType DEF TypeOK, IncomingFrames, fields, ids
  <2>11. ASSUME NEW s \in Sockets, NEW r \in Requests, WriteError(s, r)
         PROVE  TypeOK'
    BY <2>11 DEF TypeOK, WriteError, fields, ids
  <2>12. ASSUME NEW j \in Joiners, JoinConnect(j)
         PROVE  TypeOK'
    BY <2>12 DEF TypeOK, JoinConnect, fields, requests, network, ids
  <2>13. ASSUME NEW r \in Requests, SendNotConnected(r)
         PROVE  TypeOK'
    BY <2>13 DEF TypeOK, SendNotConnected, fields, network, ids
  <2>14. ASSUME NEW r \in Requests, SendTooLarge(r)
         PROVE  TypeOK'
    BY <2>14, DrawType DEF TypeOK, SendTooLarge, fields, network
  <2>15. ASSUME NEW r \in Requests, Send(r)
         PROVE  TypeOK'
    BY <2>15, DrawType, NextIdInIds DEF TypeOK, Send, isConnected, fields
  <2>16. ASSUME NEW r \in Requests, Expire(r)
         PROVE  TypeOK'
    BY <2>16 DEF TypeOK, Expire, fields, network, ids
  <2>17. CASE Tick
    BY <2>17 DEF TypeOK, Tick, fields, network, ids
  <2>18. CASE Disconnect
    BY <2>18, disconnectType DEF TypeOK, Disconnect, FieldsTyped, network, ids
  <2>20. CASE ConnectThrows
    BY <2>20 DEF TypeOK, ConnectThrows, requests, network, ids
  <2>19. CASE UNCHANGED vars
    BY <2>19 DEF TypeOK, vars, fields, requests, network, ids
  <2> QED
    BY <2>1, <2>2, <2>3, <2>4, <2>5, <2>6, <2>7, <2>8, <2>9, <2>10, <2>11, <2>12,
       <2>13, <2>14, <2>15, <2>16, <2>17, <2>18, <2>19, <2>20
       DEF Next, SocketStep, RequestStep
<1> QED
  BY <1>1, <1>2, PTL DEF Spec

-----------------------------------------------------------------------------
(* The inductive invariant, in two parts that need each other only through *)
(* TypeOK.                                                                 *)

\* Where the ids stand: adding up the draws since a live request's own leads to
\* the counter, by way of one round at most, and no two were drawn at once.
IdsInv ==
    /\ \A r \in Requests : Live(r) =>
           reqId[r] + younger[r] \in {correlationIdCounter, correlationIdCounter + IdModulus}
    /\ \A r1, r2 \in Requests :
           r1 # r2 /\ Live(r1) /\ Live(r2) => younger[r1] # younger[r2]

\* The inductive invariant: where every waiting call is in the map under its id,
\* a fresh id cannot belong to another one, and the other way round.
RequestsInv == InFlightExact /\ IdsInv

\* The counter goes up by one or comes round to 0.
LEMMA NextIdIs ==
    ASSUME correlationIdCounter \in Ids
    PROVE  nextCorrelationId = IF correlationIdCounter + 1 = IdModulus
                               THEN 0 ELSE correlationIdCounter + 1
BY ConnectionAssumption DEF Ids, nextCorrelationId

\* Requests drawn at different times bear different ids: their ages differ by
\* less than a round.
LEMMA IdsDistinct ==
    ASSUME TypeOK, IdsInv
    PROVE  LiveIdsDistinct
<1> SUFFICES ASSUME NEW r1 \in Requests, NEW r2 \in Requests, r1 # r2,
                    Live(r1), Live(r2), reqId[r1] = reqId[r2]
             PROVE  FALSE
  BY DEF LiveIdsDistinct
<1>1. /\ reqId[r1] + younger[r1] \in {correlationIdCounter, correlationIdCounter + IdModulus}
      /\ reqId[r2] + younger[r2] \in {correlationIdCounter, correlationIdCounter + IdModulus}
      /\ younger[r1] # younger[r2]
  BY DEF IdsInv
<1>2. /\ younger[r1] \in 0 .. IdModulus - 1 /\ younger[r2] \in 0 .. IdModulus - 1
      /\ reqId[r1] \in 0 .. IdModulus - 1 /\ correlationIdCounter \in 0 .. IdModulus - 1
      /\ IdModulus \in Nat
  BY ConnectionAssumption DEF TypeOK, Ids
<1> QED BY <1>1, <1>2

\* Within the window the next id is borne by no live request.
LEMMA NextIdIsFree ==
    ASSUME TypeOK, IdsInv, WithinIdWindow, NEW r \in Requests, Live(r)
    PROVE  reqId[r] # nextCorrelationId
<1>1. /\ reqId[r] + younger[r] \in {correlationIdCounter, correlationIdCounter + IdModulus}
      /\ younger[r] + 1 < IdModulus
  BY DEF IdsInv, WithinIdWindow
<1>2. /\ younger[r] \in 0 .. IdModulus - 1
      /\ reqId[r] \in 0 .. IdModulus - 1
      /\ correlationIdCounter \in 0 .. IdModulus - 1
      /\ IdModulus \in Nat
  BY ConnectionAssumption DEF TypeOK, Ids
<1>3. nextCorrelationId = IF correlationIdCounter + 1 = IdModulus
                          THEN 0 ELSE correlationIdCounter + 1
  BY NextIdIs DEF TypeOK
<1> QED BY <1>1, <1>2, <1>3

\* A step that draws no id and makes no request live.
LEMMA IdsKept ==
    ASSUME IdsInv, UNCHANGED <<ids, reqId>>,
           \A r \in Requests : Live(r)' => Live(r)
    PROVE  IdsInv'
BY DEF IdsInv, ids

\* A draw for a request that was not live makes every live one a draw older.
LEMMA IdDrawn ==
    ASSUME TypeOK, IdsInv, NEW r \in Requests, DrawId(r),
           \A q \in Requests \ {r} : /\ Live(q)' => Live(q)
                                     /\ reqId'[q] = reqId[q],
           Live(r)' => reqId'[r] = nextCorrelationId
    PROVE  IdsInv'
<1> USE DEF Ids
<1>1. /\ correlationIdCounter \in 0 .. IdModulus - 1
      /\ IdModulus \in Nat
      /\ correlationIdCounter' = nextCorrelationId
      /\ nextCorrelationId = IF correlationIdCounter + 1 = IdModulus
                             THEN 0 ELSE correlationIdCounter + 1
  BY ConnectionAssumption, NextIdIs DEF TypeOK, DrawId
<1>2. ASSUME NEW q \in Requests \ {r}, Live(q)'
      PROVE  /\ Live(q)
             /\ younger'[q] = younger[q] + 1
             /\ younger[q] \in 0 .. IdModulus - 1
             /\ younger[q] + 1 < IdModulus
             /\ reqId[q] \in 0 .. IdModulus - 1
             /\ reqId'[q] = reqId[q]
             /\ reqId[q] + younger[q]
                   \in {correlationIdCounter, correlationIdCounter + IdModulus}
  BY <1>2 DEF TypeOK, DrawId, WithinIdWindow, IdsInv
<1>3. younger'[r] = 0
  BY DEF DrawId
<1>4. ASSUME NEW q \in Requests, Live(q)'
      PROVE  reqId'[q] + younger'[q]
                \in {correlationIdCounter', correlationIdCounter' + IdModulus}
  <2>1. CASE q = r
    BY <1>1, <1>3, <1>4, <2>1
  <2>2. CASE q # r
    BY <1>1, <1>2, <1>4, <2>2
  <2> QED BY <2>1, <2>2
<1>5. ASSUME NEW q1 \in Requests, NEW q2 \in Requests, q1 # q2, Live(q1)', Live(q2)'
      PROVE  younger'[q1] # younger'[q2]
  <2>1. CASE q1 # r /\ q2 # r
    <3>1. younger[q1] # younger[q2]
      BY <1>2, <1>5, <2>1 DEF IdsInv
    <3> QED BY <1>2, <1>5, <2>1, <3>1
  <2>2. CASE q1 = r \/ q2 = r
    BY <1>2, <1>3, <1>5, <2>2
  <2> QED BY <2>1, <2>2
<1> QED BY <1>4, <1>5 DEF IdsInv

\* A step that leaves the calls, the map and the ids, and writes nothing.
LEMMA QuietStep ==
    ASSUME TypeOK, RequestsInv, UNCHANGED <<inFlight, requests, ids>>,
           \A s \in Sockets : wire'[s] \subseteq wire[s]
    PROVE  RequestsInv'
<1>1. \A r \in Requests : /\ Unsettled(r)' <=> Unsettled(r)
                          /\ OnWire(r)' => OnWire(r)
                          /\ reqId'[r] = reqId[r]
  BY DEF Unsettled, OnWire, requests
<1>2. InFlightExact'
  BY <1>1 DEF RequestsInv, InFlightExact, TypeOK, requests, Unsettled
<1>3. IdsInv'
  BY <1>1, IdsKept DEF RequestsInv, Live, requests
<1> QED BY <1>2, <1>3 DEF RequestsInv

\* Rejecting all that is in flight empties the map and leaves nobody waiting.
LEMMA RejectStep ==
    ASSUME TypeOK, RequestsInv, RejectInFlight, UNCHANGED ids,
           \A s \in Sockets : wire'[s] \subseteq wire[s]
    PROVE  RequestsInv'
<1>1. \A r \in Requests : Unsettled(r) => Tracked(r)
  BY DEF TypeOK, RequestsInv, InFlightExact, Tracked
<1>2. \A r \in Requests : ~Unsettled(r)'
  BY <1>1 DEF RejectInFlight, Unsettled
<1>3. \A i \in Ids : inFlight'[i] = NoRequest
  BY DEF RejectInFlight
<1>4. \A r \in Requests : OnWire(r)' => OnWire(r)
  BY DEF OnWire
<1>5. InFlightExact'
  BY <1>2, <1>3 DEF InFlightExact
<1>6. IdsInv'
  BY <1>2, <1>4, IdsKept DEF RequestsInv, Live, RejectInFlight
<1> QED BY <1>5, <1>6 DEF RequestsInv

\* Every way of closing either rejects all that is in flight or does nothing.
LEMMA ClosingRejectsOrKeeps ==
    ASSUME CloseFields \/ disconnect \/ onDisconnect \/ onError
    PROVE  RejectInFlight \/ UNCHANGED <<inFlight, requests>>
BY DEF CloseFields, disconnect, onDisconnect, onError

\* Every way of closing preserves the invariant.
LEMMA ClosingStep ==
    ASSUME TypeOK, RequestsInv,
           CloseFields \/ disconnect \/ onDisconnect \/ onError, UNCHANGED ids,
           \A s \in Sockets : wire'[s] \subseteq wire[s]
    PROVE  RequestsInv'
BY ClosingRejectsOrKeeps, QuietStep, RejectStep

\* The end of a socket puts nothing on the wire.
LEMMA LoseWireShrinks ==
    ASSUME TypeOK, NEW s \in Sockets, LoseWire(s)
    PROVE  \A t \in Sockets : wire'[t] \subseteq wire[t]
BY DEF TypeOK, LoseWire

\* A sent request takes a free id.
LEMMA SendStep ==
    ASSUME TypeOK, RequestsInv, NEW r \in Requests, Send(r)
    PROVE  RequestsInv'
<1> DEFINE id == nextCorrelationId
<1>1. /\ id \in Ids
      /\ inFlight' = [inFlight EXCEPT ![id] = r]
      /\ req' = [req EXCEPT ![r] = "pending"]
      /\ reqId' = [reqId EXCEPT ![r] = id]
  BY NextIdInIds DEF TypeOK, Send
<1>2. socket \in Sockets /\ wire' = [wire EXCEPT ![socket] = @ \cup {r}]
  BY DEF TypeOK, Send, isConnected
<1>3. \A x \in Requests : Live(x) => x # r /\ reqId[x] # id
  BY NextIdIsFree DEF RequestsInv, Send, Fresh, DrawId
<1>4. \A x \in Requests \ {r} :
          /\ Unsettled(x)' <=> Unsettled(x)
          /\ reqId'[x] = reqId[x]
  BY <1>1 DEF TypeOK, Unsettled
<1>5. \A x \in Requests \ {r} : OnWire(x)' <=> OnWire(x)
  BY <1>2 DEF TypeOK, OnWire
<1>6. Unsettled(r)' /\ reqId'[r] = id
  BY <1>1 DEF TypeOK, Unsettled
<1>7. inFlight[id] = NoRequest
  BY <1>1, <1>3 DEF TypeOK, RequestsInv, InFlightExact, Live
<1>8. ASSUME NEW x \in Requests, Unsettled(x)'
      PROVE  inFlight'[reqId'[x]] = x
  <2>1. CASE x = r
    BY <1>1, <1>6, <2>1 DEF TypeOK
  <2>2. CASE x # r
    <3>1. Unsettled(x) /\ reqId'[x] = reqId[x] /\ reqId[x] # id
      BY <1>3, <1>4, <1>8, <2>2 DEF Live
    <3>2. reqId[x] \in Ids /\ inFlight[reqId[x]] = x
      BY <3>1 DEF TypeOK, RequestsInv, InFlightExact
    <3> QED BY <1>1, <3>1, <3>2 DEF TypeOK
  <2> QED BY <2>1, <2>2
<1>9. ASSUME NEW i \in Ids, inFlight'[i] # NoRequest
      PROVE  (Unsettled(inFlight[i]) /\ reqId[inFlight[i]] = i)'
  <2>1. CASE i = id
    <3>1. inFlight'[i] = r
      BY <1>1, <2>1 DEF TypeOK
    <3> QED BY <1>6, <2>1, <3>1 DEF Unsettled
  <2>2. CASE i # id
    <3>1. inFlight'[i] = inFlight[i]
      BY <1>1, <2>2 DEF TypeOK
    <3>2. inFlight[i] \in Requests /\ Unsettled(inFlight[i]) /\ reqId[inFlight[i]] = i
      BY <1>9, <3>1 DEF TypeOK, RequestsInv, InFlightExact
    <3>3. inFlight[i] # r
      BY <1>3, <3>2 DEF Live
    <3>4. /\ req'[inFlight[i]] = req[inFlight[i]]
          /\ reqId'[inFlight[i]] = reqId[inFlight[i]]
      BY <1>1, <3>2, <3>3 DEF TypeOK
    <3> QED BY <3>1, <3>2, <3>4 DEF Unsettled
  <2> QED BY <2>1, <2>2
<1>10. InFlightExact'
  BY <1>8, <1>9 DEF InFlightExact
<1>11. IdsInv'
  BY <1>4, <1>5, <1>6, IdDrawn DEF RequestsInv, Live, Send
<1> QED BY <1>10, <1>11 DEF RequestsInv

\* Removing a whole set D of tracked requests and settling it, nothing else.
LEMMA RemoveStep ==
    ASSUME TypeOK, RequestsInv,
           NEW D \in SUBSET Requests,
           inFlight' = [i \in Ids |-> IF inFlight[i] \in D THEN NoRequest ELSE inFlight[i]],
           \A r \in Requests : Unsettled(r)' <=> Unsettled(r) /\ r \notin D,
           UNCHANGED <<reqId, ids>>,
           \A s \in Sockets : wire'[s] \subseteq wire[s]
    PROVE  RequestsInv'
<1>1. ASSUME NEW r \in Requests, Unsettled(r)'
      PROVE  inFlight'[reqId'[r]] = r
  <2>1. Unsettled(r) /\ r \notin D
    BY <1>1
  <2>2. reqId[r] \in Ids /\ inFlight[reqId[r]] = r
    BY <2>1 DEF TypeOK, RequestsInv, InFlightExact
  <2> QED BY <2>1, <2>2
<1>2. ASSUME NEW i \in Ids, inFlight'[i] # NoRequest
      PROVE  (Unsettled(inFlight[i]) /\ reqId[inFlight[i]] = i)'
  <2>1. inFlight'[i] = inFlight[i] /\ inFlight[i] \notin D
    BY <1>2
  <2>2. inFlight[i] \in Requests /\ Unsettled(inFlight[i]) /\ reqId[inFlight[i]] = i
    BY <1>2, <2>1 DEF TypeOK, RequestsInv, InFlightExact
  <2>3. \A r \in Requests : r = inFlight[i] => Unsettled(r)'
    BY <2>1, <2>2
  <2> QED BY <2>1, <2>2, <2>3
<1>3. InFlightExact'
  BY <1>1, <1>2 DEF InFlightExact
<1>4. \A r \in Requests : OnWire(r)' => OnWire(r)
  BY DEF OnWire
<1>5. IdsInv'
  BY <1>4, IdsKept DEF RequestsInv, Live
<1> QED BY <1>3, <1>5 DEF RequestsInv

\* Responses settle the calls they find in the map and remove those entries.
LEMMA ResponseStep ==
    ASSUME TypeOK, RequestsInv,
           NEW K \in SUBSET Ids, NEW from, DOMAIN from = K, handleResponses(from),
           UNCHANGED ids,
           \A s \in Sockets : wire'[s] \subseteq wire[s]
    PROVE  RequestsInv'
<1>1. ASSUME NEW i \in Ids
      PROVE  i \in K /\ inFlight[i] # NoRequest <=> inFlight[i] \in Found(K)
  <2>1. CASE inFlight[i] = NoRequest
    BY <2>1, ConnectionAssumption DEF Found
  <2>2. CASE inFlight[i] # NoRequest
    BY <2>2 DEF TypeOK, RequestsInv, InFlightExact, Found
  <2> QED BY <2>1, <2>2
<1>2. inFlight' = [i \in Ids |-> IF inFlight[i] \in Found(K) THEN NoRequest ELSE inFlight[i]]
  BY <1>1 DEF TypeOK, handleResponses
<1>3. \A r \in Requests : Unsettled(r)' <=> Unsettled(r) /\ r \notin Found(K)
  BY DEF handleResponses, Unsettled
<1>4. Found(K) \in SUBSET Requests
  BY DEF Found
<1>5. UNCHANGED <<reqId, ids>>
  BY DEF handleResponses
<1> QED BY <1>2, <1>3, <1>4, <1>5, RemoveStep

\* An object that closes in the middle of an event keeps no call in flight.
LEMMA CloseAfterStep ==
    ASSUME TypeOK, RequestsInv, NEW K \in SUBSET Ids, CloseAfterResponses(K),
           UNCHANGED ids,
           \A s \in Sockets : wire'[s] \subseteq wire[s]
    PROVE  RequestsInv'
<1>1. \A r \in Requests : Unsettled(r) => Tracked(r)
  BY DEF TypeOK, RequestsInv, InFlightExact, Tracked
<1>2. \A r \in Requests : ~Unsettled(r)'
  BY <1>1 DEF CloseAfterResponses, Unsettled
<1>3. InFlightExact'
  BY <1>2 DEF CloseAfterResponses, InFlightExact
<1>4. \A r \in Requests : OnWire(r)' => OnWire(r)
  BY DEF OnWire
<1>5. IdsInv'
  BY <1>2, <1>4, IdsKept DEF RequestsInv, Live, CloseAfterResponses
<1> QED BY <1>3, <1>5 DEF RequestsInv

\* A failed write removes the entry under its id: its own, or none.
LEMMA WriteErrorStep ==
    ASSUME TypeOK, RequestsInv, NEW s \in Sockets, NEW r \in Requests, WriteError(s, r)
    PROVE  RequestsInv'
<1> DEFINE D == IF Unsettled(r) THEN {r} ELSE {}
<1>1. reqId[r] \in Ids
  BY DEF TypeOK
<1>2. ASSUME NEW i \in Ids
      PROVE  inFlight[i] \in D <=> i = reqId[r] /\ inFlight[i] # NoRequest
  <2>1. ASSUME inFlight[i] \in D
        PROVE  i = reqId[r] /\ inFlight[i] # NoRequest
    BY <2>1, ConnectionAssumption DEF RequestsInv, InFlightExact
  <2>2. ASSUME i = reqId[r], inFlight[i] # NoRequest
        PROVE  inFlight[i] \in D
    <3>1. /\ inFlight[i] \in Requests
          /\ Live(inFlight[i])
          /\ Unsettled(inFlight[i])
          /\ reqId[inFlight[i]] = reqId[r]
      BY <2>2 DEF TypeOK, RequestsInv, InFlightExact, Live
    <3>2. Live(r)
      BY DEF WriteError, Live, OnWire
    <3>3. inFlight[i] = r
      BY <3>1, <3>2, IdsDistinct DEF RequestsInv, LiveIdsDistinct
    <3> QED BY <3>1, <3>3
  <2> QED BY <2>1, <2>2
<1>3. inFlight' = [i \in Ids |-> IF inFlight[i] \in D THEN NoRequest ELSE inFlight[i]]
  BY <1>1, <1>2 DEF TypeOK, WriteError
<1>4. \A x \in Requests : Unsettled(x)' <=> Unsettled(x) /\ x \notin D
  BY DEF TypeOK, WriteError, Unsettled
<1>5. \A t \in Sockets : wire'[t] \subseteq wire[t]
  BY DEF TypeOK, WriteError
<1>6. UNCHANGED <<reqId, ids>>
  BY DEF WriteError
<1>7. D \in SUBSET Requests
  OBVIOUS
<1> HIDE DEF D
<1> QED BY <1>3, <1>4, <1>5, <1>6, <1>7, RemoveStep

\* The sweep removes the late calls from the map and rejects them.
LEMMA TickStep ==
    ASSUME TypeOK, RequestsInv, Tick
    PROVE  RequestsInv'
<1> DEFINE D == {r \in Requests : Late(r)}
<1>1. inFlight' = [i \in Ids |-> IF inFlight[i] \in D THEN NoRequest ELSE inFlight[i]]
  BY DEF Tick
<1>2. \A x \in Requests : Unsettled(x)' <=> Unsettled(x) /\ x \notin D
  BY DEF TypeOK, Tick, Unsettled, Late
<1>3. UNCHANGED <<reqId, wire, ids>>
  BY DEF Tick, network
<1>4. D \in SUBSET Requests
  OBVIOUS
<1> HIDE DEF D
<1> QED BY <1>1, <1>2, <1>3, <1>4, RemoveStep

\* Actions that change the promise of one call and nothing it is tracked by.
LEMMA PromiseStep ==
    ASSUME TypeOK, RequestsInv, NEW r \in Requests,
           SendNotConnected(r) \/ SendTooLarge(r) \/ Expire(r)
    PROVE  RequestsInv'
<1>1. UNCHANGED <<inFlight, reqId, wire>>
  BY DEF SendNotConnected, SendTooLarge, Expire, network
<1>2. \A x \in Requests : Unsettled(x)' <=> Unsettled(x)
  BY DEF TypeOK, SendNotConnected, SendTooLarge, Expire, Fresh, Live, Unsettled
<1>3. InFlightExact'
  BY <1>1, <1>2 DEF TypeOK, RequestsInv, InFlightExact
<1>4. \A x \in Requests : Live(x)' <=> Live(x)
  BY <1>1, <1>2 DEF Live, OnWire
<1>5. ASSUME UNCHANGED ids
      PROVE  IdsInv'
  BY <1>1, <1>4, <1>5, IdsKept DEF RequestsInv
<1>6. ASSUME SendTooLarge(r)
      PROVE  IdsInv'
  BY <1>1, <1>4, <1>6, IdDrawn DEF RequestsInv, SendTooLarge, Fresh
<1>7. IdsInv'
  BY <1>5, <1>6 DEF SendNotConnected, Expire
<1> QED BY <1>3, <1>7 DEF RequestsInv

\* Every handler preserves the invariant.
LEMMA RequestsInvStep ==
    ASSUME TypeOK, RequestsInv, [Next]_vars
    PROVE  RequestsInv'
<1>1. ASSUME NEW s \in Sockets, StartConnect(s)
      PROVE  RequestsInv'
  BY <1>1, QuietStep DEF StartConnect
<1>2. ASSUME NEW s \in Sockets, ConnectTimeout(s)
      PROVE  RequestsInv'
  BY <1>2, ClosingStep DEF ConnectTimeout, network
<1>3. ASSUME NEW s \in Sockets, SocketConnected(s)
      PROVE  RequestsInv'
  BY <1>3, QuietStep DEF SocketConnected
<1>4. ASSUME NEW s \in Sockets, SocketError(s)
      PROVE  RequestsInv'
  <2>1. \A t \in Sockets : wire'[t] \subseteq wire[t]
    BY <1>4, LoseWireShrinks DEF SocketError
  <2> QED BY <1>4, <2>1, ClosingStep, QuietStep DEF SocketError
<1>5. ASSUME NEW s \in Sockets, SocketEnd(s)
      PROVE  RequestsInv'
  BY <1>5, ClosingStep, QuietStep DEF SocketEnd
<1>6. ASSUME NEW s \in Sockets, SocketClose(s)
      PROVE  RequestsInv'
  <2>1. \A t \in Sockets : wire'[t] \subseteq wire[t]
    BY <1>6, LoseWireShrinks DEF SocketClose
  <2> QED BY <1>6, <2>1, ClosingStep, QuietStep DEF SocketClose
<1>7. ASSUME NEW s \in Sockets, SocketTimeout(s)
      PROVE  RequestsInv'
  BY <1>7, ClosingStep DEF SocketTimeout
<1>8. ASSUME NEW s \in Sockets, IncomingPartial(s)
      PROVE  RequestsInv'
  BY <1>8, QuietStep DEF IncomingPartial, network
<1>9. ASSUME NEW s \in Sockets, IncomingMisframed(s)
      PROVE  RequestsInv'
  <2>1. \A t \in Sockets : wire'[t] \subseteq wire[t]
    BY <1>9 DEF TypeOK, IncomingMisframed
  <2>2. CASE UNCHANGED <<inFlight, requests>>
    BY <1>9, <2>1, <2>2, QuietStep DEF IncomingMisframed
  <2>3. ASSUME NEW K \in SUBSET Ids, handleResponses([i \in K |-> NoRequest])
        PROVE  RequestsInv'
    <3>1. DOMAIN [i \in K |-> NoRequest] = K
      OBVIOUS
    <3> QED BY <1>9, <2>1, <2>3, <3>1, ResponseStep DEF IncomingMisframed
  <2>4. ASSUME NEW K \in SUBSET Ids, CloseAfterResponses(K)
        PROVE  RequestsInv'
    BY <1>9, <2>1, <2>4, CloseAfterStep DEF IncomingMisframed
  <2> QED BY <1>9, <2>2, <2>3, <2>4 DEF IncomingMisframed
<1>10. ASSUME NEW s \in Sockets, IncomingFrames(s)
       PROVE  RequestsInv'
  <2>1. PICK R \in SUBSET wire[s] :
            /\ wire' = [wire EXCEPT ![s] = @ \ R]
            /\ \E from \in [{reqId[r] : r \in R} -> R] : handleResponses(from)
    BY <1>10 DEF IncomingFrames
  <2>2. PICK from \in [{reqId[r] : r \in R} -> R] : handleResponses(from)
    BY <2>1
  <2>3. \A t \in Sockets : wire'[t] \subseteq wire[t]
    BY <2>1 DEF TypeOK
  <2>4. DOMAIN from = {reqId[r] : r \in R} /\ {reqId[r] : r \in R} \subseteq Ids
    BY DEF TypeOK
  <2> QED BY <1>10, <2>2, <2>3, <2>4, ResponseStep DEF IncomingFrames
<1>11. ASSUME NEW s \in Sockets, NEW r \in Requests, WriteError(s, r)
       PROVE  RequestsInv'
  BY <1>11, WriteErrorStep
<1>12. ASSUME NEW j \in Joiners, JoinConnect(j)
       PROVE  RequestsInv'
  BY <1>12, QuietStep DEF JoinConnect, network
<1>13. ASSUME NEW r \in Requests, RequestStep(r)
       PROVE  RequestsInv'
  BY <1>13, SendStep, PromiseStep DEF RequestStep
<1>17. CASE ConnectThrows
  BY <1>17, QuietStep DEF ConnectThrows, network
<1>14. CASE Tick
  BY <1>14, TickStep
<1>15. CASE Disconnect
  BY <1>15, ClosingStep DEF Disconnect, network
<1>16. CASE UNCHANGED vars
  BY <1>16, QuietStep DEF vars, network
<1> QED
  BY <1>1, <1>2, <1>3, <1>4, <1>5, <1>6, <1>7, <1>8, <1>9, <1>10, <1>11, <1>12,
     <1>13, <1>14, <1>15, <1>16, <1>17 DEF Next, SocketStep

\* It holds of a new object.
LEMMA RequestsInvInit == Init => RequestsInv
BY DEF Init, RequestsInv, InFlightExact, IdsInv, Live, Unsettled, OnWire

\* Whatever the order of answers, write errors, sweeps and closings: a send()
\* its caller waits for is in inFlightRequests under its own id, and nothing
\* else is.
THEOREM InFlightCorrect == Spec => []InFlightExact
<1>1. TypeOK /\ RequestsInv /\ [Next]_vars => RequestsInv'
  BY RequestsInvStep
<1>2. RequestsInv => InFlightExact
  BY DEF RequestsInv
<1> QED
  BY <1>1, <1>2, RequestsInvInit, TypeCorrect, PTL DEF Spec

\* No two calls that are waited for, or may still be answered, share a
\* correlation id: not over reconnects, which leave the counter alone, and not
\* when the counter comes round, as long as fewer ids than there are were
\* drawn while a call was live.
THEOREM LiveIdsCorrect == Spec => []LiveIdsDistinct
<1>1. TypeOK /\ RequestsInv /\ [Next]_vars => RequestsInv'
  BY RequestsInvStep
<1>2. TypeOK /\ RequestsInv => LiveIdsDistinct
  BY IdsDistinct DEF RequestsInv
<1> QED
  BY <1>1, <1>2, RequestsInvInit, TypeCorrect, PTL DEF Spec

-----------------------------------------------------------------------------
(* The second part: the fields of the object and the socket they refer to. *)

\* A connected object runs its sweep.
SweepRuns == state = "CONNECTED" => requestTimeoutInterval

\* The inductive invariant of the fields.  It needs no RequestsInv: the map only
\* matters for being empty.
FieldsInv ==
    /\ DisconnectedIsClean
    /\ InFlightIsTimed
    /\ SweepRuns
    /\ ConnectTimerIsCurrent
    /\ CurrentSocketLive

\* A disconnected, clean object satisfies all of it.
LEMMA CleanIsEnough ==
    ASSUME state = "DISCONNECTED", DisconnectedIsClean
    PROVE  FieldsInv
BY ConnectionAssumption DEF FieldsInv, DisconnectedIsClean, InFlightIsTimed, Tracked,
   SweepRuns, ConnectTimerIsCurrent, CurrentSocketLive

\* Closing leaves such an object.
LEMMA CloseFieldsCleans ==
    ASSUME CloseFields
    PROVE  (state = "DISCONNECTED" /\ DisconnectedIsClean)'
BY DEF CloseFields, FieldsClosed, RejectInFlight, DisconnectedIsClean

\* So does disconnect(), which does nothing to one.
LEMMA disconnectCleans ==
    ASSUME FieldsInv, disconnect
    PROVE  (state = "DISCONNECTED" /\ DisconnectedIsClean)'
<1>1. CASE CloseFields
  BY <1>1, CloseFieldsCleans
<1>2. CASE state = "DISCONNECTED" /\ UNCHANGED <<fields, inFlight, requests>>
  BY <1>2 DEF FieldsInv, DisconnectedIsClean, fields
<1> QED BY <1>1, <1>2 DEF disconnect

\* So does every way of closing.
LEMMA ClosingCleans ==
    ASSUME FieldsInv, CloseFields \/ disconnect \/ onDisconnect
    PROVE  FieldsInv'
<1>1. (state = "DISCONNECTED" /\ DisconnectedIsClean)'
  BY CloseFieldsCleans, disconnectCleans DEF onDisconnect
<1> QED BY <1>1, CleanIsEnough, PTL

\* A step that leaves the fields, may settle calls, and touches neither the
\* attempt a timer guards nor the life of the current socket.
LEMMA KeepStep ==
    ASSUME TypeOK, FieldsInv, UNCHANGED <<fields, attempt>>,
           \A i \in Ids : inFlight'[i] \in {inFlight[i], NoRequest},
           CurrentSocketLive'
    PROVE  FieldsInv'
<1>1. \A r \in Requests : Tracked(r)' => Tracked(r)
  BY ConnectionAssumption DEF Tracked
<1>2. InFlightIsTimed'
  BY <1>1 DEF FieldsInv, InFlightIsTimed, isConnected, fields
<1>3. DisconnectedIsClean'
  BY DEF FieldsInv, DisconnectedIsClean, fields
<1>4. SweepRuns' /\ ConnectTimerIsCurrent'
  BY DEF FieldsInv, SweepRuns, ConnectTimerIsCurrent, fields
<1> QED BY <1>2, <1>3, <1>4 DEF FieldsInv

\* onError() closes, or ends the process and leaves the fields.
LEMMA onErrorFields ==
    ASSUME TypeOK, FieldsInv, onError,
           ErrorIsHeard \/ UNCHANGED attempt
    PROVE  FieldsInv'
<1>1. CASE disconnect
  BY <1>1, ClosingCleans
<1>2. CASE alive' = FALSE /\ UNCHANGED <<fields, inFlight, attempt>>
  BY <1>2, KeepStep DEF CurrentSocketLive
<1> QED BY <1>1, <1>2 DEF onError

\* Responses add nothing to the map.
LEMMA ResponseShrinks ==
    ASSUME TypeOK, NEW from, handleResponses(from)
    PROVE  \A i \in Ids : inFlight'[i] \in {inFlight[i], NoRequest}
BY DEF TypeOK, handleResponses

\* Every handler preserves the invariant, those of a replaced socket too.
LEMMA FieldsInvStep ==
    ASSUME TypeOK, FieldsInv, [Next]_vars
    PROVE  FieldsInv'
<1>1. ASSUME NEW s \in Sockets, StartConnect(s)
      PROVE  FieldsInv'
  <2>1. state = "DISCONNECTED" /\ state' = "CONNECTING" /\ socket' = s
    BY <1>1 DEF StartConnect
  <2>2. \A r \in Requests : ~Tracked(r)'
    BY <1>1, <2>1, ConnectionAssumption DEF StartConnect, FieldsInv, DisconnectedIsClean, Tracked
  <2>3. DisconnectedIsClean' /\ SweepRuns' /\ InFlightIsTimed'
    BY <2>1, <2>2 DEF DisconnectedIsClean, SweepRuns, InFlightIsTimed
  <2>4. ConnectTimerIsCurrent'
    BY <1>1, <2>1 DEF TypeOK, StartConnect, ConnectTimerIsCurrent
  <2>5. CurrentSocketLive'
    BY <1>1, <2>1 DEF TypeOK, StartConnect, CurrentSocketLive
  <2> QED BY <2>3, <2>4, <2>5 DEF FieldsInv
<1>2. ASSUME NEW s \in Sockets, ConnectTimeout(s)
      PROVE  FieldsInv'
  BY <1>2, onErrorFields DEF ConnectTimeout, RejectAttemptAfterError
<1>3. ASSUME NEW s \in Sockets, SocketConnected(s)
      PROVE  FieldsInv'
  <2>1. CurrentSocketLive'
    BY <1>3 DEF TypeOK, SocketConnected, FieldsInv, CurrentSocketLive
  <2>2. CASE s \in listening
    <3>1. /\ state' = "CONNECTED" /\ requestTimeoutInterval' = TRUE
          /\ connectionTimeout' = NoSocket
          /\ UNCHANGED <<socket, inFlight>>
      BY <1>3, <2>2 DEF SocketConnected, startRequestTimeoutTimer
    <3>2. DisconnectedIsClean' /\ SweepRuns' /\ ConnectTimerIsCurrent'
      BY <3>1 DEF DisconnectedIsClean, SweepRuns, ConnectTimerIsCurrent
    <3>3. InFlightIsTimed'
      BY <3>1 DEF FieldsInv, InFlightIsTimed, isConnected, Tracked
    <3> QED BY <2>1, <3>2, <3>3 DEF FieldsInv
  <2>3. CASE s \notin listening
    BY <1>3, <2>1, <2>3, KeepStep DEF SocketConnected, fields
  <2> QED BY <2>2, <2>3
<1>4. ASSUME NEW s \in Sockets, SocketError(s)
      PROVE  FieldsInv'
  <2>1. CASE s \in listening
    BY <1>4, <2>1, onErrorFields DEF SocketError, RejectAttemptAfterError
  <2>2. CASE s \notin listening
    BY <1>4, <2>2, KeepStep DEF SocketError, CurrentSocketLive
  <2> QED BY <2>1, <2>2
<1>5. ASSUME NEW s \in Sockets, SocketEnd(s)
      PROVE  FieldsInv'
  <2>1. CASE s \in listening
    BY <1>5, <2>1, ClosingCleans DEF SocketEnd
  <2>2. CASE s \notin listening
    <3>1. CurrentSocketLive'
      BY <1>5, <2>2 DEF TypeOK, SocketEnd, FieldsInv, CurrentSocketLive, fields
    <3> QED BY <1>5, <2>2, <3>1, KeepStep DEF SocketEnd
  <2> QED BY <2>1, <2>2
<1>6. ASSUME NEW s \in Sockets, SocketClose(s)
      PROVE  FieldsInv'
  <2>1. CASE s \in listening
    BY <1>6, <2>1, ClosingCleans DEF SocketClose
  <2>2. CASE s \notin listening
    <3>1. CurrentSocketLive'
      BY <1>6, <2>2 DEF TypeOK, SocketClose, FieldsInv, CurrentSocketLive, fields
    <3> QED BY <1>6, <2>2, <3>1, KeepStep DEF SocketClose
  <2> QED BY <2>1, <2>2
<1>7. ASSUME NEW s \in Sockets, SocketTimeout(s)
      PROVE  FieldsInv'
  BY <1>7, onErrorFields DEF SocketTimeout
<1>8. ASSUME NEW s \in Sockets, IncomingPartial(s) 
      PROVE  FieldsInv'
  <2>1. CurrentSocketLive'
    BY <1>8 DEF IncomingPartial, FieldsInv, CurrentSocketLive, fields, network
  <2> QED BY <1>8, <2>1, KeepStep DEF IncomingPartial
<1>9. ASSUME NEW s \in Sockets, IncomingMisframed(s)
      PROVE  FieldsInv'
  <2>1. ASSUME NEW K \in SUBSET Ids, CloseAfterResponses(K)
        PROVE  FieldsInv'
    <3>1. (state = "DISCONNECTED" /\ DisconnectedIsClean)'
      BY <2>1 DEF CloseAfterResponses, FieldsClosed, DisconnectedIsClean
    <3> QED BY <3>1, CleanIsEnough, PTL
  <2>2. ASSUME UNCHANGED fields, \A i \in Ids : inFlight'[i] \in {inFlight[i], NoRequest}
        PROVE  FieldsInv'
    <3>1. alive /\ UNCHANGED <<phase, listening, attempt>>
      BY <1>9 DEF IncomingMisframed
    <3>2. CurrentSocketLive'
      BY <2>2, <3>1 DEF FieldsInv, CurrentSocketLive, fields
    <3> QED BY <2>2, <3>1, <3>2, KeepStep
  <2>3. CASE UNCHANGED <<inFlight, fields>>
    BY <2>2, <2>3
  <2> QED BY <1>9, <2>1, <2>2, <2>3, ResponseShrinks DEF IncomingMisframed
<1>10. ASSUME NEW s \in Sockets, IncomingFrames(s)
       PROVE  FieldsInv'
  <2>1. CurrentSocketLive'
    BY <1>10 DEF IncomingFrames, FieldsInv, CurrentSocketLive, fields
  <2>2. \A i \in Ids : inFlight'[i] \in {inFlight[i], NoRequest}
    BY <1>10, ResponseShrinks DEF IncomingFrames
  <2> QED BY <1>10, <2>1, <2>2, KeepStep DEF IncomingFrames
<1>11. ASSUME NEW s \in Sockets, NEW r \in Requests, WriteError(s, r)
       PROVE  FieldsInv'
  <2>1. CurrentSocketLive'
    BY <1>11 DEF TypeOK, WriteError, FieldsInv, CurrentSocketLive, fields
  <2>2. \A i \in Ids : inFlight'[i] \in {inFlight[i], NoRequest}
    BY <1>11 DEF TypeOK, WriteError
  <2> QED BY <1>11, <2>1, <2>2, KeepStep DEF WriteError
<1>12. ASSUME NEW j \in Joiners, JoinConnect(j)
       PROVE  FieldsInv'
  <2>1. CurrentSocketLive'
    BY <1>12 DEF JoinConnect, FieldsInv, CurrentSocketLive, fields, network
  <2> QED BY <1>12, <2>1, KeepStep DEF JoinConnect
<1>13. ASSUME NEW r \in Requests, SendNotConnected(r) \/ SendTooLarge(r) \/ Expire(r)
       PROVE  FieldsInv'
  <2>1. UNCHANGED <<fields, attempt, inFlight, network, alive>>
    BY <1>13 DEF SendNotConnected, SendTooLarge, Expire
  <2>2. CurrentSocketLive'
    BY <2>1 DEF FieldsInv, CurrentSocketLive, fields, network
  <2> QED BY <2>1, <2>2, KeepStep
<1>14. ASSUME NEW r \in Requests, Send(r)
       PROVE  FieldsInv'
  <2>1. isConnected /\ UNCHANGED <<fields, phase, listening, alive>>
    BY <1>14 DEF Send
  <2>2. InFlightIsTimed'
    BY <2>1 DEF FieldsInv, SweepRuns, InFlightIsTimed, isConnected, fields
  <2>3. DisconnectedIsClean' /\ SweepRuns' /\ ConnectTimerIsCurrent'
    BY <1>14, <2>1 DEF Send, FieldsInv, DisconnectedIsClean, SweepRuns,
       ConnectTimerIsCurrent, isConnected, fields
  <2>4. CurrentSocketLive'
    BY <2>1 DEF FieldsInv, CurrentSocketLive, fields
  <2> QED BY <2>2, <2>3, <2>4 DEF FieldsInv
<1>18. CASE ConnectThrows
  <2>1. state' = "CONNECTING" /\ socket' = NoSocket /\ connectionTimeout' = NoSocket
    BY <1>18 DEF ConnectThrows, FieldsInv, DisconnectedIsClean
  <2>2. \A r \in Requests : ~Tracked(r)'
    BY <1>18, ConnectionAssumption DEF ConnectThrows, FieldsInv, DisconnectedIsClean, Tracked
  <2> QED BY <2>1, <2>2 DEF FieldsInv, DisconnectedIsClean, InFlightIsTimed, SweepRuns,
     ConnectTimerIsCurrent, CurrentSocketLive
<1>15. CASE Tick
  <2>1. CurrentSocketLive'
    BY <1>15 DEF Tick, FieldsInv, CurrentSocketLive, fields, network
  <2> QED BY <1>15, <2>1, KeepStep DEF Tick
<1>16. CASE Disconnect
  BY <1>16, ClosingCleans DEF Disconnect
<1>17. CASE UNCHANGED vars
  <2>1. CurrentSocketLive'
    BY <1>17 DEF vars, FieldsInv, CurrentSocketLive, fields, network
  <2> QED BY <1>17, <2>1, KeepStep DEF vars
<1> QED
  BY <1>1, <1>2, <1>3, <1>4, <1>5, <1>6, <1>7, <1>8, <1>9, <1>10, <1>11, <1>12,
     <1>13, <1>14, <1>15, <1>16, <1>17, <1>18 DEF Next, SocketStep, RequestStep

\* It holds of a new object.
LEMMA FieldsInvInit == Init => FieldsInv
<1>1. Init => state = "DISCONNECTED" /\ DisconnectedIsClean
  BY DEF Init, DisconnectedIsClean
<1> QED BY <1>1, CleanIsEnough

\* Through every order of socket events, timers and calls: whatever is in
\* flight has a connected object with a running sweep, the connection timer
\* belongs to the current attempt, the current socket lives, and a
\* disconnected object is clean.
THEOREM FieldsCorrect ==
    Spec => [](/\ InFlightIsTimed
               /\ ConnectTimerIsCurrent
               /\ CurrentSocketLive
               /\ DisconnectedIsClean)
<1>1. TypeOK /\ FieldsInv /\ [Next]_vars => FieldsInv'
  BY FieldsInvStep
<1>2. FieldsInv => /\ InFlightIsTimed
                   /\ ConnectTimerIsCurrent
                   /\ CurrentSocketLive
                   /\ DisconnectedIsClean
  BY DEF FieldsInv
<1> QED
  BY <1>1, <1>2, FieldsInvInit, TypeCorrect, PTL DEF Spec

\* Nothing waits in flight without a sweep that could time it out.
COROLLARY TimedCorrect == Spec => []InFlightIsTimed
<1> QED BY FieldsCorrect, PTL

\* A disconnected object keeps no socket, timer or request.
COROLLARY CleanCorrect == Spec => []DisconnectedIsClean
<1> QED BY FieldsCorrect, PTL

-----------------------------------------------------------------------------
(* Refinement: BrokerConnection implements RequestChannel when every       *)
(* response arrives whole (SplitFrames is FALSE).  Each step of the        *)
(* connection is a step of the channel or leaves it unchanged.             *)

\* Where no response is split nothing is ever kept in the buffer.
BufferEmpty == buffer = NoSocket

\* A new connection is a channel without calls.
LEMMA ChannelInit == Init => Channel!Init
BY DEF Init, Channel!Init, channelStatus

\* What leaves the promises alone is not seen by the callers.
LEMMA ChannelStutter ==
    ASSUME UNCHANGED <<req, answer>>
    PROVE  UNCHANGED Channel!vars
BY DEF Channel!vars, channelStatus

\* Rejecting a set of waiting calls is a Fail of the channel.
LEMMA ChannelFail ==
    ASSUME TypeOK, NEW R \in SUBSET Requests,
           \A r \in R : Unsettled(r),
           req' = [r \in Requests |-> IF r \in R THEN "rejected" ELSE req[r]],
           UNCHANGED answer
    PROVE  Channel!Fail(R)
BY DEF TypeOK, Channel!Fail, channelStatus, Unsettled

\* And so a step of it.
LEMMA ChannelFailNext ==
    ASSUME NEW R \in SUBSET Requests, Channel!Fail(R)
    PROVE  Channel!Next
BY DEF Channel!Next

\* Rejecting all that is in flight rejects only calls that wait.
LEMMA ChannelReject ==
    ASSUME TypeOK, RequestsInv, RejectInFlight
    PROVE  Channel!Next
<1> DEFINE R == {r \in Requests : Tracked(r)}
<1>1. \A r \in R : Unsettled(r)
  BY ConnectionAssumption DEF RequestsInv, InFlightExact, Tracked
<1>2. /\ req' = [r \in Requests |-> IF r \in R THEN "rejected" ELSE req[r]]
      /\ UNCHANGED answer
  BY DEF RejectInFlight
<1>3. R \in SUBSET Requests
  OBVIOUS
<1> HIDE DEF R
<1> QED BY <1>1, <1>2, <1>3, ChannelFail, ChannelFailNext

\* Every way of closing is a step of the channel, or none.
LEMMA ChannelClosing ==
    ASSUME TypeOK, RequestsInv, CloseFields \/ disconnect \/ onDisconnect \/ onError
    PROVE  [Channel!Next]_Channel!vars
<1>1. CASE RejectInFlight
  BY <1>1, ChannelReject
<1>2. CASE UNCHANGED <<inFlight, requests>>
  BY <1>2, ChannelStutter DEF requests
<1> QED BY <1>1, <1>2, ClosingRejectsOrKeeps

\* Responses find their own requests under their ids, or nobody: an Answer of
\* those that still wait.
LEMMA ChannelAnswer ==
    ASSUME TypeOK, RequestsInv, NEW s \in Sockets, IncomingFrames(s)
    PROVE  Channel!Next
<1>1. PICK R \in SUBSET wire[s] :
          \E from \in [{reqId[r] : r \in R} -> R] :
              /\ \A i \in DOMAIN from : reqId[from[i]] = i
              /\ handleResponses(from)
  BY DEF IncomingFrames
<1>2. PICK from \in [{reqId[r] : r \in R} -> R] :
          /\ \A i \in DOMAIN from : reqId[from[i]] = i
          /\ handleResponses(from)
  BY <1>1
<1> DEFINE F == Found(DOMAIN from)
<1>3. F \in SUBSET Requests
  BY DEF Found
<1>4. ASSUME NEW r \in F
      PROVE  Unsettled(r) /\ from[reqId[r]] = r
  <2>1. r \in Requests /\ reqId[r] \in Ids /\ reqId[r] \in DOMAIN from
             /\ inFlight[reqId[r]] = r
    BY <1>4 DEF TypeOK, Found
  <2>2. Unsettled(r)
    BY <2>1, ConnectionAssumption DEF RequestsInv, InFlightExact
  <2>3. from[reqId[r]] \in R /\ R \subseteq Requests /\ reqId[from[reqId[r]]] = reqId[r]
    BY <1>2, <2>1 DEF TypeOK
  <2>4. Live(r) /\ Live(from[reqId[r]])
    BY <2>2, <2>3 DEF Live, OnWire
  <2> QED BY <2>1, <2>2, <2>3, <2>4, IdsDistinct DEF RequestsInv, LiveIdsDistinct
<1>5. /\ req' = [r \in Requests |-> IF r \in F THEN "resolved" ELSE req[r]]
      /\ answer' = [r \in Requests |-> IF r \in F THEN from[reqId[r]] ELSE answer[r]]
  BY <1>2 DEF handleResponses
<1> HIDE DEF F
<1>6. \A r \in F : channelStatus[r] = "pending"
  BY <1>3, <1>4 DEF channelStatus, Unsettled
<1>7. channelStatus' = [r \in Requests |-> IF r \in F THEN "resolved" ELSE channelStatus[r]]
  BY <1>5 DEF channelStatus
<1>8. answer' = [r \in Requests |-> IF r \in F THEN r ELSE answer[r]]
  BY <1>4, <1>5
<1>9. Channel!Answer(F)
  BY <1>6, <1>7, <1>8 DEF Channel!Answer
<1> QED BY <1>3, <1>9 DEF Channel!Next

\* send() issues a call or refuses it.
LEMMA ChannelCalls ==
    ASSUME TypeOK, NEW r \in Requests, RequestStep(r)
    PROVE  [Channel!Next]_Channel!vars
<1>1. CASE Send(r)
  <2>1. Channel!Issue(r)
    BY <1>1 DEF TypeOK, Send, Fresh, Live, Unsettled, Channel!Issue, channelStatus
  <2> QED BY <2>1 DEF Channel!Next
<1>2. CASE SendNotConnected(r) \/ SendTooLarge(r)
  <2>1. Channel!Refuse(r)
    <3>1. /\ ~Unsettled(r)
          /\ req' = [req EXCEPT ![r] = "rejected"]
          /\ answer' = [answer EXCEPT ![r] = NoRequest]
      BY <1>2 DEF SendNotConnected, SendTooLarge, Fresh, Live
    <3>2. channelStatus[r] # "pending"
      BY <3>1 DEF TypeOK, Unsettled, channelStatus
    <3>3. channelStatus' = [channelStatus EXCEPT ![r] = "rejected"]
      BY <3>1 DEF TypeOK, channelStatus
    <3> QED BY <3>1, <3>2, <3>3 DEF Channel!Refuse
  <2> QED BY <2>1 DEF Channel!Next
<1>3. CASE Expire(r)
  <2>1. UNCHANGED Channel!vars
    BY <1>3 DEF TypeOK, Expire, Channel!vars, channelStatus
  <2> QED BY <2>1
<1> QED BY <1>1, <1>2, <1>3 DEF RequestStep

\* A failed write fails its own request, if that still waits.
LEMMA ChannelWriteError ==
    ASSUME TypeOK, NEW s \in Sockets, NEW r \in Requests, WriteError(s, r)
    PROVE  [Channel!Next]_Channel!vars
<1>1. CASE Unsettled(r)
  <2> DEFINE R == {r}
  <2>1. /\ req' = [x \in Requests |-> IF x \in R THEN "rejected" ELSE req[x]]
        /\ UNCHANGED answer
    BY <1>1 DEF TypeOK, WriteError
  <2>2. R \in SUBSET Requests /\ \A x \in R : Unsettled(x)
    BY <1>1
  <2> HIDE DEF R
  <2> QED BY <2>1, <2>2, ChannelFail, ChannelFailNext
<1>2. CASE ~Unsettled(r)
  <2>1. UNCHANGED <<req, answer>>
    BY <1>2 DEF TypeOK, WriteError
  <2> QED BY <2>1, ChannelStutter
<1> QED BY <1>1, <1>2

\* The sweep fails the calls that are late.
LEMMA ChannelTick ==
    ASSUME TypeOK, Tick
    PROVE  Channel!Next
<1> DEFINE R == {r \in Requests : Late(r)}
<1>1. \A r \in R : Unsettled(r)
  BY DEF Late, Unsettled
<1>2. /\ req' = [r \in Requests |-> IF r \in R THEN "rejected" ELSE req[r]]
      /\ UNCHANGED answer
  BY DEF Tick
<1>3. R \in SUBSET Requests
  OBVIOUS
<1> HIDE DEF R
<1> QED BY <1>1, <1>2, <1>3, ChannelFail, ChannelFailNext

\* No handler fills the buffer.
LEMMA BufferStaysEmpty ==
    ASSUME SplitFrames = FALSE, BufferEmpty, [Next]_vars
    PROVE  BufferEmpty'
BY DEF BufferEmpty, Next, SocketStep, RequestStep, vars, StartConnect, ConnectTimeout,
   ConnectThrows, SocketConnected, SocketError, SocketEnd, SocketClose, SocketTimeout,
   IncomingFrames, IncomingPartial, IncomingMisframed, WriteError, JoinConnect, SendNotConnected,
   SendTooLarge, Send, Expire, Tick, Disconnect

\* Every handler is a step of the channel or leaves it unchanged.
LEMMA ChannelStep ==
    ASSUME TypeOK, RequestsInv, BufferEmpty, [Next]_vars
    PROVE  [Channel!Next]_Channel!vars
<1>1. ASSUME NEW s \in Sockets,
             StartConnect(s) \/ SocketConnected(s) \/ IncomingPartial(s)
      PROVE  [Channel!Next]_Channel!vars
  BY <1>1, ChannelStutter DEF StartConnect, SocketConnected, IncomingPartial, requests
<1>2. ASSUME NEW s \in Sockets, ConnectTimeout(s) \/ SocketTimeout(s)
      PROVE  [Channel!Next]_Channel!vars
  BY <1>2, ChannelClosing DEF ConnectTimeout, SocketTimeout
<1>3. ASSUME NEW s \in Sockets, SocketError(s) \/ SocketEnd(s) \/ SocketClose(s)
      PROVE  [Channel!Next]_Channel!vars
  BY <1>3, ChannelClosing, ChannelStutter DEF SocketError, SocketEnd, SocketClose, requests
<1>4. ASSUME NEW s \in Sockets, IncomingMisframed(s)
      PROVE  FALSE
  BY <1>4 DEF IncomingMisframed, BufferEmpty
<1>5. ASSUME NEW j \in Joiners, JoinConnect(j)
      PROVE  [Channel!Next]_Channel!vars
  BY <1>5, ChannelStutter DEF JoinConnect, requests
<1>6. CASE Disconnect
  BY <1>6, ChannelClosing DEF Disconnect
<1>7. CASE ConnectThrows \/ UNCHANGED vars
  BY <1>7, ChannelStutter DEF ConnectThrows, vars, requests
<1> QED
  BY <1>1, <1>2, <1>3, <1>4, <1>5, <1>6, <1>7, ChannelAnswer, ChannelWriteError,
     ChannelCalls, ChannelTick DEF Next, SocketStep

\* When responses arrive whole, a connection is a RequestChannel: a call
\* settles once, by its own response or by an error.
THEOREM ImplementsChannel ==
    ASSUME SplitFrames = FALSE
    PROVE  Spec => ChannelSpec
<1>1. TypeOK /\ RequestsInv /\ [Next]_vars => RequestsInv'
  BY RequestsInvStep
<1>2. BufferEmpty /\ [Next]_vars => BufferEmpty'
  BY BufferStaysEmpty
<1>3. Init => BufferEmpty
  BY DEF Init, BufferEmpty
<1>4. TypeOK /\ RequestsInv /\ BufferEmpty /\ [Next]_vars => [Channel!Next]_Channel!vars
  BY ChannelStep
<1> QED
  BY <1>1, <1>2, <1>3, <1>4, ChannelInit, RequestsInvInit, TypeCorrect, PTL
     DEF Spec, ChannelSpec, Channel!Spec

\* An update of one place leaves the others.
LEMMA ExceptElsewhere ==
    ASSUME NEW S, NEW T, NEW f \in [S -> T], NEW r \in S, NEW v
    PROVE  \A x \in S \ {r} : [f EXCEPT ![r] = v][x] = f[x]
OBVIOUS

\* Only a step of the channel sets an answer, to the request itself.
LEMMA AnswersMatchStep ==
    ASSUME TypeOK, TypeOK', AnswersMatch, [Channel!Next]_Channel!vars
    PROVE  AnswersMatch'
<1>1. \A r \in Requests : /\ req[r] = "resolved" <=> channelStatus[r] = "resolved"
                          /\ (req[r] = "resolved" <=> channelStatus[r] = "resolved")'
  BY DEF channelStatus
<1>2. CASE UNCHANGED Channel!vars
  BY <1>1, <1>2 DEF AnswersMatch, Channel!vars
<1>3. ASSUME NEW r \in Requests, Channel!Issue(r) \/ Channel!Refuse(r)
      PROVE  AnswersMatch'
  <2>1. /\ channelStatus \in [Requests -> {"idle", "pending", "resolved", "rejected"}]
        /\ answer \in [Requests -> Requests \cup {NoRequest}]
    BY DEF TypeOK, channelStatus
  <2>2. \A x \in Requests \ {r} : channelStatus'[x] = channelStatus[x] /\ answer'[x] = answer[x]
    <3>1. CASE Channel!Issue(r)
      BY <2>1, <3>1, ExceptElsewhere DEF Channel!Issue
    <3>2. CASE Channel!Refuse(r)
      BY <2>1, <3>2, ExceptElsewhere DEF Channel!Refuse
    <3> QED BY <1>3, <3>1, <3>2
  <2>3. channelStatus'[r] = "resolved" => answer'[r] = r
    <3>1. CASE Channel!Issue(r)
      BY <2>1, <3>1 DEF Channel!Issue
    <3>2. CASE Channel!Refuse(r)
      BY <2>1, <3>2 DEF Channel!Refuse
    <3> QED BY <1>3, <3>1, <3>2
  <2> QED BY <1>1, <2>2, <2>3 DEF AnswersMatch
<1>4. ASSUME NEW R \in SUBSET Requests, Channel!Fail(R)
      PROVE  AnswersMatch'
  <2>1. \A x \in Requests : /\ channelStatus'[x] = "resolved" => channelStatus[x] = "resolved"
                            /\ answer'[x] = answer[x]
    BY <1>4 DEF Channel!Fail
  <2> QED BY <1>1, <2>1 DEF AnswersMatch
<1>5. ASSUME NEW R \in SUBSET Requests, Channel!Answer(R)
      PROVE  AnswersMatch'
  <2>1. \A x \in Requests : /\ channelStatus'[x] = IF x \in R THEN "resolved"
                                                    ELSE channelStatus[x]
                            /\ answer'[x] = IF x \in R THEN x ELSE answer[x]
    BY <1>5 DEF Channel!Answer
  <2> QED BY <1>1, <2>1 DEF AnswersMatch
<1> QED BY <1>2, <1>3, <1>4, <1>5 DEF Channel!Next

\* A resolved call carries the response to itself, whatever timed out, was
\* written or was reconnected before.
THEOREM AnswersCorrect ==
    ASSUME SplitFrames = FALSE
    PROVE  Spec => []AnswersMatch
<1>1. Init => AnswersMatch
  BY DEF Init, AnswersMatch
<1>2. TypeOK /\ TypeOK' /\ AnswersMatch /\ [Channel!Next]_Channel!vars => AnswersMatch'
  BY AnswersMatchStep
<1> QED
  BY <1>1, <1>2, ImplementsChannel, TypeCorrect, PTL DEF Spec, ChannelSpec, Channel!Spec
=============================================================================

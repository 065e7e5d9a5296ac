---------------------------- MODULE AdminClient ----------------------------
(***************************************************************************)
(* AdminClient (src/admin/AdminClient.ts): operations that connect when    *)
(* they have to, wait, and only then go through the array or map that the  *)
(* caller handed over and still holds.                                     *)
(***************************************************************************)
EXTENDS Integers

CONSTANTS
    Ops,         \* calls of operations
    Connects,    \* calls of connect() by the application, and create()
    Closes,      \* calls of close()
    TopicNames,  \* topics, and the configuration resources of that type
    BrokerNames, \* configuration resources that are brokers
    OtherNames   \* configuration resources of the other two types

\* Calls are of one kind, and so are names.
OpsDistinct ==
    /\ Ops \cap (Connects \cup Closes) = {} /\ Connects \cap Closes = {}
    /\ TopicNames \cap (BrokerNames \cup OtherNames) = {} /\ BrokerNames \cap OtherNames = {}

VARIABLES
    isInitialized,
    isClosed,
    at,          \* where each call is
    kind,        \* the operation
    collection,  \* what the caller's array or map holds now
    result       \* what the operation resolved with

vars == <<isInitialized, isClosed, at, kind, collection, result>>

\* Where a call waits for a timer, and where it has settled.
Waits == {"connecting", "waiting", "closing"}
Settled == {"done", "refused", "rejected"}

Calls == Ops \cup Connects \cup Closes
Names == TopicNames \cup BrokerNames \cup OtherNames

Keyed == {"createTopics", "deleteTopics", "createPartitions"}
Configs == {"alterConfigs", "describeConfigs"}
Kinds == Keyed \cup Configs \cup {"describeTopics", "listTopics"}

\* What an operation may be asked about.
Collections(k) ==
    IF k \in Configs THEN SUBSET Names ELSE IF k = "listTopics" THEN {{}} ELSE SUBSET TopicNames

Init ==
    /\ isInitialized = FALSE
    /\ isClosed = FALSE
    /\ at = [c \in Calls |-> "idle"]
    /\ kind = [o \in Ops |-> "listTopics"]
    /\ collection = [o \in Ops |-> {}]
    /\ result = [o \in Ops |-> <<>>]

-----------------------------------------------------------------------------
Goes(c, where) == at' = [at EXCEPT ![c] = where]

\* connect(): each call that finds no connection waits for its own timer.
Connect(c) ==
    /\ at[c] = "idle"
    /\ Goes(c, IF isInitialized THEN "done" ELSE "connecting")
    /\ UNCHANGED <<isInitialized, isClosed, kind, collection, result>>

\* ensureConnected(): closed first, then the connection; what close() does in
\* the meantime is not looked at again.
ensureConnected(o) ==
    Goes(o, IF isClosed THEN "refused"
            ELSE IF ~isInitialized THEN "connecting" ELSE "waiting")

Call(o) ==
    /\ at[o] = "idle"
    /\ ensureConnected(o)
    /\ \E k \in Kinds : \E names \in Collections(k) :
           /\ kind' = [kind EXCEPT ![o] = k]
           /\ collection' = [collection EXCEPT ![o] = names]
    /\ UNCHANGED <<isInitialized, isClosed, result>>

\* Mutants (names in Mut...) are plausible wrong versions of the definition
\* that follows.
MutClosedConnectsAgain(c) ==
    Goes(c, IF c \notin Ops THEN "done" ELSE IF isClosed THEN "connecting" ELSE "waiting")

\* An operation goes on to its own delay.
AfterConnect(c) == Goes(c, IF c \in Ops THEN "waiting" ELSE "done")

\* The timer of a connect().
Connected(c) ==
    /\ at[c] = "connecting"
    /\ isInitialized' = TRUE
    /\ AfterConnect(c)
    /\ UNCHANGED <<isClosed, kind, collection, result>>

\* The same when a listener of 'ready' throws: connect() rejects, and with it
\* the operation that called it.
ReadyThrows(c) ==
    /\ at[c] = "connecting"
    /\ isInitialized' = TRUE
    /\ Goes(c, "rejected")
    /\ UNCHANGED <<isClosed, kind, collection, result>>

\* The caller adds to its array or map, or takes from it.
Change(o) ==
    /\ at[o] \in {"connecting", "waiting"}
    /\ \E names \in Collections(kind[o]) \ {collection[o]} :
           collection' = [collection EXCEPT ![o] = names]
    /\ UNCHANGED <<isInitialized, isClosed, at, kind, result>>

\* What each name is answered with: the number of partitions or of
\* configuration entries, none for an operation that only succeeds.
Acknowledged(names) == [n \in names |-> 0]
Described(names) == [n \in names |-> 3]
Configured(names) == [n \in names |-> IF n \in OtherNames THEN 0 ELSE 4]
Listed == [n \in TopicNames |-> 0]

\* The maps are built after the delay, a name that comes twice once.
Answer(o) ==
    CASE kind[o] \in Keyed \cup {"alterConfigs"} -> Acknowledged(collection[o])
      [] kind[o] = "describeTopics" -> Described(collection[o])
      [] kind[o] = "describeConfigs" -> Configured(collection[o])
      [] kind[o] = "listTopics" -> Listed

Finish(o) ==
    /\ at[o] = "waiting"
    /\ result' = [result EXCEPT ![o] = Answer(o)]
    /\ Goes(o, "done")
    /\ UNCHANGED <<isInitialized, isClosed, kind, collection>>

Close(c) ==
    /\ at[c] = "idle"
    /\ Goes(c, IF isClosed THEN "done" ELSE "closing")
    /\ UNCHANGED <<isInitialized, isClosed, kind, collection, result>>

Closed(c) ==
    /\ at[c] = "closing"
    /\ isClosed' = TRUE
    /\ Goes(c, "done")
    /\ UNCHANGED <<isInitialized, kind, collection, result>>

\* The same when a listener of 'close' throws.
CloseThrows(c) ==
    /\ at[c] = "closing"
    /\ isClosed' = TRUE
    /\ Goes(c, "rejected")
    /\ UNCHANGED <<isInitialized, kind, collection, result>>

\* A timer fires.
Fires ==
    \/ \E c \in Ops \cup Connects : Connected(c) \/ ReadyThrows(c)
    \/ \E o \in Ops : Finish(o)
    \/ \E c \in Closes : Closed(c) \/ CloseThrows(c)

Next ==
    \/ Fires
    \/ \E c \in Connects : Connect(c)
    \/ \E o \in Ops : Call(o) \/ Change(o)
    \/ \E c \in Closes : Close(c)

Spec == Init /\ [][Next]_vars

\* Every timer fires, unless its call was settled by the same one in the other
\* way.
Fairness ==
    /\ \A c \in Ops \cup Connects : WF_vars(Connected(c))
    /\ \A o \in Ops : WF_vars(Finish(o))
    /\ \A c \in Closes : WF_vars(Closed(c))

-----------------------------------------------------------------------------
\* Every call settles, also an operation that close() overtakes while it
\* connects, and one whose collection the caller keeps changing.
CallsSettle == \A c \in Calls : at[c] \in Waits ~> at[c] \in Settled
=============================================================================

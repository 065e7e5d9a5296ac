--------------------------- MODULE KafkaConsumer ---------------------------
(***************************************************************************)
(* KafkaConsumer (src/consumer/KafkaConsumer.ts): subscription and         *)
(* assignment, the polling interval, close().                              *)
(*                                                                         *)
(* The methods are synchronous up to their first await, but they call the  *)
(* application back in their middle: onPartitionsRevoked and 'rebalance'   *)
(* during subscribe(), onPartitionsRevoked during unsubscribe() and        *)
(* close(), 'data' during poll().  A callback may call any method again,   *)
(* so the calls that are under way are a stack; timers fire only when it   *)
(* is empty.  What follows the last callback of a method is part of the    *)
(* step that ends it, as nothing of that method is left to do.             *)
(*                                                                         *)
(* A topic stands for its partitions, which come and go together.          *)
(***************************************************************************)
EXTENDS Integers, Sequences

CONSTANTS
    Topics,
    MaxCalls,    \* bound on the calls of the application
    MaxDepth,    \* bound on the calls inside callbacks of calls
    MaxRecords   \* bound on the records of one poll (the code has 9)

ASSUME ConsumerAssumption ==
    /\ MaxCalls \in Nat
    /\ MaxDepth \in Nat
    /\ MaxRecords \in Nat

VARIABLES
    isInitialized,
    isClosed,
    isRunning,
    pollInterval,        \* whether a handle is kept
    intervals,           \* how many intervals are armed in the runtime
    rebalanceListener,   \* whether the application gave one
    assignedPartitions,
    subscriptions,
    connecting,          \* connect() calls waiting for their timer
    closing,             \* close() calls waiting for their timer
    stack,               \* calls waiting for a callback to return, the last one on top
    owned,               \* what the listener was told that it has
    bypassed,            \* the application went past its listener, see Bypass
    reopened,            \* the application used the consumer while it closed
    calls                \* calls of the application so far

lifecycle == <<isInitialized, isClosed, connecting, closing>>
polling == <<isRunning, pollInterval, intervals>>
assignment == <<rebalanceListener, assignedPartitions, subscriptions, owned, bypassed>>
vars == <<lifecycle, polling, assignment, stack, reopened, calls>>

\* What a call waits for, and the records it has still to emit.
Frames == [at : {"rebalance", "unsubscribe", "close", "data"}, left : 0 .. MaxRecords]

Frame(at) == [at |-> at, left |-> 0]

TypeOK ==
    /\ isInitialized \in BOOLEAN
    /\ isClosed \in BOOLEAN
    /\ isRunning \in BOOLEAN
    /\ pollInterval \in BOOLEAN
    /\ intervals \in Nat
    /\ rebalanceListener \in BOOLEAN
    /\ assignedPartitions \subseteq Topics
    /\ subscriptions \subseteq Topics
    /\ connecting \in Nat
    /\ closing \in Nat
    /\ stack \in Seq(Frames)
    /\ owned \subseteq Topics
    /\ bypassed \in BOOLEAN
    /\ reopened \in BOOLEAN
    /\ calls \in 0 .. MaxCalls

Init ==
    /\ isInitialized = FALSE
    /\ isClosed = FALSE
    /\ isRunning = FALSE
    /\ pollInterval = FALSE
    /\ intervals = 0
    /\ rebalanceListener = FALSE
    /\ assignedPartitions = {}
    /\ subscriptions = {}
    /\ connecting = 0
    /\ closing = 0
    /\ stack = <<>>
    /\ owned = {}
    /\ bypassed = FALSE
    /\ reopened = FALSE
    /\ calls = 0

-----------------------------------------------------------------------------
Top == stack[Len(stack)]
Below == SubSeq(stack, 1, Len(stack) - 1)

\* Calls of the given kinds that are under way.
UnderWay(kinds) == \E i \in 1 .. Len(stack) : stack[i].at \in kinds

\* The application calls a method, from its own code or from a callback.
Called ==
    /\ calls < MaxCalls
    /\ calls' = calls + 1

\* The method calls back before it has done all it does.
CallsBack(frame) ==
    /\ Len(stack) <= MaxDepth
    /\ stack' = Append(stack, frame)

\* onPartitionsRevoked and onPartitionsAssigned, as a listener that keeps
\* what it has takes them.
Revoke(listener) == owned' = IF listener THEN owned \ assignedPartitions ELSE owned
Assigned(listener, topics) == owned' = IF listener THEN owned \cup topics ELSE owned

\* subscribe(), assign() or start() between the start of a close() and its end.
Reopens == reopened' = (reopened \/ closing > 0 \/ UnderWay({"close"}))

\* The ways past the listener: assign() under a listener, an exception out of
\* a 'rebalance' event, and subscribe() from the onPartitionsRevoked of an
\* unsubscribe(), which forgets the new assignment when it returns.
Bypass(condition) == bypassed' = (bypassed \/ condition)

-----------------------------------------------------------------------------
\* connect(), which nothing keeps from running twice at once, nor after close().
connect ==
    /\ Called
    /\ ~isInitialized
    /\ connecting' = connecting + 1
    /\ UNCHANGED <<isInitialized, isClosed, closing, polling, assignment, stack, reopened>>

Connected ==
    /\ stack = <<>>
    /\ connecting > 0
    /\ connecting' = connecting - 1
    /\ isInitialized' = TRUE
    /\ UNCHANGED <<isClosed, closing, polling, assignment, stack, reopened, calls>>

Usable == isInitialized /\ ~isClosed

\* subscribe(topics, listener), with the first part of simulateRebalance: it
\* runs to its end when there is nothing to revoke.
subscribe(topics, listener) ==
    /\ Called
    /\ Usable
    /\ subscriptions' = topics
    /\ rebalanceListener' = (rebalanceListener \/ listener)
    /\ IF assignedPartitions = {}
       THEN /\ assignedPartitions' = topics
            /\ Assigned(rebalanceListener', topics)
            /\ UNCHANGED stack
       ELSE /\ Revoke(rebalanceListener')
            /\ CallsBack(Frame("rebalance"))
            /\ UNCHANGED assignedPartitions
    /\ Bypass(UnderWay({"unsubscribe", "close"}))
    /\ Reopens
    /\ UNCHANGED <<lifecycle, polling>>

\* Mutants (names in Mut...) are plausible wrong versions of the definition
\* that follows.
MutNotReset ==
    /\ stack # <<>>
    /\ Top.at = "rebalance"
    /\ assignedPartitions' = assignedPartitions \cup subscriptions
    /\ Assigned(rebalanceListener, assignedPartitions')
    /\ stack' = Below
    /\ UNCHANGED <<lifecycle, polling, rebalanceListener, subscriptions, bypassed, reopened,
                   calls>>

\* The rest of simulateRebalance, with the subscription as the callbacks left it.
EndRebalance ==
    /\ stack # <<>>
    /\ Top.at = "rebalance"
    /\ assignedPartitions' = subscriptions
    /\ Assigned(rebalanceListener, subscriptions)
    /\ stack' = Below
    /\ UNCHANGED <<lifecycle, polling, rebalanceListener, subscriptions, bypassed, reopened,
                   calls>>

\* A listener of 'rebalance' throws, and subscribe() with it.
RebalanceThrows ==
    /\ stack # <<>>
    /\ Top.at = "rebalance"
    /\ stack' = Below
    /\ Bypass(TRUE)
    /\ UNCHANGED <<lifecycle, polling, rebalanceListener, assignedPartitions, subscriptions,
                   owned, reopened, calls>>

assign(topics) ==
    /\ Called
    /\ Usable
    /\ subscriptions' = {}
    /\ assignedPartitions' = topics
    /\ Bypass(rebalanceListener)
    /\ Reopens
    /\ UNCHANGED <<lifecycle, polling, rebalanceListener, stack, owned>>

-----------------------------------------------------------------------------
MutForgetsToRevoke(caller, finished) ==
    /\ subscriptions' = {}
    /\ assignedPartitions' = {}
    /\ finished
    /\ UNCHANGED <<rebalanceListener, bypassed, stack, owned>>

\* unsubscribe(), as a call or inside close(): up to the callback or, when
\* there is none, to its end.
Unsubscribe(caller, finished) ==
    /\ subscriptions' = {}
    /\ IF rebalanceListener /\ assignedPartitions # {}
       THEN /\ Revoke(TRUE)
            /\ CallsBack(Frame(caller))
            /\ UNCHANGED <<assignedPartitions, closing>>
       ELSE /\ assignedPartitions' = {}
            /\ finished
            /\ UNCHANGED <<stack, owned>>
    /\ UNCHANGED <<rebalanceListener, bypassed>>

unsubscribe ==
    /\ Called
    /\ isInitialized
    /\ Unsubscribe("unsubscribe", UNCHANGED closing)
    /\ UNCHANGED <<isInitialized, isClosed, connecting, polling, reopened>>

\* onPartitionsRevoked returned or threw, which is caught.  A close() goes on
\* to wait for its timer.
EndUnsubscribe ==
    /\ stack # <<>>
    /\ Top.at \in {"unsubscribe", "close"}
    /\ assignedPartitions' = {}
    /\ closing' = IF Top.at = "close" THEN closing + 1 ELSE closing
    /\ stack' = Below
    /\ UNCHANGED <<isInitialized, isClosed, connecting, polling, rebalanceListener,
                   subscriptions, owned, bypassed, reopened, calls>>

-----------------------------------------------------------------------------
MutStartsAgain ==
    /\ Called
    /\ Usable
    /\ isRunning' = TRUE
    /\ pollInterval' = TRUE
    /\ intervals' = intervals + 1
    /\ Reopens
    /\ UNCHANGED <<lifecycle, assignment, stack>>

start ==
    /\ Called
    /\ Usable
    /\ ~isRunning
    /\ isRunning' = TRUE
    /\ pollInterval' = TRUE
    /\ intervals' = intervals + 1
    /\ Reopens
    /\ UNCHANGED <<lifecycle, assignment, stack>>

MutStopLeavesRunning == UNCHANGED polling

Stopped ==
    IF isRunning
    THEN /\ isRunning' = FALSE
         /\ pollInterval' = FALSE
         /\ intervals' = IF pollInterval THEN intervals - 1 ELSE intervals
    ELSE UNCHANGED polling

stop ==
    /\ Called
    /\ isRunning
    /\ Stopped
    /\ UNCHANGED <<lifecycle, assignment, stack, reopened>>

MutPollsWhenClosed == isInitialized

CanPoll == isInitialized /\ ~isClosed

\* poll() with n records.  The first one is emitted in this step; the commit
\* after the last one changes nothing here.
Polls(n) ==
    /\ CanPoll
    /\ assignedPartitions # {}
    /\ CallsBack([at |-> "data", left |-> n - 1])
    /\ UNCHANGED <<lifecycle, polling, assignment, reopened>>

poll == Called /\ \E n \in 1 .. MaxRecords : Polls(n)

IntervalFires ==
    /\ stack = <<>>
    /\ intervals > 0
    /\ \E n \in 1 .. MaxRecords : Polls(n)
    /\ UNCHANGED calls

MutOneMore ==
    /\ stack # <<>>
    /\ Top.at = "data"
    /\ stack' = IF Top.left >= 0 THEN Append(Below, [Top EXCEPT !.left = @ - 1]) ELSE Below
    /\ UNCHANGED <<lifecycle, polling, assignment, reopened, calls>>

\* The 'data' listeners returned: the next record, which was made before the
\* loop, or the end of the poll.
DataHandled ==
    /\ stack # <<>>
    /\ Top.at = "data"
    /\ stack' = IF Top.left > 0 THEN Append(Below, [Top EXCEPT !.left = @ - 1]) ELSE Below
    /\ UNCHANGED <<lifecycle, polling, assignment, reopened, calls>>

\* A 'data' listener throws: poll() rejects, the records left are not emitted.
DataThrows ==
    /\ stack # <<>>
    /\ Top.at = "data"
    /\ stack' = Below
    /\ UNCHANGED <<lifecycle, polling, assignment, reopened, calls>>

-----------------------------------------------------------------------------
\* close(): stop(), unsubscribe() when there is a connection, and the timer.
close ==
    /\ Called
    /\ ~isClosed
    /\ Stopped
    /\ IF isInitialized
       THEN Unsubscribe("close", closing' = closing + 1)
       ELSE closing' = closing + 1 /\ UNCHANGED <<assignment, stack>>
    /\ UNCHANGED <<isInitialized, isClosed, connecting, reopened>>

Closed ==
    /\ stack = <<>>
    /\ closing > 0
    /\ closing' = closing - 1
    /\ isClosed' = TRUE
    /\ UNCHANGED <<isInitialized, connecting, polling, assignment, stack, reopened, calls>>

Next ==
    \/ connect
    \/ Connected
    \/ \E topics \in SUBSET Topics, listener \in BOOLEAN : subscribe(topics, listener)
    \/ EndRebalance
    \/ RebalanceThrows
    \/ \E topics \in SUBSET Topics : assign(topics)
    \/ unsubscribe
    \/ EndUnsubscribe
    \/ start
    \/ stop
    \/ poll
    \/ IntervalFires
    \/ DataHandled
    \/ DataThrows
    \/ close
    \/ Closed

Spec == Init /\ [][Next]_vars

-----------------------------------------------------------------------------
\* A call that changes the assignment is under way.
Changing == UnderWay({"rebalance", "unsubscribe", "close"})

\* The listener knows what the consumer has, whatever it and the listeners of
\* the events call from inside the callbacks, unless the application went
\* past it.
ListenerInStep ==
    rebalanceListener /\ ~bypassed /\ ~Changing => owned = assignedPartitions

\* A consumer with a subscription consumes just that, also when callbacks
\* subscribe, unsubscribe or close in the middle of a rebalance.
SubscriptionIsServed ==
    subscriptions # {} /\ ~bypassed /\ ~Changing => assignedPartitions = subscriptions

\* There is one interval while the consumer runs and none when it does not,
\* and its handle is at hand: stop() and close() always end the polling.
IntervalIsOwned ==
    /\ intervals = IF isRunning THEN 1 ELSE 0
    /\ pollInterval <=> isRunning

\* No record is emitted once the consumer is closed: neither by the interval,
\* nor by a poll() whose loop was interrupted by a close().
ClosedIsQuiet == isClosed => ~UnderWay({"data"})

\* A closed consumer polls no more and holds no partition, unless the
\* application started, subscribed or assigned while it closed.
CloseReleases ==
    isClosed /\ ~reopened =>
        intervals = 0 /\ assignedPartitions = {} /\ subscriptions = {}
=============================================================================

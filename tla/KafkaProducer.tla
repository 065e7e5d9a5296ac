--------------------------- MODULE KafkaProducer ---------------------------
(***************************************************************************)
(* KafkaProducer (src/producer/KafkaProducer.ts): connect, send, flush and *)
(* close as calls that run side by side, each waiting for timers of its    *)
(* own.                                                                    *)
(*                                                                         *)
(* Time is counted in ticks of 100 ms, which divide every delay of the     *)
(* code.  It advances when no timer is due, so timers fire in the order of *)
(* their deadlines, and in either order when these are equal.              *)
(***************************************************************************)
EXTENDS Integers, Sequences

CONSTANTS
    Sends,      \* calls of send(), each with a record and a callback
    Connects,   \* calls of connect() by the application
    Flushes,    \* calls of flush()
    Closes      \* calls of close()

ASSUME CallsDistinct ==
    /\ Sends \cap (Connects \cup Flushes \cup Closes) = {}
    /\ Connects \cap (Flushes \cup Closes) = {}
    /\ Flushes \cap Closes = {}

VARIABLES
    isInitialized,
    isClosed,
    at,         \* where each call is
    timer,      \* ticks left of the timer that a call waits for
    called,     \* what the callback of each send was called with
    before      \* records on their way when a flush() or close() was called

producerVars == <<isInitialized, isClosed, at, timer, called, before>>

Calls == Sends \cup Connects \cup Flushes \cup Closes

ConnectDelay == 5
SendDelay == 1
FlushDelay == 2
CloseDelay == 3

\* Where a call waits for a timer, and where it has settled.  A call is
\* "refused" when a listener of 'ready' or 'close' throws.
Waits == {"connecting", "sending", "flushing", "closing"}
Settled == {"done", "failed", "refused"}

ProducerTypeOK ==
    /\ isInitialized \in BOOLEAN
    /\ isClosed \in BOOLEAN
    /\ at \in [Calls -> {"idle"} \cup Waits \cup Settled]
    /\ timer \in [Calls -> 0 .. ConnectDelay]
    /\ called \in [Sends -> Seq({"ok", "error"})]
    /\ before \in [Flushes \cup Closes -> SUBSET Sends]

ProducerInit ==
    /\ isInitialized = FALSE
    /\ isClosed = FALSE
    /\ at = [c \in Calls |-> "idle"]
    /\ timer = [c \in Calls |-> 0]
    /\ called = [s \in Sends |-> <<>>]
    /\ before = [c \in Flushes \cup Closes |-> {}]

-----------------------------------------------------------------------------
\* A call goes on to wait for its next timer, or settles.
Await(c, where, delay) ==
    /\ at' = [at EXCEPT ![c] = where]
    /\ timer' = [timer EXCEPT ![c] = delay]

Settle(c, outcome) == at' = [at EXCEPT ![c] = outcome] /\ UNCHANGED timer

Due(c, where) == at[c] = where /\ timer[c] = 0

onCompletion(s, results) == called' = [called EXCEPT ![s] = @ \o results]

\* 100 ms pass.
Tick ==
    /\ \E c \in Calls : at[c] \in Waits
    /\ \A c \in Calls : at[c] \in Waits => timer[c] > 0
    /\ timer' = [c \in Calls |-> IF at[c] \in Waits THEN timer[c] - 1 ELSE 0]
    /\ UNCHANGED <<isInitialized, isClosed, at, called, before>>

\* connect() by the application: every call until one is through has a timer
\* of its own and ends with 'ready'.
Connect(c) ==
    /\ at[c] = "idle"
    /\ IF isInitialized
       THEN Settle(c, "done")
       ELSE Await(c, "connecting", ConnectDelay)
    /\ UNCHANGED <<isInitialized, isClosed, called, before>>

\* Mutants (names in Mut...) are plausible wrong versions of the definition
\* that follows.
MutClosedNotCalledBack(s) ==
    \/ isClosed /\ Settle(s, "failed") /\ UNCHANGED called
    \/ ~isClosed /\ Await(s, "sending", SendDelay) /\ UNCHANGED called

MutClosedNotChecked(s) == Await(s, "sending", SendDelay) /\ UNCHANGED called

MutClosedConnectsAgain(s) ==
    \/ isClosed /\ Await(s, "connecting", ConnectDelay) /\ UNCHANGED called
    \/ ~isClosed /\ Await(s, "sending", SendDelay) /\ UNCHANGED called

\* send() once there is a connection: a closed producer, or a record without
\* a topic, fails; otherwise the record is on its way.
Accept(s) ==
    \/ Settle(s, "failed") /\ onCompletion(s, <<"error">>)
    \/ ~isClosed /\ Await(s, "sending", SendDelay) /\ UNCHANGED called

Send(s) ==
    /\ at[s] = "idle"
    /\ IF isInitialized
       THEN Accept(s)
       ELSE Await(s, "connecting", ConnectDelay) /\ UNCHANGED called
    /\ UNCHANGED <<isInitialized, isClosed, before>>

\* The timer of a connect(), the application's or a send's, which goes on.
Connected(c) ==
    /\ Due(c, "connecting")
    /\ isInitialized' = TRUE
    /\ IF c \in Sends THEN Accept(c) ELSE Settle(c, "done") /\ UNCHANGED called
    /\ UNCHANGED <<isClosed, before>>

\* The same when a listener of 'ready' throws: connect() rejects, and send()
\* with it, before it has looked at its callback.
ReadyThrows(c) ==
    /\ Due(c, "connecting")
    /\ isInitialized' = TRUE
    /\ Settle(c, "refused")
    /\ UNCHANGED <<isClosed, called, before>>

\* The record is sent.  A callback that throws is called again, with its own
\* error.
Sent(s) ==
    /\ Due(s, "sending")
    /\ \/ Settle(s, "done") /\ onCompletion(s, <<"ok">>)
       \/ Settle(s, "failed") /\ onCompletion(s, <<"ok", "error">>)
    /\ UNCHANGED <<isInitialized, isClosed, before>>

OnTheirWay == {s \in Sends : at[s] = "sending"}

MutNoFlush(c, next) == next

\* flush(), as a call or inside close().
StartFlush(c, next) ==
    IF isInitialized THEN Await(c, "flushing", FlushDelay) ELSE next

Flush(c) ==
    /\ at[c] = "idle"
    /\ StartFlush(c, Settle(c, "done"))
    /\ before' = [before EXCEPT ![c] = OnTheirWay]
    /\ UNCHANGED <<isInitialized, isClosed, called>>

Close(c) ==
    /\ at[c] = "idle"
    /\ IF isClosed
       THEN Settle(c, "done") /\ UNCHANGED before
       ELSE /\ StartFlush(c, Await(c, "closing", CloseDelay))
            /\ before' = [before EXCEPT ![c] = OnTheirWay]
    /\ UNCHANGED <<isInitialized, isClosed, called>>

Flushed(c) ==
    /\ Due(c, "flushing")
    /\ IF c \in Closes THEN Await(c, "closing", CloseDelay) ELSE Settle(c, "done")
    /\ UNCHANGED <<isInitialized, isClosed, called, before>>

Closed(c) ==
    /\ Due(c, "closing")
    /\ isClosed' = TRUE
    /\ Settle(c, "done")
    /\ UNCHANGED <<isInitialized, called, before>>

\* The same when a listener of 'close' throws: close() rejects, but the producer
\* is closed.
CloseThrows(c) ==
    /\ Due(c, "closing")
    /\ isClosed' = TRUE
    /\ Settle(c, "refused")
    /\ UNCHANGED <<isInitialized, called, before>>

\* A timer that is due fires.
Fires ==
    \/ \E c \in Sends \cup Connects : Connected(c) \/ ReadyThrows(c)
    \/ \E s \in Sends : Sent(s)
    \/ \E c \in Flushes \cup Closes : Flushed(c)
    \/ \E c \in Closes : Closed(c) \/ CloseThrows(c)

ProducerNext ==
    \/ Tick
    \/ Fires
    \/ \E c \in Connects : Connect(c)
    \/ \E s \in Sends : Send(s)
    \/ \E c \in Flushes : Flush(c)
    \/ \E c \in Closes : Close(c)

ProducerSpec == ProducerInit /\ [][ProducerNext]_producerVars

\* Time passes and timers fire; nobody has to call anything.
Fairness == WF_producerVars(Tick) /\ WF_producerVars(Fires)

-----------------------------------------------------------------------------
\* "Called when the send operation completes" (src/producer/Callback.ts): when
\* a send() has settled, its callback was called, and once.
CallbackCalledOnce == \A s \in Sends : at[s] \in Settled => Len(called[s]) = 1

\* The callback and the promise of a send() that came past its connect() tell
\* the same in the end, also when the callback throws (send).
CallbackAgrees ==
    \A s \in Sends : at[s] \in {"done", "failed"} =>
        /\ called[s] # <<>>
        /\ (at[s] = "done") <=> (called[s][Len(called[s])] = "ok")

\* Nothing is sent by a producer that is closed: a send() that waited for the
\* connection while the producer was closed is not let through.
ClosedSendsNothing ==
    [][isClosed => \A s \in Sends : at[s] # "sending" => at[s]' # "sending"]_producerVars

\* When a flush(), or the flush of a close(), is through, every record that
\* was on its way when it was called has settled.
FlushWaits ==
    \A c \in Flushes \cup Closes :
        at[c] \in {"closing"} \cup Settled => \A s \in before[c] : at[s] \in Settled

\* Every call settles, however calls overlap.
CallsSettle == \A c \in Calls : at[c] \in Waits ~> at[c] \in Settled
=============================================================================

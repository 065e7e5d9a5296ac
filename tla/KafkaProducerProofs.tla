------------------------ MODULE KafkaProducerProofs ------------------------
(***************************************************************************)
(* Safety of KafkaProducer, for any number of calls of each kind.          *)
(***************************************************************************)
EXTENDS KafkaProducer, SequenceTheorems, TLAPS

\* A record is only sent by a producer that is connected, and soon.
SendingInv == \A s \in Sends : at[s] = "sending" => isInitialized /\ timer[s] <= SendDelay

\* A record that a flush waits for has settled, or settles before the flush
\* is through.
Outruns(c, s) == at[c] = "flushing" /\ at[s] = "sending" /\ timer[s] < timer[c]

BeforeInv ==
    \A c \in Flushes \cup Closes :
        /\ at[c] = "idle" => before[c] = {}
        /\ \A s \in before[c] : at[s] \in Settled \/ Outruns(c, s)

\* What a callback was called with: nothing until its send() settles, and
\* nothing for good when that is refused.
CalledInv ==
    \A s \in Sends :
        /\ at[s] = "done" => called[s] = <<"ok">>
        /\ at[s] = "failed" => called[s] \in {<<"error">>, <<"ok", "error">>}
        /\ at[s] \notin {"done", "failed"} => called[s] = <<>>

IndInv ==
    /\ ProducerTypeOK
    /\ SendingInv
    /\ BeforeInv
    /\ CalledInv

\* Appending to the empty list of calls.
LEMMA FirstCalls ==
    /\ <<>> \o <<"ok">> = <<"ok">>
    /\ <<>> \o <<"error">> = <<"error">>
    /\ <<>> \o <<"ok", "error">> = <<"ok", "error">>
<1>1. /\ <<"ok">> \in Seq({"ok", "error"})
      /\ <<"error">> \in Seq({"ok", "error"})
      /\ <<"ok", "error">> \in Seq({"ok", "error"})
  OBVIOUS
<1> QED BY <1>1, ConcatEmptySeq

\* What Await and Settle leave of a call, and of the others.
LEMMA AwaitFacts ==
    ASSUME ProducerTypeOK, NEW c \in Calls, NEW where \in Waits, NEW delay \in 0 .. ConnectDelay,
           Await(c, where, delay)
    PROVE  /\ at' \in [Calls -> {"idle"} \cup Waits \cup Settled]
           /\ timer' \in [Calls -> 0 .. ConnectDelay]
           /\ at'[c] = where /\ timer'[c] = delay
           /\ \A d \in Calls \ {c} : at'[d] = at[d] /\ timer'[d] = timer[d]
  BY DEF ProducerTypeOK, Await

LEMMA SettleFacts ==
    ASSUME ProducerTypeOK, NEW c \in Calls, NEW outcome \in Settled, Settle(c, outcome)
    PROVE  /\ at' \in [Calls -> {"idle"} \cup Waits \cup Settled]
           /\ timer' = timer
           /\ at'[c] = outcome
           /\ \A d \in Calls \ {c} : at'[d] = at[d]
  BY DEF ProducerTypeOK, Settle

\* send() behind its connect().
LEMMA AcceptFacts ==
    ASSUME IndInv, NEW s \in Sends, Accept(s), isInitialized', at[s] \in {"idle", "connecting"}
    PROVE  /\ at' \in [Calls -> {"idle"} \cup Waits \cup Settled]
           /\ timer' \in [Calls -> 0 .. ConnectDelay]
           /\ called' \in [Sends -> Seq({"ok", "error"})]
           /\ \A d \in Calls \ {s} : at'[d] = at[d] /\ timer'[d] = timer[d]
           /\ \A q \in Sends \ {s} : called'[q] = called[q]
           /\ \/ at'[s] = "failed" /\ called'[s] = <<"error">>
              \/ ~isClosed /\ at'[s] = "sending" /\ timer'[s] = SendDelay /\ called'[s] = <<>>
<1>0. ProducerTypeOK /\ s \in Calls /\ called[s] = <<>>
  BY DEF IndInv, CalledInv, Calls
<1>1. CASE Settle(s, "failed") /\ onCompletion(s, <<"error">>)
  <2>1. called' = [called EXCEPT ![s] = <<"error">>]
    BY <1>0, <1>1, FirstCalls DEF onCompletion
  <2>2. <<"error">> \in Seq({"ok", "error"})
    OBVIOUS
  <2>3. /\ called' \in [Sends -> Seq({"ok", "error"})]
        /\ called'[s] = <<"error">> /\ \A q \in Sends \ {s} : called'[q] = called[q]
    BY <1>0, <2>1, <2>2 DEF ProducerTypeOK
  <2>4. "failed" \in Settled
    BY DEF Settled
  <2> QED BY <1>0, <1>1, <2>3, <2>4, SettleFacts DEF ProducerTypeOK
<1>2. CASE ~isClosed /\ Await(s, "sending", SendDelay) /\ UNCHANGED called
  <2>1. "sending" \in Waits /\ SendDelay \in 0 .. ConnectDelay
    BY DEF Waits, SendDelay, ConnectDelay
  <2> QED BY <1>0, <1>2, <2>1, AwaitFacts DEF ProducerTypeOK
<1> QED BY <1>1, <1>2 DEF Accept
\* A call that is neither a flush() nor a close(), and that no flush waits for,
\* goes on: the flushes and the other sends see nothing of it.
LEMMA OthersKeep ==
    ASSUME IndInv, NEW x \in Sends \cup Connects, at[x] \in {"idle", "connecting"},
           \A d \in Calls \ {x} : at'[d] = at[d] /\ timer'[d] = timer[d],
           UNCHANGED before
    PROVE  BeforeInv'
<1>1. \A c \in Flushes \cup Closes : c \in Calls \ {x}
  BY CallsDistinct DEF Calls
<1>2. ASSUME NEW c \in Flushes \cup Closes, NEW s \in before[c]
      PROVE  s \in Calls \ {x}
  <2>1. s \in Sends
    BY DEF IndInv, ProducerTypeOK
  <2>2. at[s] \in Settled \/ at[s] = "sending"
    BY DEF IndInv, BeforeInv, Outruns
  <2> QED BY <2>1, <2>2 DEF Settled, Calls
<1> QED BY <1>1, <1>2 DEF IndInv, BeforeInv, Outruns

LEMMA TickStep ==
    ASSUME IndInv, Tick
    PROVE  IndInv'
<1>1. /\ timer \in [Calls -> 0 .. ConnectDelay] /\ UNCHANGED <<isInitialized, at, called, before>>
      /\ \A c \in Calls : at[c] \in Waits => timer[c] > 0 /\ timer'[c] = timer[c] - 1
      /\ \A c \in Calls : timer'[c] = timer[c] - 1 \/ timer'[c] = 0
  BY DEF IndInv, ProducerTypeOK, Tick
<1>2. ProducerTypeOK'
  <2>1. \A c \in Calls : (IF at[c] \in Waits THEN timer[c] - 1 ELSE 0) \in 0 .. ConnectDelay
    BY <1>1 DEF ConnectDelay
  <2> QED BY <2>1 DEF IndInv, ProducerTypeOK, Tick
<1>3. SendingInv'
  <2> SUFFICES ASSUME NEW s \in Sends, at[s] = "sending"
               PROVE  isInitialized /\ timer'[s] <= SendDelay
    BY <1>1 DEF SendingInv
  <2>1. s \in Calls /\ isInitialized /\ timer[s] <= SendDelay
    BY DEF IndInv, SendingInv, Calls
  <2> QED BY <1>1, <2>1 DEF SendDelay, ConnectDelay
<1>4. BeforeInv'
  <2> SUFFICES ASSUME NEW c \in Flushes \cup Closes, NEW s \in before[c], Outruns(c, s)
               PROVE  timer'[s] < timer'[c]
    BY <1>1 DEF IndInv, BeforeInv, Outruns
  <2>1. s \in Calls /\ c \in Calls
    BY DEF IndInv, ProducerTypeOK, Calls
  <2>2. /\ timer'[s] = timer[s] - 1 /\ timer'[c] = timer[c] - 1 /\ timer[s] < timer[c]
        /\ timer[s] \in Nat /\ timer[c] \in Nat
    BY <1>1, <2>1 DEF Outruns, Waits
  <2> QED BY <2>2
<1>5. CalledInv'
  BY <1>1 DEF IndInv, CalledInv
<1> QED BY <1>2, <1>3, <1>4, <1>5 DEF IndInv

\* send(), at once or behind its connect().
LEMMA AcceptStep ==
    ASSUME IndInv, NEW s \in Sends, Accept(s), isInitialized', isInitialized' \in BOOLEAN,
           at[s] \in {"idle", "connecting"}, UNCHANGED <<isClosed, before>>
    PROVE  IndInv'
<1>1. ProducerTypeOK'
  BY AcceptFacts DEF IndInv, ProducerTypeOK
<1>2. SendingInv'
  <2> SUFFICES ASSUME NEW q \in Sends, at'[q] = "sending"
               PROVE  isInitialized' /\ timer'[q] <= SendDelay
    BY DEF SendingInv
  <2>1. CASE q = s
    BY <2>1, AcceptFacts DEF SendDelay
  <2>2. CASE q # s
    BY <2>2, AcceptFacts DEF IndInv, SendingInv, Calls
  <2> QED BY <2>1, <2>2
<1>3. BeforeInv'
  BY AcceptFacts, OthersKeep
<1>4. CalledInv'
  <2> SUFFICES ASSUME NEW q \in Sends
               PROVE  /\ at'[q] = "done" => called'[q] = <<"ok">>
                      /\ at'[q] = "failed" => called'[q] \in {<<"error">>, <<"ok", "error">>}
                      /\ at'[q] \notin {"done", "failed"} => called'[q] = <<>>
    BY DEF CalledInv
  <2>1. CASE q = s
    BY <2>1, AcceptFacts
  <2>2. CASE q # s
    BY <2>2, AcceptFacts DEF IndInv, CalledInv, Calls
  <2> QED BY <2>1, <2>2
<1> QED BY <1>1, <1>2, <1>3, <1>4 DEF IndInv

\* A call of connect() or send() waits for its connection, is through with it,
\* or is refused; no callback is called.
LEMMA ConnectingStep ==
    ASSUME IndInv, NEW x \in Sends \cup Connects, at[x] \in {"idle", "connecting"},
           isInitialized => isInitialized', isInitialized' \in BOOLEAN,
           UNCHANGED <<isClosed, called, before>>,
           \/ Await(x, "connecting", ConnectDelay)
           \/ x \in Connects /\ Settle(x, "done")
           \/ Settle(x, "refused")
    PROVE  IndInv'
<1>0. ProducerTypeOK /\ x \in Calls /\ (x \in Sends => called[x] = <<>>)
  BY DEF IndInv, Calls, CalledInv
<1>1. /\ at' \in [Calls -> {"idle"} \cup Waits \cup Settled]
      /\ timer' \in [Calls -> 0 .. ConnectDelay]
      /\ at'[x] \in {"connecting", "refused"} \/ (x \in Connects /\ at'[x] = "done")
      /\ \A d \in Calls \ {x} : at'[d] = at[d] /\ timer'[d] = timer[d]
  <2>1. "connecting" \in Waits /\ ConnectDelay \in 0 .. ConnectDelay
    BY DEF Waits, ConnectDelay
  <2>2. "done" \in Settled /\ "refused" \in Settled
    BY DEF Settled
  <2> QED BY <1>0, <2>1, <2>2, AwaitFacts, SettleFacts DEF ProducerTypeOK
<1>2. ProducerTypeOK'
  BY <1>0, <1>1 DEF ProducerTypeOK
<1>3. \A q \in Sends : q = x => at'[q] \in {"connecting", "refused"}
  BY <1>1, CallsDistinct
<1>4. SendingInv'
  BY <1>1, <1>3 DEF IndInv, SendingInv, Calls
<1>5. BeforeInv'
  BY <1>1, OthersKeep
<1>6. CalledInv'
  BY <1>0, <1>1, <1>3 DEF IndInv, CalledInv, Calls
<1> QED BY <1>2, <1>4, <1>5, <1>6 DEF IndInv

LEMMA SentStep ==
    ASSUME IndInv, NEW s \in Sends, Sent(s)
    PROVE  IndInv'
<1>0. /\ ProducerTypeOK /\ s \in Calls /\ at[s] = "sending" /\ called[s] = <<>>
      /\ UNCHANGED <<isInitialized, isClosed, before>>
  BY DEF IndInv, Calls, CalledInv, Sent, Due
<1>1. \/ Settle(s, "done") /\ called' = [called EXCEPT ![s] = <<"ok">>]
      \/ Settle(s, "failed") /\ called' = [called EXCEPT ![s] = <<"ok", "error">>]
  BY <1>0, FirstCalls DEF Sent, onCompletion
<1>2. "done" \in Settled /\ "failed" \in Settled
  BY DEF Settled
<1>3. /\ at' \in [Calls -> {"idle"} \cup Waits \cup Settled] /\ timer' = timer
      /\ at'[s] \in Settled
      /\ \A d \in Calls \ {s} : at'[d] = at[d]
  BY <1>0, <1>1, <1>2, SettleFacts
<1>4. /\ called' \in [Sends -> Seq({"ok", "error"})]
      /\ \A q \in Sends \ {s} : called'[q] = called[q]
      /\ at'[s] = "done" => called'[s] = <<"ok">>
      /\ at'[s] = "failed" => called'[s] = <<"ok", "error">>
      /\ at'[s] \in {"done", "failed"}
  <2>1. <<"ok">> \in Seq({"ok", "error"}) /\ <<"ok", "error">> \in Seq({"ok", "error"})
    OBVIOUS
  <2> QED BY <1>0, <1>1, <1>2, <2>1, SettleFacts DEF ProducerTypeOK
<1>5. ProducerTypeOK'
  BY <1>0, <1>3, <1>4 DEF ProducerTypeOK
<1>6. SendingInv'
  BY <1>0, <1>3 DEF IndInv, SendingInv, Calls, Settled
<1>7. BeforeInv'
  <2>1. \A c \in Flushes \cup Closes : c \in Calls \ {s}
    BY CallsDistinct DEF Calls
  <2>2. ASSUME NEW c \in Flushes \cup Closes, NEW q \in before[c]
        PROVE  (at[q] \in Settled \/ Outruns(c, q))'
    <3>1. q \in Calls /\ (at[q] \in Settled \/ Outruns(c, q))
      BY DEF IndInv, ProducerTypeOK, BeforeInv, Calls
    <3>2. CASE q = s
      BY <1>3, <3>2
    <3>3. CASE q # s
      BY <1>3, <2>1, <3>1, <3>3 DEF Outruns
    <3> QED BY <3>2, <3>3
  <2> QED BY <1>0, <1>3, <2>1, <2>2 DEF IndInv, BeforeInv
<1>8. CalledInv'
  BY <1>0, <1>3, <1>4 DEF IndInv, CalledInv, Calls
<1> QED BY <1>5, <1>6, <1>7, <1>8 DEF IndInv

\* A flush() or a close() goes on: it is no send, and what it waits for outruns
\* it or has settled.
LEMMA FlushKeeps ==
    ASSUME IndInv, NEW c \in Flushes \cup Closes,
           at' \in [Calls -> {"idle"} \cup Waits \cup Settled],
           timer' \in [Calls -> 0 .. ConnectDelay],
           before' \in [Flushes \cup Closes -> SUBSET Sends],
           isClosed' \in BOOLEAN, UNCHANGED <<isInitialized, called>>,
           \A d \in Calls \ {c} : at'[d] = at[d] /\ timer'[d] = timer[d],
           \A d \in (Flushes \cup Closes) \ {c} : before'[d] = before[d],
           at'[c] # "idle",
           \A s \in before'[c] :
               at[s] \in Settled \/ (at'[c] = "flushing" /\ at[s] = "sending"
                                         /\ timer[s] < timer'[c])
    PROVE  IndInv'
<1>0. c \in Calls /\ \A s \in Sends : s \in Calls \ {c}
  BY CallsDistinct DEF Calls
<1>1. ProducerTypeOK'
  BY DEF IndInv, ProducerTypeOK
<1>2. SendingInv'
  BY <1>0 DEF IndInv, SendingInv
<1>3. CalledInv'
  BY <1>0 DEF IndInv, CalledInv
<1>4. ASSUME NEW d \in Flushes \cup Closes
      PROVE  /\ at'[d] = "idle" => before'[d] = {}
             /\ \A s \in before'[d] : (at[s] \in Settled \/ Outruns(d, s))'
  <2>1. CASE d = c
    <3>1. ASSUME NEW s \in before'[c] PROVE (at[s] \in Settled \/ Outruns(c, s))'
      <4>1. at'[s] = at[s] /\ timer'[s] = timer[s]
        BY <1>0
      <4> QED BY <4>1 DEF Outruns
    <3> QED BY <2>1, <3>1
  <2>2. CASE d # c
    <3>1. /\ d \in Calls \ {c} /\ before'[d] = before[d]
          /\ at[d] = "idle" => before[d] = {}
          /\ \A s \in before[d] : s \in Sends /\ (at[s] \in Settled \/ Outruns(d, s))
      BY <2>2 DEF Calls, IndInv, ProducerTypeOK, BeforeInv
    <3> QED BY <1>0, <3>1 DEF Outruns
  <2> QED BY <2>1, <2>2
<1> QED BY <1>1, <1>2, <1>3, <1>4 DEF IndInv, BeforeInv

\* flush() and close() are called.
LEMMA FlushCallStep ==
    ASSUME IndInv, NEW c \in Flushes \cup Closes, at[c] = "idle",
           UNCHANGED <<isInitialized, isClosed, called>>,
           \/ /\ isInitialized /\ Await(c, "flushing", FlushDelay)
              /\ before' = [before EXCEPT ![c] = OnTheirWay]
           \/ /\ ~isInitialized /\ before' = [before EXCEPT ![c] = OnTheirWay]
              /\ Await(c, "closing", CloseDelay) \/ Settle(c, "done")
           \/ Settle(c, "done") /\ UNCHANGED before
    PROVE  IndInv'
<1>0. ProducerTypeOK /\ c \in Calls /\ before[c] = {} /\ OnTheirWay \subseteq Sends
  BY DEF IndInv, Calls, BeforeInv, OnTheirWay
<1>1. /\ {"flushing", "closing"} \subseteq Waits /\ "done" \in Settled
      /\ FlushDelay \in 0 .. ConnectDelay /\ CloseDelay \in 0 .. ConnectDelay
  BY DEF Waits, Settled, FlushDelay, CloseDelay, ConnectDelay
<1>2. CASE /\ isInitialized /\ Await(c, "flushing", FlushDelay)
           /\ before' = [before EXCEPT ![c] = OnTheirWay]
  <2>1. /\ at' \in [Calls -> {"idle"} \cup Waits \cup Settled]
        /\ timer' \in [Calls -> 0 .. ConnectDelay]
        /\ at'[c] = "flushing" /\ timer'[c] = FlushDelay
        /\ \A d \in Calls \ {c} : at'[d] = at[d] /\ timer'[d] = timer[d]
    BY <1>0, <1>1, <1>2, AwaitFacts
  <2>2. ASSUME NEW s \in OnTheirWay PROVE at[s] = "sending" /\ timer[s] < FlushDelay
    <3>1. s \in Calls /\ at[s] = "sending" /\ timer[s] <= SendDelay
      BY DEF IndInv, SendingInv, OnTheirWay, Calls
    <3>2. timer[s] \in Nat
      BY <1>0, <3>1 DEF ProducerTypeOK
    <3> QED BY <3>1, <3>2 DEF SendDelay, FlushDelay
  <2> QED BY <1>0, <1>2, <2>1, <2>2, FlushKeeps DEF ProducerTypeOK
<1>3. CASE /\ ~isInitialized /\ before' = [before EXCEPT ![c] = OnTheirWay]
           /\ Await(c, "closing", CloseDelay) \/ Settle(c, "done")
  <2>1. OnTheirWay = {}
    BY <1>3 DEF IndInv, SendingInv, OnTheirWay
  <2>2. /\ at' \in [Calls -> {"idle"} \cup Waits \cup Settled]
        /\ timer' \in [Calls -> 0 .. ConnectDelay]
        /\ at'[c] # "idle"
        /\ \A d \in Calls \ {c} : at'[d] = at[d] /\ timer'[d] = timer[d]
    BY <1>0, <1>1, <1>3, AwaitFacts, SettleFacts DEF ProducerTypeOK
  <2> QED BY <1>0, <1>3, <2>1, <2>2, FlushKeeps DEF ProducerTypeOK
<1>4. CASE Settle(c, "done") /\ UNCHANGED before
  <2>1. /\ at' \in [Calls -> {"idle"} \cup Waits \cup Settled] /\ timer' = timer
        /\ at'[c] # "idle" /\ \A d \in Calls \ {c} : at'[d] = at[d]
    BY <1>0, <1>1, <1>4, SettleFacts
  <2> QED BY <1>0, <1>4, <2>1, FlushKeeps DEF ProducerTypeOK
<1> QED BY <1>2, <1>3, <1>4

\* The timer of a flush, or the one of a close(), which waits for no record
\* any more.
LEMMA FlushTimerStep ==
    ASSUME IndInv, NEW c \in Flushes \cup Closes,
           Due(c, "flushing") \/ Due(c, "closing"),
           isClosed' \in BOOLEAN, UNCHANGED <<isInitialized, called, before>>,
           Await(c, "closing", CloseDelay) \/ Settle(c, "done") \/ Settle(c, "refused")
    PROVE  IndInv'
<1>0. ProducerTypeOK /\ c \in Calls
  BY DEF IndInv, Calls
<1>1. "closing" \in Waits /\ {"done", "refused"} \subseteq Settled /\ CloseDelay \in 0 .. ConnectDelay
  BY DEF Waits, Settled, CloseDelay, ConnectDelay
<1>2. /\ at' \in [Calls -> {"idle"} \cup Waits \cup Settled]
      /\ timer' \in [Calls -> 0 .. ConnectDelay]
      /\ at'[c] # "idle"
      /\ \A d \in Calls \ {c} : at'[d] = at[d] /\ timer'[d] = timer[d]
  BY <1>0, <1>1, AwaitFacts, SettleFacts DEF ProducerTypeOK
<1>3. ASSUME NEW s \in before[c] PROVE at[s] \in Settled
  <2>1. at[s] \in Settled \/ Outruns(c, s)
    BY DEF IndInv, BeforeInv
  <2>2. s \in Calls /\ timer[s] \in Nat
    BY <1>0 DEF ProducerTypeOK, Calls
  <2>3. ~Outruns(c, s)
    BY <2>2 DEF Outruns, Due
  <2> QED BY <2>1, <2>3
<1> QED BY <1>0, <1>2, <1>3, FlushKeeps DEF ProducerTypeOK

LEMMA Step == IndInv /\ [ProducerNext]_producerVars => IndInv'
<1> SUFFICES ASSUME IndInv, [ProducerNext]_producerVars PROVE IndInv'
  OBVIOUS
<1>0. isInitialized \in BOOLEAN /\ isClosed \in BOOLEAN
  BY DEF IndInv, ProducerTypeOK
<1>1. CASE Tick
  BY <1>1, TickStep
<1>2. ASSUME NEW x \in Sends \cup Connects, Connected(x) PROVE IndInv'
  <2>1. CASE x \in Sends
    BY <1>2, <2>1, AcceptStep DEF Connected, Due
  <2>2. CASE x \notin Sends
    BY <1>2, <2>2, ConnectingStep DEF Connected, Due
  <2> QED BY <2>1, <2>2
<1>3. ASSUME NEW x \in Sends \cup Connects, ReadyThrows(x) PROVE IndInv'
  BY <1>3, ConnectingStep DEF ReadyThrows, Due
<1>4. ASSUME NEW s \in Sends, Sent(s) PROVE IndInv'
  BY <1>4, SentStep
<1>5. ASSUME NEW c \in Flushes \cup Closes, Flushed(c) PROVE IndInv'
  BY <1>0, <1>5, FlushTimerStep DEF Flushed
<1>6. ASSUME NEW c \in Closes, Closed(c) \/ CloseThrows(c) PROVE IndInv'
  BY <1>6, FlushTimerStep DEF Closed, CloseThrows
<1>7. ASSUME NEW c \in Connects, Connect(c) PROVE IndInv'
  BY <1>0, <1>7, ConnectingStep DEF Connect
<1>8. ASSUME NEW s \in Sends, Send(s) PROVE IndInv'
  <2>1. CASE isInitialized
    BY <1>0, <1>8, <2>1, AcceptStep DEF Send
  <2>2. CASE ~isInitialized
    BY <1>0, <1>8, <2>2, ConnectingStep DEF Send
  <2> QED BY <2>1, <2>2
<1>9. ASSUME NEW c \in Flushes, Flush(c) PROVE IndInv'
  BY <1>9, FlushCallStep DEF Flush, StartFlush
<1>10. ASSUME NEW c \in Closes, Close(c) PROVE IndInv'
  BY <1>10, FlushCallStep DEF Close, StartFlush
<1>11. CASE UNCHANGED producerVars
  BY <1>11 DEF producerVars, IndInv, ProducerTypeOK, SendingInv, BeforeInv, Outruns, CalledInv
<1> QED BY <1>1, <1>2, <1>3, <1>4, <1>5, <1>6, <1>7, <1>8, <1>9, <1>10, <1>11 DEF ProducerNext, Fires

LEMMA InitInd == ProducerInit => IndInv
<1> SUFFICES ASSUME ProducerInit PROVE IndInv
  OBVIOUS
<1>1. ProducerTypeOK
  <2>1. called \in [Sends -> Seq({"ok", "error"})]
    BY DEF ProducerInit
  <2>2. at \in [Calls -> {"idle"} \cup Waits \cup Settled] /\ timer \in [Calls -> 0 .. ConnectDelay]
    BY DEF ProducerInit, ConnectDelay
  <2> QED BY <2>1, <2>2 DEF ProducerInit, ProducerTypeOK
<1>2. \A c \in Calls : at[c] = "idle"
  BY DEF ProducerInit
<1>3. SendingInv /\ CalledInv
  BY <1>2 DEF ProducerInit, SendingInv, CalledInv, Calls
<1>4. BeforeInv
  BY DEF ProducerInit, BeforeInv
<1> QED BY <1>1, <1>3, <1>4 DEF IndInv

LEMMA Inductive == ProducerSpec => []IndInv
  BY InitInd, Step, PTL DEF ProducerSpec

-----------------------------------------------------------------------------
\* The callback of a send() that came past its connect() is called before the
\* promise settles, and told last what that settles with.
THEOREM CallbackTold == ProducerSpec => []CallbackAgrees
<1>1. IndInv => CallbackAgrees
  <2> SUFFICES ASSUME IndInv, NEW s \in Sends, at[s] \in {"done", "failed"}
               PROVE  /\ called[s] # <<>>
                      /\ (at[s] = "done") <=> (called[s][Len(called[s])] = "ok")
    BY DEF CallbackAgrees
  <2>1. at[s] = "done" => called[s] = <<"ok">>
    BY DEF IndInv, CalledInv
  <2>2. at[s] = "failed" => called[s] \in {<<"error">>, <<"ok", "error">>}
    BY DEF IndInv, CalledInv
  <2>3. /\ <<"ok">> # <<>> /\ <<"ok">>[Len(<<"ok">>)] = "ok"
        /\ <<"error">> # <<>> /\ <<"error">>[Len(<<"error">>)] = "error"
        /\ <<"ok", "error">> # <<>> /\ <<"ok", "error">>[Len(<<"ok", "error">>)] = "error"
    OBVIOUS
  <2> QED BY <2>1, <2>2, <2>3, Zenon
<1> QED BY Inductive, <1>1, PTL

\* flush() and close() outlast every record that was on its way when they were
\* called.
THEOREM FlushOutlasts == ProducerSpec => []FlushWaits
<1>1. IndInv => FlushWaits
  <2>1. "flushing" \notin {"closing"} \cup Settled
    BY DEF Settled
  <2> QED BY <2>1 DEF IndInv, BeforeInv, FlushWaits, Outruns
<1> QED BY Inductive, <1>1, PTL

\* A closed producer puts no record on its way.
THEOREM NothingAfterClose == ProducerSpec => ClosedSendsNothing
<1>1. ASSUME IndInv, [ProducerNext]_producerVars
      PROVE  [isClosed => \A s \in Sends : at[s] # "sending" => at[s]' # "sending"]_producerVars
  <2> SUFFICES ASSUME isClosed, ProducerNext, NEW s \in Sends, at[s] # "sending"
               PROVE  at'[s] # "sending"
    BY <1>1
  <2>0. at \in [Calls -> {"idle"} \cup Waits \cup Settled] /\ s \in Calls
    BY <1>1 DEF IndInv, ProducerTypeOK, Calls
  <2>1. CASE Tick
    BY <2>1 DEF Tick
  <2>2. ASSUME NEW x \in Sends, Accept(x) PROVE at'[s] # "sending"
    BY <2>0, <2>2 DEF Accept, Settle
  <2>3. ASSUME NEW x \in Calls, NEW where \in {"connecting", "flushing", "closing"},
               NEW delay, Await(x, where, delay)
        PROVE  at'[s] # "sending"
    BY <2>0, <2>3 DEF Await
  <2>4. ASSUME NEW x \in Calls, NEW outcome \in Settled, Settle(x, outcome)
        PROVE  at'[s] # "sending"
    BY <2>0, <2>4 DEF Settle, Settled
  <2>5. {"done", "failed", "refused"} \subseteq Settled
    BY DEF Settled
  <2>6. CASE Fires
    BY <2>2, <2>3, <2>4, <2>5, <2>6
       DEF Fires, Connected, ReadyThrows, Sent, Flushed, Closed, CloseThrows, Calls
  <2>7. CASE \E c \in Connects : Connect(c)
    BY <2>3, <2>4, <2>5, <2>7 DEF Connect, Calls
  <2>8. CASE \E q \in Sends : Send(q)
    BY <2>2, <2>3, <2>8 DEF Send, Calls
  <2>9. CASE \E c \in Flushes : Flush(c)
    BY <2>3, <2>4, <2>5, <2>9 DEF Flush, StartFlush, Calls
  <2>10. CASE \E c \in Closes : Close(c)
    BY <2>3, <2>4, <2>5, <2>10 DEF Close, StartFlush, Calls
  <2> QED BY <2>1, <2>6, <2>7, <2>8, <2>9, <2>10 DEF ProducerNext
<1> QED BY Inductive, <1>1, PTL DEF ProducerSpec, ClosedSendsNothing
=============================================================================

------------------------ MODULE KafkaConsumerProofs ------------------------
(***************************************************************************)
(* Proofs about KafkaConsumer, for any topics, any number of calls and any *)
(* depth of calls inside callbacks.                                        *)
(***************************************************************************)
EXTENDS KafkaConsumer, SequenceTheorems, TLAPS

Revoking == {"unsubscribe", "close"}
AssignmentCalls == {"rebalance", "unsubscribe", "close"}

\* UnderWay, of any stack.
Holds(s, kinds) == \E i \in 1 .. Len(s) : s[i].at \in kinds

\* No subscribe() was called from the callback of an unsubscribe() or close().
Ordered(s) ==
    \A i, j \in 1 .. Len(s) : i < j /\ s[i].at \in Revoking => s[j].at # "rebalance"

\* Nothing is there before the first connect().
UnusedInv == ~isInitialized =>
    /\ stack = <<>>
    /\ ~isRunning
    /\ assignedPartitions = {}
    /\ subscriptions = {}

\* What close() has taken away stays away.
ReleaseInv ==
    /\ ~reopened /\ (closing > 0 \/ isClosed) =>
           /\ ~isRunning
           /\ assignedPartitions = {}
           /\ subscriptions = {}
    /\ ~reopened /\ Holds(stack, {"close"}) => ~isRunning /\ subscriptions = {}

\* What the listener has, also while callbacks run.
ListenerInv ==
    /\ ~rebalanceListener => owned = {} /\ ~Holds(stack, Revoking)
    /\ rebalanceListener /\ ~bypassed =>
           /\ owned = {} \/ (owned = assignedPartitions /\ owned = subscriptions)
           /\ Holds(stack, Revoking) => owned = {}
           /\ ~Holds(stack, AssignmentCalls) => owned = assignedPartitions

ServedInv ==
    ~bypassed =>
        /\ Ordered(stack)
        /\ Holds(stack, Revoking) => subscriptions = {}
        /\ subscriptions # {} /\ ~Holds(stack, AssignmentCalls) =>
               assignedPartitions = subscriptions

IndInv ==
    /\ TypeOK
    /\ UnusedInv
    /\ IntervalIsOwned
    /\ ClosedIsQuiet
    /\ ReleaseInv
    /\ ListenerInv
    /\ ServedInv

-----------------------------------------------------------------------------
\* A call that waits for its callback comes on top of the others.
LEMMA PushFrame ==
    ASSUME NEW s \in Seq(Frames), NEW f \in Frames
    PROVE  /\ Append(s, f) \in Seq(Frames)
           /\ \A kinds : Holds(Append(s, f), kinds) <=> Holds(s, kinds) \/ f.at \in kinds
  <1> DEFINE t == Append(s, f)
  <1>1. t \in Seq(Frames) /\ Len(t) = Len(s) + 1 /\ t[Len(s) + 1] = f
    OBVIOUS
  <1>2. \A i \in 1 .. Len(s) : t[i] = s[i]
    OBVIOUS
  <1>3. Len(s) \in Nat
    OBVIOUS
  <1> HIDE DEF t
  <1>4. ASSUME NEW kinds
        PROVE  Holds(t, kinds) <=> Holds(s, kinds) \/ f.at \in kinds
    <2>1. ASSUME Holds(s, kinds) PROVE Holds(t, kinds)
      <3>1. PICK i \in 1 .. Len(s) : s[i].at \in kinds
        BY <2>1 DEF Holds
      <3>2. i \in 1 .. Len(t) /\ t[i].at \in kinds
        BY <1>1, <1>2, <1>3, <3>1
      <3> QED
        BY <3>2 DEF Holds
    <2>2. ASSUME f.at \in kinds PROVE Holds(t, kinds)
      <3>1. Len(s) + 1 \in 1 .. Len(t) /\ t[Len(s) + 1].at \in kinds
        BY <1>1, <1>3, <2>2
      <3> QED
        BY <3>1 DEF Holds
    <2>3. ASSUME Holds(t, kinds), ~Holds(s, kinds) PROVE f.at \in kinds
      <3>1. PICK i \in 1 .. Len(t) : t[i].at \in kinds
        BY <2>3 DEF Holds
      <3>2. i \notin 1 .. Len(s)
        BY <1>2, <2>3, <3>1 DEF Holds
      <3>3. i = Len(s) + 1
        BY <1>1, <1>3, <3>1, <3>2
      <3> QED
        BY <1>1, <3>1, <3>3
    <2> QED
      BY <2>1, <2>2, <2>3
  <1> QED
    BY <1>1, <1>4 DEF t

\* A stack without its top.
LEMMA DropLast ==
    ASSUME NEW S, NEW s \in Seq(S), s # <<>>
    PROVE  /\ SubSeq(s, 1, Len(s) - 1) \in Seq(S)
           /\ Len(SubSeq(s, 1, Len(s) - 1)) = Len(s) - 1
           /\ \A i \in 1 .. Len(s) - 1 : SubSeq(s, 1, Len(s) - 1)[i] = s[i]
           /\ Len(s) \in Nat \ {0}
           /\ s[Len(s)] \in S
  <1> DEFINE n == Len(s) - 1
  <1>1. Len(s) \in Nat /\ Len(s) > 0 /\ s[Len(s)] \in S
    OBVIOUS
  <1>2. n \in Nat /\ \A i \in 1 .. n : s[i] \in S
    BY <1>1
  <1>3. n = Len(s) - 1
    OBVIOUS
  <1> HIDE DEF n
  <1>4. /\ SubSeq(s, 1, n) \in Seq(S)
        /\ Len(SubSeq(s, 1, n)) = IF 1 <= n THEN n - 1 + 1 ELSE 0
        /\ \A i \in 1 .. n - 1 + 1 : SubSeq(s, 1, n)[i] = s[1 + i - 1]
    BY <1>2, SubSeqProperties
  <1>5. Len(SubSeq(s, 1, n)) = n /\ \A i \in 1 .. n : SubSeq(s, 1, n)[i] = s[i]
    BY <1>2, <1>4
  <1> QED
    BY <1>1, <1>3, <1>4, <1>5

\* The top one ends, the others are as they were.
LEMMA PopFrame ==
    ASSUME NEW s \in Seq(Frames), s # <<>>
    PROVE  /\ SubSeq(s, 1, Len(s) - 1) \in Seq(Frames)
           /\ s[Len(s)] \in Frames
           /\ \A kinds : Holds(s, kinds) <=>
                 Holds(SubSeq(s, 1, Len(s) - 1), kinds) \/ s[Len(s)].at \in kinds
  <1> DEFINE b == SubSeq(s, 1, Len(s) - 1)
  <1>1. Len(s) \in Nat /\ Len(s) > 0 /\ s[Len(s)] \in Frames
    BY DropLast
  <1>2. b \in Seq(Frames) /\ Len(b) = Len(s) - 1
    BY DropLast
  <1>3. \A i \in 1 .. Len(s) - 1 : b[i] = s[i]
    BY DropLast
  <1> HIDE DEF b
  <1>4. ASSUME NEW kinds
        PROVE  Holds(s, kinds) <=> Holds(b, kinds) \/ s[Len(s)].at \in kinds
    <2>1. ASSUME Holds(b, kinds) PROVE Holds(s, kinds)
      <3>1. PICK i \in 1 .. Len(b) : b[i].at \in kinds
        BY <2>1 DEF Holds
      <3>2. i \in 1 .. Len(s) /\ s[i].at \in kinds
        BY <1>1, <1>2, <1>3, <3>1
      <3> QED
        BY <3>2 DEF Holds
    <2>2. ASSUME s[Len(s)].at \in kinds PROVE Holds(s, kinds)
      BY <1>1, <2>2 DEF Holds
    <2>3. ASSUME Holds(s, kinds), ~Holds(b, kinds) PROVE s[Len(s)].at \in kinds
      <3>1. PICK i \in 1 .. Len(s) : s[i].at \in kinds
        BY <2>3 DEF Holds
      <3>2. i \notin 1 .. Len(b)
        BY <1>2, <1>3, <2>3, <3>1 DEF Holds
      <3>3. i = Len(s)
        BY <1>1, <1>2, <3>1, <3>2
      <3> QED
        BY <3>1, <3>3
    <2> QED
      BY <2>1, <2>2, <2>3
  <1> QED
    BY <1>1, <1>2, <1>4 DEF b

LEMMA PushOrdered ==
    ASSUME NEW s \in Seq(Frames), NEW f \in Frames, Ordered(s),
           f.at = "rebalance" => ~Holds(s, Revoking)
    PROVE  Ordered(Append(s, f))
  <1> DEFINE t == Append(s, f)
  <1>1. Len(t) = Len(s) + 1 /\ t[Len(s) + 1] = f /\ Len(s) \in Nat
    OBVIOUS
  <1>2. \A i \in 1 .. Len(s) : t[i] = s[i]
    OBVIOUS
  <1> HIDE DEF t
  <1>3. Ordered(t)
    BY <1>1, <1>2 DEF Ordered, Holds
  <1> QED
    BY <1>3 DEF t

LEMMA PopOrdered ==
    ASSUME NEW s \in Seq(Frames), s # <<>>, Ordered(s)
    PROVE  /\ Ordered(SubSeq(s, 1, Len(s) - 1))
           /\ s[Len(s)].at = "rebalance" => ~Holds(SubSeq(s, 1, Len(s) - 1), Revoking)
  <1> DEFINE b == SubSeq(s, 1, Len(s) - 1)
  <1>1. Len(s) \in Nat /\ Len(s) > 0 /\ Len(b) = Len(s) - 1
    BY DropLast
  <1>2. \A i \in 1 .. Len(s) - 1 : b[i] = s[i]
    BY DropLast
  <1> HIDE DEF b
  <1>3. Ordered(b) /\ (s[Len(s)].at = "rebalance" => ~Holds(b, Revoking))
    BY <1>1, <1>2 DEF Ordered, Holds
  <1> QED
    BY <1>3 DEF b

-----------------------------------------------------------------------------
\* What a step may do to the stack.
Pushes(f) == stack' = Append(stack, f) /\ f \in Frames
Pops == stack # <<>> /\ stack' = Below

LEMMA AfterPush ==
    ASSUME stack \in Seq(Frames), NEW f, Pushes(f)
    PROVE  /\ stack' \in Seq(Frames)
           /\ \A kinds : Holds(stack', kinds) <=> Holds(stack, kinds) \/ f.at \in kinds
           /\ Ordered(stack) /\ (f.at = "rebalance" => ~Holds(stack, Revoking))
                  => Ordered(stack')
  BY PushFrame, PushOrdered DEF Pushes

LEMMA AfterPop ==
    ASSUME stack \in Seq(Frames), Pops
    PROVE  /\ stack' \in Seq(Frames)
           /\ Top \in Frames
           /\ \A kinds : Holds(stack, kinds) <=> Holds(stack', kinds) \/ Top.at \in kinds
           /\ Ordered(stack) =>
                  /\ Ordered(stack')
                  /\ Top.at = "rebalance" => ~Holds(stack', Revoking)
  BY PopFrame, PopOrdered DEF Pops, Top, Below

\* The stack of a step that does not touch it, pushes a call, or ends one.
LEMMA SameStack ==
    ASSUME stack' = stack
    PROVE  /\ Ordered(stack') <=> Ordered(stack)
           /\ \A kinds : Holds(stack', kinds) <=> Holds(stack, kinds)
  OBVIOUS

LEMMA InitInd == Init => IndInv
  <1> SUFFICES ASSUME Init PROVE IndInv
    OBVIOUS
  <1>1. stack = <<>> /\ Len(stack) = 0 /\ stack \in Seq(Frames)
    BY DEF Init
  <1>2. \A kinds : ~Holds(stack, kinds)
    BY <1>1 DEF Holds
  <1>3. Ordered(stack)
    BY <1>1 DEF Ordered
  <1>4. ~UnderWay({"data"})
    BY <1>1 DEF UnderWay
  <1>5. TypeOK
    <2>1. calls \in 0 .. MaxCalls
      BY ConsumerAssumption DEF Init, ConsumerAssumption
    <2>2. owned \subseteq Topics /\ assignedPartitions \subseteq Topics
          /\ subscriptions \subseteq Topics
      BY DEF Init
    <2>3. intervals \in Nat /\ connecting \in Nat /\ closing \in Nat
      BY DEF Init
    <2> QED
      BY <1>1, <2>1, <2>2, <2>3 DEF Init, TypeOK
  <1>6. UnusedInv /\ IntervalIsOwned /\ ClosedIsQuiet
    BY <1>4 DEF Init, UnusedInv, IntervalIsOwned, ClosedIsQuiet
  <1>7. ReleaseInv /\ ListenerInv /\ ServedInv
    BY <1>2, <1>3 DEF Init, ReleaseInv, ListenerInv, ServedInv
  <1> QED
    BY <1>5, <1>6, <1>7 DEF IndInv

\* stop(), alone and inside close(), leaves no interval.
LEMMA StopsInterval ==
    ASSUME IntervalIsOwned, isRunning \in BOOLEAN, Stopped
    PROVE  isRunning' = FALSE /\ pollInterval' = FALSE /\ intervals' = 0
  <1>1. CASE isRunning
    BY <1>1 DEF IntervalIsOwned, Stopped
  <1>2. CASE ~isRunning
    BY <1>2 DEF IntervalIsOwned, Stopped, polling
  <1> QED
    BY <1>1, <1>2

LEMMA TypeStep == IndInv /\ [Next]_vars => TypeOK'
  <1> SUFFICES ASSUME IndInv, [Next]_vars PROVE TypeOK'
    OBVIOUS
  <1> USE ConsumerAssumption DEF ConsumerAssumption, IndInv, TypeOK, lifecycle, polling, assignment
  <1>1. CASE connect
    BY <1>1 DEF connect, Called
  <1>2. CASE Connected
    BY <1>2 DEF Connected
  <1>3. ASSUME NEW topics \in SUBSET Topics, NEW listener \in BOOLEAN,
               subscribe(topics, listener)
        PROVE  TypeOK'
    <2>1. stack' \in Seq(Frames)
      <3>1. Frame("rebalance") \in Frames
        BY DEF Frame, Frames
      <3> QED
        BY <1>3, <3>1, PushFrame DEF subscribe, CallsBack
    <2> QED
      BY <1>3, <2>1 DEF subscribe, Called, Bypass, Reopens, Assigned, Revoke
  <1>4. CASE EndRebalance
    BY <1>4, AfterPop DEF EndRebalance, Assigned, Pops
  <1>5. CASE RebalanceThrows
    BY <1>5, AfterPop DEF RebalanceThrows, Bypass, Pops
  <1>6. ASSUME NEW topics \in SUBSET Topics, assign(topics) PROVE TypeOK'
    BY <1>6 DEF assign, Called, Bypass, Reopens
  <1>7. CASE unsubscribe
    <2>1. Frame("unsubscribe") \in Frames
      BY DEF Frame, Frames
    <2> QED
      BY <1>7, <2>1, PushFrame DEF unsubscribe, Unsubscribe, Called, Revoke, CallsBack
  <1>8. CASE EndUnsubscribe
    BY <1>8, AfterPop DEF EndUnsubscribe, Pops
  <1>9. CASE start
    BY <1>9 DEF start, Called, Reopens
  <1>10. CASE stop
    <2>1. intervals' \in Nat /\ isRunning' \in BOOLEAN /\ pollInterval' \in BOOLEAN
      BY <1>10, StopsInterval DEF stop
    <2> QED
      BY <1>10, <2>1 DEF stop, Called
  <1>11. CASE poll \/ IntervalFires
    <2>1. PICK n \in 1 .. MaxRecords : Polls(n)
      BY <1>11 DEF poll, IntervalFires
    <2>2. [at |-> "data", left |-> n - 1] \in Frames
      BY DEF Frames
    <2>3. stack' \in Seq(Frames)
      BY <2>1, <2>2, PushFrame DEF Polls, CallsBack
    <2> QED
      BY <1>11, <2>1, <2>3 DEF poll, IntervalFires, Polls, Called
  <1>12. CASE DataHandled
    <2>1. Below \in Seq(Frames) /\ Top \in Frames
      BY <1>12, PopFrame DEF DataHandled, Top, Below
    <2>2. Top.left > 0 => [Top EXCEPT !.left = @ - 1] \in Frames
      BY <2>1 DEF Frames
    <2>3. stack' \in Seq(Frames)
      BY <1>12, <2>1, <2>2, PushFrame DEF DataHandled
    <2> QED
      BY <1>12, <2>3 DEF DataHandled
  <1>13. CASE DataThrows
    BY <1>13, AfterPop DEF DataThrows, Pops
  <1>14. CASE close
    <2>1. Frame("close") \in Frames
      BY DEF Frame, Frames
    <2>2. intervals' \in Nat /\ isRunning' \in BOOLEAN /\ pollInterval' \in BOOLEAN
      BY <1>14, StopsInterval DEF close
    <2>3. stack' \in Seq(Frames)
      BY <1>14, <2>1, PushFrame DEF close, Unsubscribe, CallsBack
    <2>4. closing' \in Nat /\ owned' \subseteq Topics /\ subscriptions' \subseteq Topics
          /\ assignedPartitions' \subseteq Topics /\ UNCHANGED <<rebalanceListener, bypassed>>
      BY <1>14 DEF close, Unsubscribe, Revoke
    <2> QED
      BY <1>14, <2>2, <2>3, <2>4 DEF close, Called
  <1>15. CASE Closed
    BY <1>15 DEF Closed
  <1>16. CASE UNCHANGED vars
    BY <1>16 DEF vars
  <1> QED
    BY <1>1, <1>2, <1>3, <1>4, <1>5, <1>6, <1>7, <1>8, <1>9, <1>10, <1>11, <1>12, <1>13,
       <1>14, <1>15, <1>16 DEF Next

-----------------------------------------------------------------------------
LEMMA UnderWayHolds ==
    /\ \A kinds : UnderWay(kinds) <=> Holds(stack, kinds)
    /\ \A kinds : UnderWay(kinds)' <=> Holds(stack', kinds)
  BY DEF UnderWay, Holds

\* The kinds of a call that comes or goes.
LEMMA FrameKinds ==
    /\ Frame("rebalance") \in Frames /\ Frame("rebalance").at = "rebalance"
    /\ Frame("unsubscribe") \in Frames /\ Frame("unsubscribe").at = "unsubscribe"
    /\ Frame("close") \in Frames /\ Frame("close").at = "close"
    /\ \A n \in 1 .. MaxRecords : [at |-> "data", left |-> n - 1] \in Frames
    /\ \A f \in Frames : f.at \in {"rebalance", "unsubscribe", "close", "data"}
  BY ConsumerAssumption DEF Frame, Frames, ConsumerAssumption

\* Which calls are under way after each kind of step.
LEMMA StackAfterCall ==
    ASSUME stack \in Seq(Frames), NEW f \in Frames, stack' = Append(stack, f)
    PROVE  /\ \A kinds : UnderWay(kinds)' <=> Holds(stack, kinds) \/ f.at \in kinds
           /\ \A kinds : Holds(stack', kinds) <=> Holds(stack, kinds) \/ f.at \in kinds
           /\ stack' # <<>>
  BY PushFrame, UnderWayHolds

LEMMA DataHandledPops ==
    ASSUME stack \in Seq(Frames), DataHandled \/ DataThrows
    PROVE  /\ \A kinds : "data" \notin kinds =>
                  (Holds(stack', kinds) <=> Holds(stack, kinds))
           /\ Holds(stack, {"data"})
           /\ Ordered(stack) => Ordered(stack')
  <1>1. stack # <<>> /\ Top.at = "data" /\ Top = stack[Len(stack)]
    BY DEF DataHandled, DataThrows, Top
  <1>2. /\ Below \in Seq(Frames)
        /\ Top \in Frames
        /\ \A kinds : Holds(stack, kinds) <=> Holds(Below, kinds) \/ Top.at \in kinds
        /\ Ordered(stack) => Ordered(Below)
    BY <1>1, PopFrame, PopOrdered DEF Top, Below
  <1>3. CASE stack' = Below
    BY <1>1, <1>2, <1>3
  <1>4. CASE DataHandled /\ Top.left > 0
    <2> DEFINE f == [Top EXCEPT !.left = @ - 1]
    <2>1. f \in Frames /\ f.at = "data"
      <3>1. Top.left \in 0 .. MaxRecords /\ Top.left > 0
        BY <1>2, <1>4 DEF Frames
      <3>2. f = [at |-> "data", left |-> Top.left - 1]
        BY <1>1, <1>2 DEF Frames
      <3>3. Top.left - 1 \in 0 .. MaxRecords
        BY <3>1, ConsumerAssumption DEF ConsumerAssumption
      <3> QED
        BY <3>2, <3>3 DEF Frames
    <2>2. stack' = Append(Below, f)
      BY <1>4 DEF DataHandled
    <2> HIDE DEF f
    <2>3. \A kinds : Holds(stack', kinds) <=> Holds(Below, kinds) \/ f.at \in kinds
      BY <1>2, <2>1, <2>2, PushFrame
    <2>4. Ordered(stack) => Ordered(stack')
      BY <1>2, <2>1, <2>2, PushOrdered
    <2> QED
      BY <1>1, <1>2, <2>1, <2>3, <2>4
  <1> QED
    BY <1>3, <1>4 DEF DataHandled, DataThrows

-----------------------------------------------------------------------------
LEMMA ReleaseStep ==
    IndInv /\ [Next]_vars => UnusedInv' /\ IntervalIsOwned' /\ ReleaseInv'
  <1> SUFFICES ASSUME IndInv, [Next]_vars
               PROVE  UnusedInv' /\ IntervalIsOwned' /\ ReleaseInv'
    OBVIOUS
  <1> USE DEF IndInv, UnusedInv, IntervalIsOwned, ReleaseInv, lifecycle, polling, assignment
  <1>0. /\ stack \in Seq(Frames)
        /\ closing \in Nat
        /\ isRunning \in BOOLEAN
    BY DEF TypeOK
  <1>1. CASE connect
    BY <1>1, UnderWayHolds DEF connect
  <1>2. CASE Connected
    BY <1>2 DEF Connected
  <1>3. ASSUME NEW topics \in SUBSET Topics, NEW listener \in BOOLEAN,
               subscribe(topics, listener)
        PROVE  UnusedInv' /\ IntervalIsOwned' /\ ReleaseInv'
    <2>1. stack' = stack \/ stack' = Append(stack, Frame("rebalance"))
      BY <1>3 DEF subscribe, CallsBack
    <2>2. Holds(stack', {"close"}) <=> Holds(stack, {"close"})
      BY <1>0, <2>1, FrameKinds, StackAfterCall
    <2>3. reopened' = (reopened \/ closing > 0 \/ Holds(stack, {"close"}))
      BY <1>3, UnderWayHolds DEF subscribe, Reopens
    <2> QED
      BY <1>3, <2>2, <2>3 DEF subscribe, Usable
  <1>4. CASE EndRebalance
    BY <1>0, <1>4, AfterPop DEF EndRebalance, Pops
  <1>5. CASE RebalanceThrows
    BY <1>0, <1>5, AfterPop DEF RebalanceThrows, Pops
  <1>6. ASSUME NEW topics \in SUBSET Topics, assign(topics)
        PROVE  UnusedInv' /\ IntervalIsOwned' /\ ReleaseInv'
    BY <1>6, UnderWayHolds DEF assign, Usable, Reopens
  <1>7. CASE unsubscribe
    <2>1. stack' = stack \/ stack' = Append(stack, Frame("unsubscribe"))
      BY <1>7 DEF unsubscribe, Unsubscribe, CallsBack
    <2>2. Holds(stack', {"close"}) <=> Holds(stack, {"close"})
      BY <1>0, <2>1, FrameKinds, StackAfterCall
    <2> QED
      BY <1>7, <2>2 DEF unsubscribe, Unsubscribe
  <1>8. CASE EndUnsubscribe
    <2>1. /\ Holds(stack', {"close"}) => Holds(stack, {"close"})
          /\ Top.at = "close" => Holds(stack, {"close"})
          /\ stack # <<>>
      BY <1>0, <1>8, AfterPop DEF EndUnsubscribe, Pops
    <2> QED
      BY <1>0, <1>8, <2>1 DEF EndUnsubscribe
  <1>9. CASE start
    <2>1. reopened' = (reopened \/ closing > 0 \/ Holds(stack, {"close"}))
      BY <1>9, UnderWayHolds DEF start, Reopens
    <2>2. intervals' = 1 /\ isRunning' = TRUE /\ pollInterval' = TRUE /\ isInitialized'
      BY <1>9 DEF start, Usable
    <2> QED
      BY <1>9, <2>1, <2>2 DEF start, Usable
  <1>10. CASE stop
    BY <1>0, <1>10, StopsInterval DEF stop
  <1>11. CASE poll \/ IntervalFires
    <2>1. PICK n \in 1 .. MaxRecords : Polls(n)
      BY <1>11 DEF poll, IntervalFires
    <2>2. Holds(stack', {"close"}) <=> Holds(stack, {"close"})
      BY <1>0, <2>1, FrameKinds, StackAfterCall DEF Polls, CallsBack
    <2> QED
      BY <2>1, <2>2 DEF Polls, CanPoll
  <1>12. CASE DataHandled \/ DataThrows
    <2>1. Holds(stack', {"close"}) <=> Holds(stack, {"close"})
      BY <1>0, <1>12, DataHandledPops
    <2>2. stack # <<>>
      BY <1>12 DEF DataHandled, DataThrows
    <2> QED
      BY <1>12, <2>1, <2>2 DEF DataHandled, DataThrows
  <1>13. CASE close
    <2>1. isRunning' = FALSE /\ pollInterval' = FALSE /\ intervals' = 0
      BY <1>0, <1>13, StopsInterval DEF close
    <2>2. CASE isInitialized /\ rebalanceListener /\ assignedPartitions # {}
      <3>1. stack' # <<>> /\ isInitialized' /\ closing' = closing
            /\ subscriptions' = {} /\ assignedPartitions' = assignedPartitions
            /\ reopened' = reopened /\ isClosed' = isClosed
        BY <1>0, <1>13, <2>2, FrameKinds, StackAfterCall DEF close, Unsubscribe, CallsBack
      <3> QED
        BY <2>1, <2>2, <3>1
    <2>3. CASE ~(isInitialized /\ rebalanceListener /\ assignedPartitions # {})
      BY <1>0, <1>13, <2>1, <2>3 DEF close, Unsubscribe
    <2> QED
      BY <2>2, <2>3
  <1>14. CASE Closed
    BY <1>0, <1>14 DEF Closed
  <1>15. CASE UNCHANGED vars
    BY <1>15 DEF vars
  <1> QED
    BY <1>1, <1>2, <1>3, <1>4, <1>5, <1>6, <1>7, <1>8, <1>9, <1>10, <1>11, <1>12, <1>13,
       <1>14, <1>15 DEF Next

-----------------------------------------------------------------------------
LEMMA QuietStep == IndInv /\ [Next]_vars => ClosedIsQuiet'
  <1> SUFFICES ASSUME IndInv, [Next]_vars, isClosed'
               PROVE  ~Holds(stack', {"data"})
    BY UnderWayHolds DEF ClosedIsQuiet
  <1>0. stack \in Seq(Frames)
    BY DEF IndInv, TypeOK
  <1>1. CASE Closed
    <2>1. stack' = <<>> /\ Len(stack') = 0
      BY <1>1 DEF Closed
    <2> QED
      BY <2>1 DEF Holds
  <1>2. ASSUME isClosed PROVE ~Holds(stack, {"data"})
    BY <1>2, UnderWayHolds DEF IndInv, ClosedIsQuiet
  <1>3. ASSUME stack' = stack, isClosed PROVE ~Holds(stack', {"data"})
    BY <1>2, <1>3
  <1>4. ASSUME Pops, isClosed PROVE ~Holds(stack', {"data"})
    BY <1>0, <1>2, <1>4, AfterPop
  <1>5. CASE connect \/ Connected \/ start \/ stop
    BY <1>3, <1>5 DEF connect, Connected, start, stop, lifecycle
  <1>6. ASSUME NEW topics \in SUBSET Topics, NEW listener \in BOOLEAN,
               subscribe(topics, listener) \/ assign(topics)
        PROVE  ~Holds(stack', {"data"})
    BY <1>6 DEF subscribe, assign, Usable, lifecycle
  <1>7. CASE EndRebalance \/ RebalanceThrows \/ EndUnsubscribe
    BY <1>4, <1>7 DEF EndRebalance, RebalanceThrows, EndUnsubscribe, Pops, lifecycle
  <1>8. CASE unsubscribe
    <2>1. stack' = stack \/ stack' = Append(stack, Frame("unsubscribe"))
      BY <1>8 DEF unsubscribe, Unsubscribe, CallsBack
    <2> QED
      BY <1>0, <1>2, <1>8, <2>1, FrameKinds, StackAfterCall DEF unsubscribe
  <1>9. CASE poll \/ IntervalFires
    BY <1>9 DEF poll, IntervalFires, Polls, CanPoll, lifecycle
  <1>10. CASE DataHandled \/ DataThrows
    BY <1>0, <1>2, <1>10, DataHandledPops DEF DataHandled, DataThrows, lifecycle
  <1>11. CASE close
    BY <1>11 DEF close
  <1>12. CASE UNCHANGED vars
    BY <1>3, <1>12 DEF vars, lifecycle
  <1> QED
    BY <1>1, <1>5, <1>6, <1>7, <1>8, <1>9, <1>10, <1>11, <1>12 DEF Next

LEMMA ListenerStep == IndInv /\ [Next]_vars => ListenerInv' /\ ServedInv'
  <1> SUFFICES ASSUME IndInv, [Next]_vars PROVE ListenerInv' /\ ServedInv'
    OBVIOUS
  <1> USE DEF ListenerInv, ServedInv, Revoking, AssignmentCalls, lifecycle, polling, assignment
  <1>0. stack \in Seq(Frames) /\ ListenerInv /\ ServedInv
    BY DEF IndInv, TypeOK
  <1>1. CASE connect \/ Connected \/ start \/ stop \/ Closed \/ UNCHANGED vars
    BY <1>0, <1>1 DEF connect, Connected, start, stop, Closed, vars
  <1>3. ASSUME NEW topics \in SUBSET Topics, NEW listener \in BOOLEAN,
               subscribe(topics, listener)
        PROVE  ListenerInv' /\ ServedInv'
    <2>1. bypassed' <=> bypassed \/ Holds(stack, Revoking)
      BY <1>3, UnderWayHolds DEF subscribe, Bypass
    <2>2. CASE assignedPartitions = {}
      BY <1>0, <1>3, <2>1, <2>2 DEF subscribe, Assigned
    <2>3. CASE assignedPartitions # {}
      <3>1. stack' = Append(stack, Frame("rebalance"))
        BY <1>3, <2>3 DEF subscribe, CallsBack
      <3>2. /\ Holds(stack', Revoking) <=> Holds(stack, Revoking)
            /\ Holds(stack', AssignmentCalls)
        BY <1>0, <3>1, FrameKinds, StackAfterCall
      <3>3. Ordered(stack) /\ ~Holds(stack, Revoking) => Ordered(stack')
        BY <1>0, <3>1, FrameKinds, PushOrdered
      <3> QED
        BY <1>0, <1>3, <2>1, <2>3, <3>2, <3>3 DEF subscribe, Revoke
    <2> QED
      BY <2>2, <2>3
  <1>4. CASE EndRebalance
    <2>1. /\ Holds(stack, Revoking) <=> Holds(stack', Revoking)
          /\ Ordered(stack) => Ordered(stack') /\ ~Holds(stack', Revoking)
      BY <1>0, <1>4, AfterPop DEF EndRebalance, Pops
    <2> QED
      BY <1>0, <1>4, <2>1 DEF EndRebalance, Assigned
  <1>5. CASE RebalanceThrows
    <2>1. Holds(stack, Revoking) <=> Holds(stack', Revoking)
      BY <1>0, <1>5, AfterPop DEF RebalanceThrows, Pops
    <2> QED
      BY <1>0, <1>5, <2>1 DEF RebalanceThrows, Bypass
  <1>6. ASSUME NEW topics \in SUBSET Topics, assign(topics) PROVE ListenerInv' /\ ServedInv'
    BY <1>0, <1>6 DEF assign, Bypass
  <1>7. ASSUME NEW caller \in Revoking, Unsubscribe(caller, TRUE)
        PROVE  ListenerInv' /\ ServedInv'
    <2>1. CASE rebalanceListener /\ assignedPartitions # {}
      <3>1. stack' = Append(stack, Frame(caller))
        BY <1>7, <2>1 DEF Unsubscribe, CallsBack
      <3>2. Holds(stack', Revoking) /\ Holds(stack', AssignmentCalls)
        BY <1>0, <3>1, FrameKinds, StackAfterCall
      <3>3. Ordered(stack) => Ordered(stack')
        BY <1>0, <3>1, FrameKinds, PushOrdered
      <3> QED
        BY <1>0, <1>7, <2>1, <3>2, <3>3 DEF Unsubscribe, Revoke
    <2>2. CASE ~(rebalanceListener /\ assignedPartitions # {})
      BY <1>0, <1>7, <2>2 DEF Unsubscribe
    <2> QED
      BY <2>1, <2>2
  <1>8. CASE unsubscribe
    <2>1. Unsubscribe("unsubscribe", TRUE)
      BY <1>8 DEF unsubscribe, Unsubscribe
    <2> QED
      BY <1>7, <2>1
  <1>9. CASE close
    <2>1. CASE isInitialized
      <3>1. Unsubscribe("close", TRUE)
        BY <1>9, <2>1 DEF close, Unsubscribe
      <3> QED
        BY <1>7, <3>1
    <2>2. CASE ~isInitialized
      BY <1>0, <1>9, <2>2 DEF close
    <2> QED
      BY <2>1, <2>2
  <1>10. CASE EndUnsubscribe
    <2>1. /\ Holds(stack, Revoking)
          /\ Holds(stack', Revoking) => Holds(stack, Revoking)
          /\ Ordered(stack) => Ordered(stack')
      BY <1>0, <1>10, AfterPop DEF EndUnsubscribe, Pops
    <2> QED
      BY <1>0, <1>10, <2>1 DEF EndUnsubscribe
  <1>11. CASE poll \/ IntervalFires
    <2>1. PICK n \in 1 .. MaxRecords : Polls(n)
      BY <1>11 DEF poll, IntervalFires
    <2>2. /\ Holds(stack', Revoking) <=> Holds(stack, Revoking)
          /\ Holds(stack', AssignmentCalls) <=> Holds(stack, AssignmentCalls)
      BY <1>0, <2>1, FrameKinds, StackAfterCall DEF Polls, CallsBack
    <2>3. Ordered(stack) => Ordered(stack')
      BY <1>0, <2>1, FrameKinds, PushOrdered DEF Polls, CallsBack
    <2> QED
      BY <1>0, <2>1, <2>2, <2>3 DEF Polls
  <1>12. CASE DataHandled \/ DataThrows
    <2>1. /\ Holds(stack', Revoking) <=> Holds(stack, Revoking)
          /\ Holds(stack', AssignmentCalls) <=> Holds(stack, AssignmentCalls)
          /\ Ordered(stack) => Ordered(stack')
      BY <1>0, <1>12, DataHandledPops
    <2> QED
      BY <1>0, <1>12, <2>1 DEF DataHandled, DataThrows
  <1> QED
    BY <1>1, <1>3, <1>4, <1>5, <1>6, <1>8, <1>9, <1>10, <1>11, <1>12 DEF Next

LEMMA Inductive == Spec => []IndInv
  <1>1. IndInv /\ [Next]_vars => IndInv'
    BY TypeStep, ReleaseStep, QuietStep, ListenerStep DEF IndInv
  <1> QED
    BY InitInd, <1>1, PTL DEF Spec

-----------------------------------------------------------------------------
\* The listener knows what the consumer has.
THEOREM ListenerKnows == Spec => []ListenerInStep
  <1>1. IndInv => ListenerInStep
    BY UnderWayHolds DEF IndInv, ListenerInv, ListenerInStep, Changing, AssignmentCalls
  <1> QED
    BY Inductive, <1>1, PTL

\* A subscription is what the consumer consumes.
THEOREM SubscriptionServed == Spec => []SubscriptionIsServed
  <1>1. IndInv => SubscriptionIsServed
    BY UnderWayHolds DEF IndInv, ServedInv, SubscriptionIsServed, Changing, AssignmentCalls
  <1> QED
    BY Inductive, <1>1, PTL

\* stop() and close() end the polling, and no record comes after close().
THEOREM PollingIsOwned == Spec => [](IntervalIsOwned /\ ClosedIsQuiet)
  <1>1. IndInv => IntervalIsOwned /\ ClosedIsQuiet
    BY DEF IndInv
  <1> QED
    BY Inductive, <1>1, PTL

\* A closed consumer holds nothing that was not taken while it closed.
THEOREM ClosedHoldsNothing == Spec => []CloseReleases
  <1>1. IndInv => CloseReleases
    BY DEF IndInv, ReleaseInv, IntervalIsOwned, CloseReleases
  <1> QED
    BY Inductive, <1>1, PTL

\* The variables have their types.
THEOREM ConsumerTypes == Spec => []TypeOK
  <1>1. IndInv => TypeOK
    BY DEF IndInv
  <1> QED
    BY Inductive, <1>1, PTL

\* No record is emitted once the consumer is closed.
COROLLARY QuietCorrect == Spec => []ClosedIsQuiet
  <1> QED BY PollingIsOwned, PTL
=============================================================================

----------------------------- MODULE PartsProofs -----------------------------
(***************************************************************************)
(* Parts of the client that stand alone and that MCParts runs: the frame   *)
(* reader and ReplicaAssignments.  The theorem about the second is of the  *)
(* specification that the run checks: a step of another part leaves its    *)
(* variables alone.                                                        *)
(***************************************************************************)
EXTENDS MCParts, FiniteSetTheorems, TLAPS

-----------------------------------------------------------------------------
(* The frame reader is correct for every stream and every way of cutting   *)
(* it.  The invariant says where the handler stands: the bytes it has not  *)
(* processed begin where the next response does.                           *)

\* How many responses were handled.
Done == Len(delivered)

\* Every response that has arrived whole was handled when the handler returned.
NoneWaits ==
    ~running => \A k \in 1 .. NumFrames : start[k + 1] <= received => k <= Len(delivered)

\* The buffer ends where the stream has arrived, and what is not processed
\* of it begins where the next response does.
BufferAt ==
    /\ buffer = NoBuffer => ~running /\ received = start[Done + 1]
    /\ buffer # NoBuffer =>
           /\ buffer \in Nat /\ base \in Nat /\ processed \in Nat
           /\ base + buffer = received
           /\ base + processed = start[Done + 1]
           /\ processed <= buffer
           /\ buffer > 0

\* The inductive invariant.
FrameInv ==
    /\ start \in Layouts
    /\ received \in 0 .. StreamLength
    /\ running \in BOOLEAN
    /\ delivered \in Seq((0 .. StreamLength) \X (0 .. StreamLength))
    /\ ~running => processed = 0 /\ base \in 0 .. StreamLength
    /\ DeliveredInOrder
    /\ NoneWaits
    /\ BufferAt

\* The places of a stream are naturals, in order.
LEMMA LayoutFacts ==
    ASSUME NEW s \in Layouts
    PROVE  /\ s \in [1 .. NumFrames + 1 -> Nat]
           /\ s[1] = 0
           /\ \A k \in 1 .. NumFrames : s[k + 1] - s[k] - SizeField \in Nat
           /\ \A j, k \in 1 .. NumFrames + 1 : j <= k => s[j] <= s[k]
           /\ \A j, k \in 1 .. NumFrames + 1 : s[j] = s[k] => j = k
<1> USE FrameAssumption
<1>1. s \in [1 .. NumFrames + 1 -> Nat] /\ s[1] = 0
  BY DEF Layouts
<1>2. \A j, k \in 1 .. NumFrames + 1 : j < k => s[j] < s[k]
  BY DEF Layouts
<1>3. \A k \in 1 .. NumFrames : s[k + 1] - s[k] - SizeField \in Nat
  BY DEF Layouts
<1>4. \A j, k \in 1 .. NumFrames + 1 : j <= k => s[j] <= s[k]
  BY <1>1, <1>2
<1>5. \A j, k \in 1 .. NumFrames + 1 : s[j] = s[k] => j = k
  BY <1>1, <1>2
<1> QED BY <1>1, <1>3, <1>4, <1>5

\* Where a response starts, its size field says how long it is.
LEMMA SizeIsRead ==
    ASSUME start \in Layouts, NEW k \in 1 .. NumFrames, base + processed = start[k]
    PROVE  messageSize = start[k + 1] - start[k] - SizeField
<1>1. \A j \in 1 .. NumFrames : start[j] = base + processed => j = k
  BY FrameAssumption, LayoutFacts
<1> QED BY <1>1 DEF messageSize

\* The stream has a length.
LEMMA StreamLengthNat ==
    ASSUME start \in Layouts
    PROVE  StreamLength \in Nat
BY FrameAssumption, LayoutFacts DEF StreamLength

\* Before the end of the stream a complete response is the next one, and after
\* it there is none.
LEMMA CompleteIsNext ==
    ASSUME FrameInv, running, CompleteMessage
    PROVE  /\ Done + 1 \in 1 .. NumFrames
           /\ messageSize = start[Done + 2] - start[Done + 1] - SizeField
           /\ start[Done + 2] <= received
<1> USE FrameAssumption DEF Done
<1>1. /\ buffer \in Nat /\ base \in Nat /\ processed \in Nat
      /\ base + buffer = received /\ base + processed = start[Done + 1]
      /\ start \in Layouts /\ received <= StreamLength
      /\ Done \in Nat /\ Done <= NumFrames
  BY DEF FrameInv, BufferAt, DeliveredInOrder
<1>2. start \in [1 .. NumFrames + 1 -> Nat]
  BY <1>1, LayoutFacts
<1>3. Done # NumFrames
  BY <1>1, <1>2 DEF CompleteMessage, Left, SizeField, StreamLength
<1>4. Done + 1 \in 1 .. NumFrames
  BY <1>1, <1>3
<1>5. messageSize = start[Done + 2] - start[Done + 1] - SizeField
  BY <1>1, <1>4, SizeIsRead
<1>6. start[Done + 2] <= received
  <2>1. start[Done + 1] \in Nat /\ start[Done + 2] \in Nat
    BY <1>1, <1>2, <1>4
  <2>2. Left = received - start[Done + 1]
    BY <1>1, <2>1 DEF Left
  <2>3. Left - SizeField >= messageSize
    BY DEF CompleteMessage
  <2>4. received - start[Done + 1] - 4 >= start[Done + 2] - start[Done + 1] - 4
    BY <1>5, <2>2, <2>3 DEF SizeField
  <2>5. received \in Nat
    BY <1>1
  <2> HIDE DEF Done
  <2> QED BY <2>1, <2>4, <2>5
<1> QED BY <1>4, <1>5, <1>6

\* Before anything has arrived.
LEMMA FrameInvInit == Init => FrameInv
<1> USE FrameAssumption
<1> SUFFICES ASSUME Init PROVE FrameInv
  OBVIOUS
<1>1. /\ start \in [1 .. NumFrames + 1 -> Nat] /\ start[1] = 0
      /\ \A k \in 1 .. NumFrames : start[k + 1] - start[k] - SizeField \in Nat
      /\ \A j, k \in 1 .. NumFrames + 1 : j <= k => start[j] <= start[k]
  BY LayoutFacts DEF Init
<1>2. received \in 0 .. StreamLength
  BY <1>1 DEF Init, StreamLength
<1>3. Done = 0
  BY DEF Init, Done
<1>4. DeliveredInOrder
  BY DEF Init, DeliveredInOrder
<1>5. NoneWaits
  <2> SUFFICES ASSUME NEW k \in 1 .. NumFrames, start[k + 1] <= received
               PROVE  FALSE
    BY DEF NoneWaits
  <2>1. start[k] \in Nat /\ start[k + 1] \in Nat /\ start[k + 1] - start[k] - SizeField \in Nat
    BY <1>1
  <2> QED BY <2>1 DEF Init, SizeField
<1>6. BufferAt
  BY <1>1, <1>3 DEF Init, BufferAt
<1>7. base \in 0 .. StreamLength
  BY <1>2 DEF Init
<1>8. delivered \in Seq((0 .. StreamLength) \X (0 .. StreamLength))
  BY DEF Init
<1> QED BY <1>2, <1>4, <1>5, <1>6, <1>7, <1>8 DEF Init, FrameInv

\* The bytes that arrive go behind those in the buffer.
LEMMA ReceiveKeeps ==
    ASSUME FrameInv, NEW n \in 1 .. StreamLength, Receive(n)
    PROVE  FrameInv'
<1> USE FrameAssumption
<1>1. start \in [1 .. NumFrames + 1 -> Nat] /\ start' = start /\ StreamLength' = StreamLength
  BY LayoutFacts DEF FrameInv, Receive, StreamLength
<1>2. /\ received' = received + n /\ n \in Nat /\ n > 0 /\ received' \in 0 .. StreamLength'
      /\ received \in Nat
  BY <1>1 DEF FrameInv, Receive, StreamLength
<1>3. Done' = Done /\ delivered' = delivered /\ DeliveredInOrder' /\ running' = TRUE /\ NoneWaits'
  BY <1>1 DEF FrameInv, Receive, Done, DeliveredInOrder, NoneWaits
<1>4. CASE buffer = NoBuffer
  <2>1. buffer' = n /\ base' = received /\ processed' = 0 /\ received = start[Done + 1]
    BY <1>4 DEF Receive, FrameInv, BufferAt
  <2>2. buffer' # NoBuffer
    BY <1>2, <2>1
  <2>3. BufferAt'
    BY <1>1, <1>2, <1>3, <2>1, <2>2 DEF BufferAt
  <2> QED BY <1>1, <1>2, <1>3, <2>3 DEF FrameInv
<1>5. CASE buffer # NoBuffer
  <2>1. buffer' = buffer + n /\ base' = base /\ processed' = 0 /\ processed = 0
    BY <1>5 DEF Receive, FrameInv, BufferAt
  <2>2. buffer \in Nat /\ base \in Nat /\ base + buffer = received /\ base = start[Done + 1]
    BY <1>5, <2>1 DEF FrameInv, BufferAt
  <2>3. buffer' # NoBuffer
    BY <1>2, <2>1, <2>2
  <2>4. /\ base' + buffer' = received' /\ base' + processed' = start'[Done' + 1]
        /\ buffer' \in Nat /\ processed' \in Nat /\ processed' <= buffer' /\ buffer' > 0
    <3>1. base' + buffer' = received'
      BY <1>2, <2>1, <2>2
    <3>2. base' + processed' = start[Done + 1]
      BY <2>1, <2>2
    <3>3. start'[Done' + 1] = start[Done + 1]
      BY <1>1, <1>3
    <3>4. buffer' \in Nat /\ processed' \in Nat /\ processed' <= buffer' /\ buffer' > 0
      BY <1>2, <2>1, <2>2
    <3> QED BY <3>1, <3>2, <3>3, <3>4
  <2>5. BufferAt'
    BY <2>1, <2>2, <2>3, <2>4 DEF BufferAt
  <2> QED BY <1>1, <1>2, <1>3, <2>5 DEF FrameInv
<1> QED BY <1>4, <1>5

\* A turn of the loop delivers the next response and stops behind it.
LEMMA ExtractKeeps ==
    ASSUME FrameInv, Extract
    PROVE  FrameInv'
<1> USE FrameAssumption
<1>1. running /\ CompleteMessage
  BY DEF Extract
<1>2. /\ Done + 1 \in 1 .. NumFrames
      /\ messageSize = start[Done + 2] - start[Done + 1] - SizeField
      /\ start[Done + 2] <= received
  BY <1>1, CompleteIsNext
<1>3. /\ start \in [1 .. NumFrames + 1 -> Nat]
      /\ \A k \in 1 .. NumFrames : start[k + 1] - start[k] - SizeField \in Nat
  BY LayoutFacts DEF FrameInv
<1>4. Done \in Nat /\ Done <= NumFrames
  BY DEF FrameInv, DeliveredInOrder, Done
<1>5. start[Done + 2] - start[Done + 1] - SizeField \in Nat
  BY <1>2, <1>3, <1>4
<1>6. buffer # NoBuffer
  BY <1>1 DEF FrameInv, BufferAt
<1>7. /\ buffer \in Nat /\ base \in Nat /\ processed \in Nat
      /\ base + buffer = received /\ base + processed = start[Done + 1]
      /\ received \in 0 .. StreamLength
  BY <1>6 DEF FrameInv, BufferAt
<1>8. UNCHANGED <<start, received, buffer, base, running>> /\ StreamLength' = StreamLength
  BY DEF Extract, StreamLength
<1>9. start[Done + 1] \in Nat /\ start[Done + 2] \in Nat
  BY <1>2, <1>3, <1>4
<1>10. processed' = start[Done + 2] - base
  <2>1. processed' = processed + SizeField + messageSize
    BY DEF Extract
  <2> QED BY <1>2, <1>7, <1>9, <2>1 DEF SizeField
<1>11. delivered' = Append(delivered, <<start[Done + 1] + SizeField, start[Done + 2]>>)
  <2>1. base + processed + SizeField = start[Done + 1] + SizeField
    BY <1>7
  <2>2. start[Done + 1] + SizeField + messageSize = start[Done + 2]
    BY <1>2, <1>9 DEF SizeField
  <2> QED BY <2>1, <2>2 DEF Extract
<1>12. start[Done + 1] + SizeField \in 0 .. StreamLength /\ start[Done + 2] \in 0 .. StreamLength
  <2>1. StreamLength \in Nat
    BY StreamLengthNat DEF FrameInv
  <2>2. start[Done + 1] + SizeField <= start[Done + 2]
    BY <1>5, <1>9 DEF SizeField
  <2> QED BY <1>2, <1>7, <1>9, <2>1, <2>2 DEF SizeField
<1>13. /\ delivered' \in Seq((0 .. StreamLength) \X (0 .. StreamLength)) /\ Done' = Done + 1
       /\ \A k \in 1 .. Done : delivered'[k] = delivered[k]
       /\ delivered'[Done + 1] = <<start[Done + 1] + SizeField, start[Done + 2]>>
  BY <1>11, <1>12 DEF FrameInv, Done
<1>14. DeliveredInOrder'
  <2>1. Len(delivered') = Done + 1 /\ Done + 1 <= NumFrames
    BY <1>2, <1>4, <1>13 DEF Done
  <2>2. ASSUME NEW k \in 1 .. Done + 1
        PROVE  delivered'[k] = <<start[k] + SizeField, start[k + 1]>>
    <3>1. CASE k \in 1 .. Done
      BY <1>13, <3>1 DEF FrameInv, DeliveredInOrder, Done
    <3>2. CASE k = Done + 1
      BY <1>4, <1>13, <3>2
    <3> QED BY <1>4, <3>1, <3>2
  <2> QED BY <1>8, <2>1, <2>2 DEF DeliveredInOrder
<1>15. /\ processed' \in Nat /\ processed' <= buffer
       /\ base + processed' = start[Done + 2]
  BY <1>2, <1>5, <1>7, <1>9, <1>10 DEF SizeField
<1>16. NoneWaits'
  BY <1>1, <1>8 DEF NoneWaits
<1>17. BufferAt'
  BY <1>4, <1>6, <1>7, <1>8, <1>13, <1>15 DEF FrameInv, BufferAt
<1> QED BY <1>1, <1>8, <1>13, <1>14, <1>16, <1>17 DEF FrameInv

\* Where the loop ends the next response is not complete, nor any after it.
LEMMA FinishKeeps ==
    ASSUME FrameInv, Finish
    PROVE  FrameInv'
<1> USE FrameAssumption
<1>1. running /\ ~CompleteMessage /\ running' = FALSE /\ processed' = 0
  BY DEF Finish
<1>2. UNCHANGED <<start, received, delivered>> /\ StreamLength' = StreamLength /\ Done' = Done
  BY DEF Finish, StreamLength, Done
<1>3. /\ start \in [1 .. NumFrames + 1 -> Nat]
      /\ \A j, k \in 1 .. NumFrames + 1 : j <= k => start[j] <= start[k]
  BY LayoutFacts DEF FrameInv
<1>4. buffer # NoBuffer
  BY <1>1 DEF FrameInv, BufferAt
<1>5. /\ buffer \in Nat /\ base \in Nat /\ processed \in Nat /\ processed <= buffer
      /\ base + buffer = received /\ base + processed = start[Done + 1]
      /\ received \in 0 .. StreamLength /\ start \in Layouts
  BY <1>4 DEF FrameInv, BufferAt
<1>6. Done \in Nat /\ Done <= NumFrames /\ DeliveredInOrder'
  BY <1>2 DEF FrameInv, DeliveredInOrder, Done
<1>7. NoneWaits'
  <2> SUFFICES ASSUME NEW k \in 1 .. NumFrames, start[k + 1] <= received, k > Done
               PROVE  FALSE
    BY <1>2, <1>6 DEF NoneWaits, Done
  <2>1. Done + 1 \in 1 .. NumFrames /\ Done + 2 \in 1 .. NumFrames + 1 /\ Done + 2 <= k + 1
    BY <1>6
  <2>2. start[Done + 2] <= received
    <3> k + 1 \in 1 .. NumFrames + 1
      OBVIOUS
    <3>1. start[Done + 2] \in Nat /\ start[k + 1] \in Nat
      BY <1>3, <2>1
    <3>2. start[Done + 2] <= start[k + 1]
      BY <1>3, <2>1
    <3> QED BY <1>5, <3>1, <3>2
  <2>3. messageSize = start[Done + 2] - start[Done + 1] - SizeField
    BY <1>5, <1>6, <2>1, SizeIsRead
  <2>4. start[Done + 1] \in Nat /\ start[Done + 2] \in Nat /\ messageSize \in Nat
    <3>1. start[Done + 1] \in Nat /\ start[Done + 2] \in Nat
      <4> Done + 1 \in 1 .. NumFrames + 1
        BY <2>1
      <4> QED BY <1>3, <2>1
    <3>2. start[Done + 2] - start[Done + 1] - SizeField \in Nat
      <4>1. \A j \in 1 .. NumFrames : start[j + 1] - start[j] - SizeField \in Nat
        BY <1>5, LayoutFacts
      <4>2. (Done + 1) + 1 = Done + 2
        BY <1>6
      <4>3. start[(Done + 1) + 1] - start[Done + 1] - SizeField \in Nat
        BY <2>1, <4>1
      <4> QED BY <4>2, <4>3
    <3> QED BY <2>3, <3>1, <3>2
  <2>5. Left = received - start[Done + 1]
    BY <1>5, <2>4 DEF Left
  <2> QED BY <1>1, <1>5, <2>2, <2>3, <2>4, <2>5 DEF CompleteMessage, SizeField
<1>8. CASE processed = buffer
  <2>1. buffer' = NoBuffer /\ base' = base
    BY <1>8 DEF Finish, KeepRest
  <2>2. received = start[Done + 1]
    BY <1>5, <1>8
  <2>3. BufferAt'
    BY <1>1, <1>2, <2>1, <2>2 DEF BufferAt
  <2>4. base' \in 0 .. StreamLength
    BY <1>5, <2>1, StreamLengthNat
  <2> QED BY <1>1, <1>2, <1>5, <1>6, <1>7, <2>3, <2>4 DEF FrameInv
<1>9. CASE processed # buffer
  <2>1. buffer' = buffer - processed /\ base' = base + processed
    BY <1>9 DEF Finish, KeepRest
  <2>2. buffer' \in Nat /\ buffer' > 0 /\ base' \in Nat /\ buffer' # NoBuffer
    BY <1>5, <1>9, <2>1
  <2>3. base' + buffer' = received /\ base' + 0 = start[Done + 1]
    BY <1>5, <2>1
  <2>4. BufferAt'
    BY <1>1, <1>2, <2>1, <2>2, <2>3 DEF BufferAt
  <2>5. base' \in 0 .. StreamLength
    BY <1>5, <2>1, <2>2, <2>3, StreamLengthNat
  <2> QED BY <1>1, <1>2, <1>5, <1>6, <1>7, <2>4, <2>5 DEF FrameInv
<1> QED BY <1>8, <1>9

\* Every step of the handler preserves the invariant.
LEMMA FrameInvStep == FrameInv /\ [Next]_vars => FrameInv'
<1> SUFFICES ASSUME FrameInv, [Next]_vars PROVE FrameInv'
  OBVIOUS
<1>1. CASE UNCHANGED vars
  BY <1>1 DEF vars, FrameInv, BufferAt, Done, StreamLength, DeliveredInOrder, NoneWaits
<1> QED BY <1>1, ReceiveKeeps, ExtractKeeps, FinishKeeps DEF Next

\* For every stream of responses and every way it is cut into 'data' events:
\* each response is handled once, whole, in order, and as soon as its last
\* byte is there, and the buffer is what is left.
THEOREM FramesCorrect == Spec => [](DeliveredInOrder /\ BufferIsTheRest)
<1>1. FrameInv => DeliveredInOrder /\ BufferIsTheRest
  <2> SUFFICES ASSUME FrameInv PROVE BufferIsTheRest
    BY DEF FrameInv
  <2>1. CASE buffer = NoBuffer
    BY <2>1 DEF FrameInv, BufferAt, BufferIsTheRest, NoneWaits, Done
  <2>2. CASE buffer # NoBuffer
    <3>1. start \in [1 .. NumFrames + 1 -> Nat] /\ Len(delivered) \in 0 .. NumFrames
      BY LayoutFacts, FrameAssumption DEF FrameInv, DeliveredInOrder
    <3> QED BY <2>2, <3>1, FrameAssumption DEF FrameInv, BufferAt, BufferIsTheRest, NoneWaits, Done
  <2> QED BY <2>1, <2>2
<1> QED
  BY <1>1, FrameInvInit, FrameInvStep, PTL DEF Spec

\* The state of the reader stays in its type.
THEOREM FrameTypes == Spec => []TypeOK
<1>1. FrameInv => TypeOK
  <2> SUFFICES ASSUME FrameInv PROVE TypeOK
    OBVIOUS
  <2>1. StreamLength \in Nat
    BY LayoutFacts, FrameAssumption DEF FrameInv, StreamLength
  <2> QED BY <2>1, FrameAssumption DEF FrameInv, BufferAt, TypeOK
<1> QED
  BY <1>1, FrameInvInit, FrameInvStep, PTL DEF Spec

\* The buffer holds exactly the bytes that no handled response had, and among
\* them no complete response.
COROLLARY BufferCorrect == Spec => []BufferIsTheRest
<1> QED BY FramesCorrect, PTL

-----------------------------------------------------------------------------
(* The rows of NewPartitions.                                              *)

\* The assignments are the first rows of the last call, in their places, and
\* fewer than all of them if it threw.
RowsInv ==
    /\ Len(lastCall) \in Nat
    /\ \E k \in 0 .. Len(lastCall) :
           /\ assignments = [p \in 0 .. k - 1 |-> lastCall[p + 1]]
           /\ threw <=> k < Len(lastCall)

\* A call puts its rows in the place of the earlier ones.
LEMMA RowsStep ==
    ASSUME RowsInv, [Replicas!Next]_replicaVars
    PROVE  RowsInv'
<1>1. ASSUME NEW n \in 0 .. MaxRows, NEW rows \in [1 .. n -> Replicas!Rows],
             Replicas!AssignRows(rows)
      PROVE  RowsInv'
  <2>1. n \in Nat
    BY PartsAssumption DEF Replicas!PositivePartitions
  <2>2. rows \in Seq(Replicas!Rows) /\ Len(rows) = n
    BY <2>1
  <2>3. lastCall' = rows
    BY <1>1 DEF Replicas!AssignRows
  <2>4. PICK upTo \in 0 .. Len(rows) :
            /\ assignments' = [p \in 0 .. upTo - 1 |-> rows[p + 1]]
            /\ threw' <=> upTo < Len(rows)
    BY <1>1 DEF Replicas!AssignRows, Replicas!SetRows
  <2> QED BY <2>1, <2>2, <2>3, <2>4 DEF RowsInv
<1>2. ASSUME NEW partition, NEW replicas, Replicas!AssignPartition(partition, replicas)
      PROVE  RowsInv'
  BY <1>2 DEF Replicas!AssignPartition, RowsInv
<1>3. CASE UNCHANGED replicaVars
  BY <1>3 DEF replicaVars, RowsInv
<1> QED BY <1>1, <1>2, <1>3 DEF Replicas!Next

\* Instantiation gives the module a cardinality of its own, which is the same.
LEMMA SameCardinality ==
    ASSUME NEW S
    PROVE  Replicas!Cardinality(S) = Cardinality(S)
BY DEF Replicas!Cardinality, Cardinality, Replicas!IsFiniteSet, IsFiniteSet

\* Rows in their places are as many as were set.
LEMMA RowsByPosition ==
    ASSUME RowsInv
    PROVE  Replicas!RowsAreOfLastCall
<1>1. PICK k \in 0 .. Len(lastCall) :
          /\ assignments = [p \in 0 .. k - 1 |-> lastCall[p + 1]]
          /\ threw <=> k < Len(lastCall)
  BY DEF RowsInv
<1>2. k \in Nat /\ Len(lastCall) \in Nat
  BY DEF RowsInv
<1>3. DOMAIN assignments = 0 .. k - 1
  BY <1>1
<1>4. Replicas!Cardinality(DOMAIN assignments) = k
  <2>1. Cardinality(0 .. k - 1) = k
    BY <1>2, FS_Interval
  <2> QED BY <1>3, <2>1, SameCardinality
<1>5. Replicas!toJSON = [i \in 1 .. k |-> lastCall[i]]
  <2>1. Replicas!toJSON = [i \in 1 .. k |-> assignments[i - 1]]
    BY <1>4 DEF Replicas!toJSON
  <2>2. \A i \in 1 .. k : assignments[i - 1] = lastCall[i]
    BY <1>1, <1>2
  <2> QED BY <2>1, <2>2
<1>6. Len(Replicas!toJSON) = k /\ DOMAIN Replicas!toJSON = 1 .. k
  BY <1>2, <1>5
<1>7. \A i \in DOMAIN Replicas!toJSON :
          i <= Len(lastCall) /\ Replicas!toJSON[i] = lastCall[i]
  BY <1>2, <1>5, <1>6
<1>8. threw <=> Len(Replicas!toJSON) < Len(lastCall)
  BY <1>1, <1>6
<1> QED BY <1>3, <1>4, <1>7, <1>8 DEF Replicas!RowsAreOfLastCall

-----------------------------------------------------------------------------
(* In the specification of MCParts, where the other parts leave them alone. *)

\* Nothing of an earlier call is left in the assignments of NewPartitions, and
\* toJSON() lists them in their places.
THEOREM RowsCorrect == MCSpec => []PartitionRowsAreOfLastCall
<1>1. MCInit => RowsInv
  <2> SUFFICES ASSUME MCInit PROVE RowsInv
    OBVIOUS
  <2>1. lastCall = <<>> /\ assignments = [p \in {} |-> {}] /\ threw = FALSE
    BY DEF MCInit, Replicas!Init, Replicas!Empty
  <2>2. Len(lastCall) = 0 /\ 0 .. 0 - 1 = {}
    BY <2>1
  <2>3. assignments = [p \in 0 .. 0 - 1 |-> lastCall[p + 1]]
    BY <2>1, <2>2
  <2>4. (threw <=> 0 < Len(lastCall)) /\ 0 \in 0 .. Len(lastCall)
    BY <2>1, <2>2
  <2> QED BY <2>2, <2>3, <2>4 DEF RowsInv
<1>2. RowsInv /\ [MCNext]_allVars => RowsInv'
  BY RowsStep DEF MCNext, allVars
<1>3. RowsInv => PartitionRowsAreOfLastCall
  BY RowsByPosition DEF PartitionRowsAreOfLastCall
<1> QED BY <1>1, <1>2, <1>3, PTL DEF MCSpec
=============================================================================

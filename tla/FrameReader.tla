---------------------------- MODULE FrameReader ----------------------------
(***************************************************************************)
(* BrokerConnection.handleIncomingData (src/network/BrokerConnection.ts):  *)
(* cuts the byte stream of one connection into responses.  A response is a *)
(* size field of 4 bytes and as many bytes as it says; the stream arrives  *)
(* in 'data' events that know nothing of responses.                        *)
(*                                                                         *)
(* The buffer always holds a stretch of the stream, so bytes are positions *)
(* of the stream: buffer[0] is at "base".  The turns of the while loop are *)
(* steps of their own; nothing else runs before the handler returns.       *)
(***************************************************************************)
EXTENDS Integers, Sequences

CONSTANTS
    NumFrames,   \* responses in the stream
    MaxSize,     \* bound on the size of a response
    NoBuffer     \* null, as a buffer

ASSUME FrameAssumption == NumFrames \in Nat /\ MaxSize \in Nat /\ NoBuffer \notin Nat

VARIABLES
    start,      \* where in the stream each response starts, and where it ends
    received,   \* how many bytes of the stream have arrived
    buffer,     \* its length, or NoBuffer
    base,       \* the position of buffer[0]
    processed,  \* the local variable of the handler, while it runs
    running,    \* the handler runs
    delivered   \* what handleResponse was given: first position and the one after

vars == <<start, received, buffer, base, processed, running, delivered>>

SizeField == 4

\* Streams of whole responses: where each starts and the last one ends.
Layouts ==
    {s \in [1 .. NumFrames + 1 -> 0 .. (SizeField + MaxSize) * NumFrames] :
        /\ s[1] = 0
        /\ \A k \in 1 .. NumFrames : s[k + 1] - s[k] - SizeField \in 0 .. MaxSize
        /\ \A j, k \in 1 .. NumFrames + 1 : j < k => s[j] < s[k]}

StreamLength == start[NumFrames + 1]

TypeOK ==
    /\ start \in Layouts
    /\ received \in 0 .. StreamLength
    /\ buffer \in (1 .. StreamLength) \cup {NoBuffer}
    /\ base \in 0 .. StreamLength
    /\ processed \in 0 .. StreamLength
    /\ running \in BOOLEAN
    /\ delivered \in Seq((0 .. StreamLength) \X (0 .. StreamLength))

Init ==
    /\ start \in Layouts
    /\ received = 0
    /\ buffer = NoBuffer
    /\ base = 0
    /\ processed = 0
    /\ running = FALSE
    /\ delivered = <<>>

-----------------------------------------------------------------------------
\* The bytes in the buffer that are not processed yet.
Left == buffer - processed

\* readInt32BE(processed): the size of the response that starts there.  At
\* any other place the bytes say nothing and the read is not defined.
messageSize ==
    LET k == CHOOSE k \in 1 .. NumFrames : start[k] = base + processed
    IN  start[k + 1] - start[k] - SizeField

\* Mutants (names in Mut...) are plausible wrong versions of the definition
\* that follows.
MutNeedsMore == Left > SizeField /\ Left - SizeField > messageSize
MutSizeFieldNotCounted == Left >= SizeField /\ Left >= messageSize

\* The buffer has the size field and all that it announces.
CompleteMessage == Left >= SizeField /\ Left - SizeField >= messageSize

\* A 'data' event with n bytes: appended to the buffer, or the buffer.
Receive(n) ==
    /\ ~running
    /\ received + n <= StreamLength
    /\ received' = received + n
    /\ IF buffer = NoBuffer
       THEN buffer' = n /\ base' = received
       ELSE buffer' = buffer + n /\ UNCHANGED base
    /\ processed' = 0
    /\ running' = TRUE
    /\ UNCHANGED <<start, delivered>>

\* One turn of the loop that calls handleResponse.
Extract ==
    /\ running
    /\ CompleteMessage
    /\ LET from == base + processed + SizeField
       IN  delivered' = Append(delivered, <<from, from + messageSize>>)
    /\ processed' = processed + SizeField + messageSize
    /\ UNCHANGED <<start, received, buffer, base, running>>

MutDropsRest ==
    /\ buffer' = IF processed = 0 THEN buffer ELSE NoBuffer
    /\ UNCHANGED base

MutKeepsAll == UNCHANGED <<buffer, base>>

\* What is not processed is kept.
KeepRest ==
    IF processed = buffer
    THEN buffer' = NoBuffer /\ UNCHANGED base
    ELSE buffer' = buffer - processed /\ base' = base + processed

\* The loop ends: nothing is left, or no complete response.
Finish ==
    /\ running
    /\ ~CompleteMessage
    /\ KeepRest
    /\ running' = FALSE
    /\ processed' = 0
    /\ UNCHANGED <<start, received, delivered>>

Next ==
    \/ \E n \in 1 .. StreamLength : Receive(n)
    \/ Extract
    \/ Finish

Spec == Init /\ [][Next]_vars

-----------------------------------------------------------------------------
\* handleResponse is given the responses of the stream, in order, each once
\* and each from its first byte to its last, however the stream is cut.
DeliveredInOrder ==
    /\ Len(delivered) <= NumFrames
    /\ \A k \in 1 .. Len(delivered) : delivered[k] = <<start[k] + SizeField, start[k + 1]>>

\* When the handler returns, the buffer is exactly the part of the stream that
\* arrived and was not handled, and null when there is none: no byte is lost,
\* doubled or read again, and the next size is read where one is.  And no
\* response waits for bytes of a later one: every one that has arrived whole
\* was handled.
BufferIsTheRest ==
    ~running =>
        /\ buffer = NoBuffer <=> received = start[Len(delivered) + 1]
        /\ buffer # NoBuffer =>
               /\ base = start[Len(delivered) + 1]
               /\ base + buffer = received
        /\ \A k \in 1 .. NumFrames : start[k + 1] <= received => k <= Len(delivered)
=============================================================================

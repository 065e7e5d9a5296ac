------------------------- MODULE ReplicaAssignments -------------------------
(***************************************************************************)
(* Who assigns the replicas of new partitions: NewTopic.assignReplicas,    *)
(* one partition a call, checked before anything is set                    *)
(* (src/admin/NewTopic.ts), and NewPartitions.assignReplicas, all          *)
(* partitions in a call, each checked just before it is set                *)
(* (src/admin/NewPartitions.ts).                                           *)
(***************************************************************************)
EXTENDS Naturals, Sequences, FiniteSets

CONSTANTS
    Brokers,        \* broker ids
    numPartitions,  \* of the new topic
    MaxRows         \* bound: rows in one call of NewPartitions.assignReplicas

\* A topic has a partition.
PositivePartitions == numPartitions \in Nat \ {0} /\ MaxRows \in Nat

VARIABLES
    replicaAssignments,  \* of the NewTopic: partition -> replicas
    assignments,         \* of the NewPartitions: new partition -> replicas
    lastCall,            \* the rows of the last NewPartitions.assignReplicas
    threw                \* whether that call threw

vars == <<replicaAssignments, assignments, lastCall, threw>>

\* A list of replicas is abstracted to the set of its brokers; the empty list
\* and what is no array at all are the rows that the code refuses.
Rows == SUBSET Brokers
Empty == [p \in {} |-> {}]

Init ==
    /\ replicaAssignments = Empty
    /\ assignments = Empty
    /\ lastCall = <<>>
    /\ threw = FALSE

\* NewTopic.assignReplicas: out of range or empty throws and sets nothing.
AssignPartition(partition, replicas) ==
    /\ partition \in 0 .. numPartitions - 1
    /\ replicas # {}
    /\ replicaAssignments' =
         [p \in DOMAIN replicaAssignments \cup {partition} |->
             IF p = partition THEN replicas ELSE replicaAssignments[p]]
    /\ UNCHANGED <<assignments, lastCall, threw>>

MutKeepsOld(rows, upTo) ==
    [p \in (0 .. upTo - 1) \cup DOMAIN assignments |->
        IF p < upTo THEN rows[p + 1] ELSE assignments[p]]

\* The rows before the first that is refused are set, in place of what was
\* there before.
SetRows(rows, upTo) == [p \in 0 .. upTo - 1 |-> rows[p + 1]]

\* NewPartitions.assignReplicas, which clears the map and throws at the first
\* row it refuses.
AssignRows(rows) ==
    /\ \E upTo \in 0 .. Len(rows) :
           /\ \A i \in 1 .. upTo : rows[i] # {}
           /\ upTo < Len(rows) => rows[upTo + 1] = {}
           /\ assignments' = SetRows(rows, upTo)
           /\ threw' = (upTo < Len(rows))
    /\ lastCall' = rows
    /\ UNCHANGED replicaAssignments

Next ==
    \/ \E partition \in 0 .. numPartitions, replicas \in Rows :
           AssignPartition(partition, replicas)
    \/ \E n \in 0 .. MaxRows : \E rows \in [1 .. n -> Rows] : AssignRows(rows)

Spec == Init /\ [][Next]_vars

\* NewPartitions.toJSON: the replicas by partition, without the partitions.
toJSON == [i \in 1 .. Cardinality(DOMAIN assignments) |-> assignments[i - 1]]

-----------------------------------------------------------------------------
\* What toJSON() lists by position is what the last assignReplicas() was given
\* at that position: all of it, or what preceded the row that it refused;
\* nothing of an earlier call is left over.
RowsAreOfLastCall ==
    /\ DOMAIN assignments = 0 .. Cardinality(DOMAIN assignments) - 1
    /\ \A i \in DOMAIN toJSON : i <= Len(lastCall) /\ toJSON[i] = lastCall[i]
    /\ threw <=> Len(toJSON) < Len(lastCall)
=============================================================================

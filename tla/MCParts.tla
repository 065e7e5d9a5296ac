------------------------------- MODULE MCParts -------------------------------
(***************************************************************************)
(* The parts of the client that stand alone.  They share nothing: each     *)
(* behaviour is one of the part that is its subject, and the others stay   *)
(* as they began, each of them in one way.                                 *)
(***************************************************************************)
EXTENDS FrameReader, KafkaProducer, Wire, Messages

CONSTANTS Ops, AdminConnects, AdminCloses, TopicNames, BrokerNames, OtherNames
CONSTANTS Brokers, numPartitions, MaxRows

VARIABLES subject
VARIABLES adminInitialized, adminClosed, adminAt, kind, collection, result
VARIABLES replicaAssignments, assignments, lastCall, threw

frameVars == vars
adminVars == <<adminInitialized, adminClosed, adminAt, kind, collection, result>>
replicaVars == <<replicaAssignments, assignments, lastCall, threw>>

\* Both sides of the boundaries of 8 and 16 bits, signed and unsigned.
MCNumbers == {-32769, -129, -128, -1, 0, 127, 128, 255, 256, 32768, 65535, 65536}

Admin == INSTANCE AdminClient WITH
    Connects <- AdminConnects, Closes <- AdminCloses,
    isInitialized <- adminInitialized, isClosed <- adminClosed, at <- adminAt

Replicas == INSTANCE ReplicaAssignments

ASSUME PartsAssumption == Admin!OpsDistinct /\ Replicas!PositivePartitions

Subjects == {"frames", "producer", "admin", "replicas", "wire", "messages"}

MCInit ==
    /\ subject \in Subjects
    /\ Init
    /\ subject # "frames" => \A k \in 1 .. NumFrames : start[k + 1] = start[k] + SizeField
    /\ ProducerInit
    /\ Admin!Init
    /\ Replicas!Init
    /\ WireInit
    /\ subject # "wire" => message = "fields"
    /\ MessagesInit
    /\ subject # "messages" => clientId = Null

\* All but the part that moves.
MCNext ==
    /\ UNCHANGED subject
    /\ IF subject = "frames" THEN Next ELSE UNCHANGED frameVars
    /\ IF subject = "producer" THEN ProducerNext ELSE UNCHANGED producerVars
    /\ IF subject = "admin" THEN Admin!Next ELSE UNCHANGED adminVars
    /\ IF subject = "replicas" THEN Replicas!Next ELSE UNCHANGED replicaVars
    /\ IF subject = "wire" THEN WireNext ELSE UNCHANGED wireVars
    /\ IF subject = "messages" THEN MessagesNext ELSE UNCHANGED messageVars

allVars == <<subject, frameVars, producerVars, adminVars, replicaVars, wireVars, messageVars>>

MCSpec == MCInit /\ [][MCNext]_allVars /\ Fairness /\ Admin!Fairness

-----------------------------------------------------------------------------
\* Every call of the admin client settles: see CallsSettle of AdminClient
\* (src/admin/AdminClient.ts).
AdminCallsSettle == Admin!CallsSettle

\* NewPartitions keeps rows of its last call only: see RowsAreOfLastCall of
\* ReplicaAssignments (src/admin/NewPartitions.ts).
PartitionRowsAreOfLastCall == Replicas!RowsAreOfLastCall
=============================================================================

-------------------------- MODULE ClusterMetadata --------------------------
(***************************************************************************)
(* ClusterMetadata (src/network/ClusterMetadata.ts): what the client knows *)
(* of topics and brokers, replaced piece by piece by each metadata         *)
(* response, and the 'update' event that says which topics changed.  The   *)
(* listener of the event is part of the model: it reads again the topics   *)
(* it is told of and no others.                                            *)
(***************************************************************************)
EXTENDS Integers, Sequences, FiniteSets, Functions

CONSTANTS
    TopicNames,         \* names of topics
    Nodes,          \* ids of brokers
    Partitions,     \* the PartitionMetadata that responses may hold
    MaxPartitions,  \* bound on the partitions of one topic
    Absent,         \* the map has no entry, as the metadata of a topic
    NoEvent         \* nothing was emitted, as the topics of an 'update' event

\* No leader and no controller have the id -1 on the wire.
None == -1

PartitionMetadata ==
    [partitionIndex : Nat, leaderId : Nodes \cup {None}, leaderEpoch : Int,
     replicaNodes : Seq(Nodes), isrNodes : Seq(Nodes), offlineReplicas : Seq(Nodes)]

ASSUME MetadataAssumption ==
    /\ Nodes \subseteq Nat
    /\ \A p \in Partitions : p \in PartitionMetadata
    /\ MaxPartitions \in Nat

VARIABLES
    topics,                 \* the partitions of each topic
    brokers,                \* ids of the brokers, in the order of the map
    controllerId,
    isMetadataInitialized,
    update,                 \* the 'update' event of the last call
    mirror,                 \* what the listener has read
    heard                   \* the listener was called

metadataVars == <<topics, brokers, controllerId, isMetadataInitialized, update, mirror, heard>>

\* The partitions of a topic: at least one, and an index occurs once.
PartitionLists ==
    {s \in UNION {[1 .. n -> Partitions] : n \in 1 .. MaxPartitions} :
        \A i, j \in DOMAIN s : s[i].partitionIndex = s[j].partitionIndex => i = j}

ASSUME AbsentAssumption == Absent # <<>> /\ \A s \in PartitionLists : s # Absent

BrokerLists ==
    {s \in UNION {[1 .. n -> Nodes] : n \in 1 .. Cardinality(Nodes)} : IsInjective(s)}

\* A topic in a response: its partitions, or an error.
Failed == [errorCode |-> 1, partitions |-> <<>>]
TopicMetadata == {[errorCode |-> 0, partitions |-> s] : s \in PartitionLists} \cup {Failed}

\* A response: what the broker that answers knows.  The nodes it names as
\* leaders and as the controller are among its brokers.
Responses ==
    {r \in [brokers : BrokerLists, controllerId : Nodes \cup {None},
            topics : UNION {[S -> TopicMetadata] : S \in SUBSET TopicNames}] :
        /\ r.controllerId \in Range(r.brokers) \cup {None}
        /\ \A t \in DOMAIN r.topics : \A p \in Range(r.topics[t].partitions) :
               p.leaderId \in Range(r.brokers) \cup {None}}

-----------------------------------------------------------------------------
\* How often each element occurs in an array: what is left of it when it is
\* sorted.
Occurrences(a) == [x \in Range(a) |-> Cardinality({i \in DOMAIN a : a[i] = x})]

\* What a reader can learn of a topic: for each partition its metadata, with
\* the order of the nodes in the arrays left out.  Of a topic without an entry
\* there is nothing to learn.
Indexes(s) == {p.partitionIndex : p \in Range(s)}

Partition(s, i) == CHOOSE p \in Range(s) : p.partitionIndex = i

View(s) ==
    IF s = Absent THEN <<>>
    ELSE [i \in Indexes(s) |->
             LET p == Partition(s, i)
             IN  [leaderId |-> p.leaderId, leaderEpoch |-> p.leaderEpoch,
                  replicaNodes |-> Occurrences(p.replicaNodes),
                  isrNodes |-> Occurrences(p.isrNodes),
                  offlineReplicas |-> Occurrences(p.offlineReplicas)]]

MetadataTypeOK ==
    /\ topics \in [TopicNames -> PartitionLists \cup {<<>>, Absent}]
    /\ brokers \in BrokerLists \cup {<<>>}
    /\ controllerId \in Nodes \cup {None}
    /\ isMetadataInitialized \in BOOLEAN
    /\ update \in (SUBSET TopicNames) \cup {NoEvent}
    /\ mirror \in [TopicNames -> {View(s) : s \in PartitionLists \cup {<<>>, Absent}}]
    /\ heard \in BOOLEAN

MetadataInit ==
    /\ topics = [t \in TopicNames |-> Absent]
    /\ brokers = <<>>
    /\ controllerId = None
    /\ isMetadataInitialized = FALSE
    /\ update = NoEvent
    /\ mirror = [t \in TopicNames |-> <<>>]
    /\ heard = FALSE

-----------------------------------------------------------------------------
\* The leader, or None where the code throws: topic or partition not known,
\* or no leader.
findLeader(t, i) ==
    IF topics[t] = Absent THEN None
    ELSE IF i \notin Indexes(topics[t]) THEN None
    ELSE Partition(topics[t], i).leaderId

\* The node that answers for groups, or None where the code throws.
findCoordinatorNode ==
    IF controllerId >= 0 THEN controllerId
    ELSE IF brokers # <<>> THEN brokers[1]
    ELSE None

\* Mutants (names in Mut...) are plausible wrong versions of the definition
\* that follows.
MutArrayAsSequence(a, b) == a # b

\* Both are sorted before they are compared.
hasArrayChanged(a, b) == Occurrences(a) # Occurrences(b)

SamePartition(e, u) ==
    /\ e.leaderId = u.leaderId
    /\ e.leaderEpoch = u.leaderEpoch
    /\ ~hasArrayChanged(e.replicaNodes, u.replicaNodes)
    /\ ~hasArrayChanged(e.isrNodes, u.isrNodes)
    /\ ~hasArrayChanged(e.offlineReplicas, u.offlineReplicas)

\* Some partition of the response has no equal under its index.
SomePartitionDiffers(existing, updated) ==
    \E u \in Range(updated) :
        ~\E e \in Range(existing) :
            e.partitionIndex = u.partitionIndex /\ SamePartition(e, u)

MutByPosition(existing, updated) ==
    \/ Len(existing) # Len(updated)
    \/ \E k \in DOMAIN updated :
           ~(/\ existing[k].partitionIndex = updated[k].partitionIndex
             /\ SamePartition(existing[k], updated[k]))

MutNoLengthCheck(existing, updated) == SomePartitionDiffers(existing, updated)

\* Of two known topics.  updateMetadata compares the lengths once more.
hasPartitionChanges(existing, updated) ==
    \/ Len(existing) # Len(updated)
    \/ SomePartitionDiffers(existing, updated)

TopicChanged(t, s) ==
    topics[t] = Absent \/ hasPartitionChanges(topics[t], s)

MutBrokersPushed(r) ==
    /\ brokers' = brokers \o r.brokers
    /\ controllerId' = r.controllerId

MutFirstBrokersKept(r) ==
    /\ brokers' = IF brokers = <<>> THEN r.brokers ELSE brokers
    /\ controllerId' = r.controllerId

\* Brokers and controller are replaced whatever the topics say.
UpdateCluster(r) ==
    /\ brokers' = r.brokers
    /\ controllerId' = r.controllerId

\* The 'update' event, and its listener.
EmitUpdate(updatedTopics) ==
    IF updatedTopics # {} \/ ~isMetadataInitialized
    THEN /\ update' = updatedTopics
         /\ mirror' = [t \in TopicNames |-> IF t \in updatedTopics THEN View(topics'[t]) ELSE mirror[t]]
         /\ heard' = TRUE
    ELSE /\ update' = NoEvent
         /\ UNCHANGED <<mirror, heard>>

\* The topics the response has metadata of.
Listed(r) == {t \in DOMAIN r.topics : r.topics[t].errorCode = 0}

updateMetadata(r) ==
    /\ UpdateCluster(r)
    /\ topics' = [t \in TopicNames |-> IF t \in Listed(r) THEN r.topics[t].partitions ELSE topics[t]]
    /\ isMetadataInitialized' = TRUE
    /\ EmitUpdate({t \in Listed(r) : TopicChanged(t, r.topics[t].partitions)})

MetadataNext == \E r \in Responses : updateMetadata(r)

MetadataSpec == MetadataInit /\ [][MetadataNext]_metadataVars

-----------------------------------------------------------------------------
\* Who reads again the topics the event names, and only those, has what the
\* object has: no change goes unannounced, not a partition that went away,
\* not one that took the place of another.  And the first response calls the
\* listener even if it has no topics.
UpdateListenerInStep ==
    /\ \A t \in TopicNames : mirror[t] = View(topics[t])
    /\ heard = isMetadataInitialized

\* What is announced is a change: the listener never reads what it has.
\* Partitions or nodes that come in another order are no change.
AnnouncedIsChange ==
    [][update' # NoEvent => \A t \in update' : mirror'[t] # mirror[t]]_metadataVars

\* A topic that cannot be described just now keeps the partitions it had: no
\* error takes its leaders away.
KnownHasPartitions == \A t \in TopicNames : topics[t] # <<>>

\* The node that is asked about groups is a broker of the newest response.
CoordinatorIsKnown ==
    isMetadataInitialized => findCoordinatorNode \in Range(brokers)

\* A leader that a response brings is a broker of the same response, so that
\* NetworkClient finds or creates the connection to it.
NewLeaderIsKnown ==
    [][\A t \in TopicNames : topics'[t] # topics[t] =>
           \A i \in Indexes(topics'[t]) :
               findLeader(t, i)' \in Range(brokers') \cup {None}]_metadataVars
=============================================================================

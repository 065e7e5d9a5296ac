----------------------- MODULE ClusterMetadataProofs -----------------------
(***************************************************************************)
(* A listener of 'update' that reads again only what it is told of is      *)
(* never behind, for every set of topics, brokers and partition metadata.  *)
(* What makes it true is that equal lengths and an equal partition for     *)
(* each one of the response leave no room for one that went away.          *)
(***************************************************************************)
EXTENDS ClusterMetadata, FiniteSetTheorems, TLAPS

\* The invariant: of the variables that decide what is announced, the type.
ListenerInv ==
    /\ topics \in [TopicNames -> PartitionLists \cup {Absent}]
    /\ mirror \in [TopicNames -> {View(s) : s \in PartitionLists \cup {Absent}}]
    /\ isMetadataInitialized \in BOOLEAN
    /\ UpdateListenerInStep

\* A list of partitions is a sequence with an index of its own for each place.
LEMMA ListFacts ==
    ASSUME NEW s \in PartitionLists
    PROVE  /\ Len(s) \in Nat /\ Len(s) > 0 /\ DOMAIN s = 1 .. Len(s)
           /\ \A k \in DOMAIN s : s[k] \in Partitions
           /\ \A j, k \in DOMAIN s : s[j].partitionIndex = s[k].partitionIndex => j = k
<1>1. PICK n \in 1 .. MaxPartitions : s \in [1 .. n -> Partitions]
  BY DEF PartitionLists
<1>2. n \in Nat /\ n > 0
  BY <1>1, MetadataAssumption
<1>3. s \in Seq(Partitions) /\ Len(s) = n
  BY <1>1, <1>2
<1> QED BY <1>1, <1>2, <1>3 DEF PartitionLists

\* A topic has as many indexes as partitions.
LEMMA IndexCount ==
    ASSUME NEW s \in PartitionLists
    PROVE  IsFiniteSet(Indexes(s)) /\ Cardinality(Indexes(s)) = Len(s)
<1> DEFINE f == [k \in 1 .. Len(s) |-> s[k].partitionIndex]
<1>1. /\ Len(s) \in Nat /\ DOMAIN s = 1 .. Len(s)
      /\ \A j, k \in DOMAIN s : s[j].partitionIndex = s[k].partitionIndex => j = k
  BY ListFacts
<1>2. Indexes(s) = {s[k].partitionIndex : k \in 1 .. Len(s)}
  BY <1>1 DEF Indexes, Range
<1>3. f \in [1 .. Len(s) -> Indexes(s)]
  BY <1>2
<1>4. \A i \in Indexes(s) : \E k \in 1 .. Len(s) : f[k] = i
  BY <1>2
<1>5. \A j, k \in 1 .. Len(s) : f[j] = f[k] => j = k
  BY <1>1
<1>6. f \in Injection(1 .. Len(s), Indexes(s)) /\ f \in Surjection(1 .. Len(s), Indexes(s))
  BY <1>3, <1>4, <1>5 DEF Injection, IsInjective, Surjection
<1>7. ExistsBijection(1 .. Len(s), Indexes(s))
  BY <1>6 DEF ExistsBijection, Bijection
<1> QED BY <1>1, <1>7, FS_CountingElements, FS_NatBijection

\* The partition under an index is the only one.
LEMMA PartitionIsUnique ==
    ASSUME NEW s \in PartitionLists, NEW p \in Range(s)
    PROVE  Partition(s, p.partitionIndex) = p
<1>1. \A q \in Range(s) : q.partitionIndex = p.partitionIndex => q = p
  BY ListFacts DEF Range
<1> QED BY <1>1 DEF Partition

\* Where hasPartitionChanges finds nothing there is nothing to learn.
LEMMA NoChangeSameView ==
    ASSUME NEW e \in PartitionLists, NEW u \in PartitionLists, ~hasPartitionChanges(e, u)
    PROVE  View(e) = View(u)
<1>1. /\ Len(e) = Len(u)
      /\ \A q \in Range(u) : \E p \in Range(e) :
             p.partitionIndex = q.partitionIndex /\ SamePartition(p, q)
  BY DEF hasPartitionChanges, SomePartitionDiffers
<1>2. Indexes(u) = Indexes(e)
  <2>1. Indexes(u) \in SUBSET Indexes(e)
    BY <1>1 DEF Indexes
  <2>2. /\ IsFiniteSet(Indexes(e))
        /\ Cardinality(Indexes(e)) = Cardinality(Indexes(u))
    BY <1>1, IndexCount
  <2> QED BY <2>1, <2>2, FS_Subset
<1> DEFINE Seen(p) ==
    [leaderId |-> p.leaderId, leaderEpoch |-> p.leaderEpoch,
     replicaNodes |-> Occurrences(p.replicaNodes),
     isrNodes |-> Occurrences(p.isrNodes),
     offlineReplicas |-> Occurrences(p.offlineReplicas)]
<1>3. ASSUME NEW i \in Indexes(u)
      PROVE  Seen(Partition(e, i)) = Seen(Partition(u, i))
  <2>1. PICK q \in Range(u) : q.partitionIndex = i
    BY DEF Indexes
  <2>2. PICK p \in Range(e) : p.partitionIndex = q.partitionIndex /\ SamePartition(p, q)
    BY <1>1
  <2>3. Partition(u, i) = q /\ Partition(e, i) = p
    BY <2>1, <2>2, PartitionIsUnique
  <2>4. /\ p.leaderId = q.leaderId /\ p.leaderEpoch = q.leaderEpoch
        /\ Occurrences(p.replicaNodes) = Occurrences(q.replicaNodes)
        /\ Occurrences(p.isrNodes) = Occurrences(q.isrNodes)
        /\ Occurrences(p.offlineReplicas) = Occurrences(q.offlineReplicas)
    BY <2>2 DEF SamePartition, hasArrayChanged
  <2> QED BY <2>3, <2>4
<1>4. View(e) = [i \in Indexes(e) |-> Seen(Partition(e, i))]
  BY AbsentAssumption DEF View
<1>5. View(u) = [i \in Indexes(u) |-> Seen(Partition(u, i))]
  BY AbsentAssumption DEF View
<1> HIDE DEF Seen
<1> QED BY <1>2, <1>3, <1>4, <1>5

\* And where there is nothing to learn it finds nothing: the order of
\* partitions, or of nodes, is no change.
LEMMA SameViewNoChange ==
    ASSUME NEW e \in PartitionLists, NEW u \in PartitionLists, View(e) = View(u)
    PROVE  ~hasPartitionChanges(e, u)
<1> DEFINE Seen(p) ==
    [leaderId |-> p.leaderId, leaderEpoch |-> p.leaderEpoch,
     replicaNodes |-> Occurrences(p.replicaNodes),
     isrNodes |-> Occurrences(p.isrNodes),
     offlineReplicas |-> Occurrences(p.offlineReplicas)]
<1>1. View(e) = [i \in Indexes(e) |-> Seen(Partition(e, i))]
  BY AbsentAssumption DEF View
<1>2. View(u) = [i \in Indexes(u) |-> Seen(Partition(u, i))]
  BY AbsentAssumption DEF View
<1>3. Indexes(e) = Indexes(u)
  <2> HIDE DEF Seen
  <2>1. DOMAIN View(e) = Indexes(e) /\ DOMAIN View(u) = Indexes(u)
    BY <1>1, <1>2
  <2> QED BY <2>1
<1>4. Len(e) = Len(u)
  BY <1>3, IndexCount
<1>5. ASSUME NEW q \in Range(u)
      PROVE  \E p \in Range(e) : p.partitionIndex = q.partitionIndex /\ SamePartition(p, q)
  <2>1. q.partitionIndex \in Indexes(e)
    BY <1>3 DEF Indexes
  <2>2. PICK p \in Range(e) : p.partitionIndex = q.partitionIndex
    BY <2>1 DEF Indexes
  <2>3. Partition(e, q.partitionIndex) = p /\ Partition(u, q.partitionIndex) = q
    BY <2>2, PartitionIsUnique
  <2>4. Seen(p) = Seen(q)
    <3> HIDE DEF Seen
    <3> QED BY <1>1, <1>2, <1>3, <2>1, <2>3
  <2>5. SamePartition(p, q)
    BY <2>4 DEF SamePartition, hasArrayChanged
  <2> QED BY <2>2, <2>5
<1> QED BY <1>4, <1>5 DEF hasPartitionChanges, SomePartitionDiffers

\* Of a topic with partitions there is something to learn.
LEMMA ViewOfPartitions ==
    ASSUME NEW s \in PartitionLists
    PROVE  View(s) # View(Absent)
<1>1. DOMAIN View(s) = Indexes(s)
  BY AbsentAssumption DEF View
<1>2. Indexes(s) # {}
  <2>1. 1 \in DOMAIN s
    BY ListFacts
  <2> QED BY <2>1 DEF Indexes, Range
<1>3. View(Absent) = <<>>
  BY DEF View
<1> QED BY <1>1, <1>2, <1>3

\* What a response has of a topic without an error is a list of partitions.
LEMMA ListedHasPartitions ==
    ASSUME NEW r \in Responses
    PROVE  \A t \in Listed(r) : t \in TopicNames /\ r.topics[t].partitions \in PartitionLists
<1> SUFFICES ASSUME NEW t \in Listed(r)
             PROVE  t \in TopicNames /\ r.topics[t].partitions \in PartitionLists
  OBVIOUS
<1>1. r.topics \in UNION {[S -> TopicMetadata] : S \in SUBSET TopicNames}
  BY DEF Responses
<1>2. t \in DOMAIN r.topics /\ r.topics[t].errorCode = 0
  BY DEF Listed
<1>3. t \in TopicNames /\ r.topics[t] \in TopicMetadata
  BY <1>1, <1>2
<1> QED BY <1>2, <1>3 DEF TopicMetadata, Failed

\* A response.
LEMMA ListenerStep ==
    ASSUME ListenerInv, NEW r \in Responses, updateMetadata(r)
    PROVE  ListenerInv'
<1> DEFINE S(t) == r.topics[t].partitions
           U == {t \in Listed(r) : TopicChanged(t, S(t))}
<1>1. /\ topics' = [t \in TopicNames |-> IF t \in Listed(r) THEN S(t) ELSE topics[t]]
      /\ isMetadataInitialized' = TRUE
      /\ EmitUpdate(U)
  BY DEF updateMetadata
<1>2. \A t \in Listed(r) : t \in TopicNames /\ S(t) \in PartitionLists
  BY ListedHasPartitions
<1> HIDE DEF S
<1>3. topics' \in [TopicNames -> PartitionLists \cup {Absent}]
  BY <1>1, <1>2 DEF ListenerInv
<1>4. ASSUME NEW t \in TopicNames, t \notin U
      PROVE  View(topics'[t]) = View(topics[t])
  <2>1. CASE t \notin Listed(r)
    BY <1>1, <2>1
  <2>2. CASE t \in Listed(r)
    <3>1. topics'[t] = S(t) /\ topics[t] # Absent /\ ~hasPartitionChanges(topics[t], S(t))
      BY <1>1, <1>4, <2>2 DEF TopicChanged
    <3>2. topics[t] \in PartitionLists
      BY <3>1 DEF ListenerInv
    <3> QED BY <1>2, <2>2, <3>1, <3>2, NoChangeSameView
  <2> QED BY <2>1, <2>2
<1>5. \A t \in TopicNames : mirror[t] = View(topics[t])
  BY DEF ListenerInv, UpdateListenerInStep
<1>6. mirror' \in [TopicNames -> {View(s) : s \in PartitionLists \cup {Absent}}]
  BY <1>1, <1>3 DEF EmitUpdate, ListenerInv
<1>7. \A t \in TopicNames : mirror'[t] = View(topics'[t])
  <2>1. CASE U # {} \/ ~isMetadataInitialized
    BY <1>1, <1>4, <1>5, <2>1 DEF EmitUpdate
  <2>2. CASE ~(U # {} \/ ~isMetadataInitialized)
    <3>1. mirror' = mirror /\ U = {}
      BY <1>1, <2>2 DEF EmitUpdate
    <3> QED BY <1>4, <1>5, <3>1
  <2> QED BY <2>1, <2>2
<1>8. heard' = TRUE
  <2>1. CASE ~isMetadataInitialized
    BY <1>1, <2>1 DEF EmitUpdate
  <2>2. CASE isMetadataInitialized
    BY <1>1, <2>2 DEF EmitUpdate, ListenerInv, UpdateListenerInStep
  <2> QED BY <2>1, <2>2
<1> QED BY <1>1, <1>3, <1>6, <1>7, <1>8 DEF ListenerInv, UpdateListenerInStep

\* The invariant of what the newest response decides.
ClusterInv ==
    /\ brokers \in BrokerLists \cup {<<>>}
    /\ controllerId \in Nodes \cup {None}
    /\ update \in (SUBSET TopicNames) \cup {NoEvent}
    /\ heard \in BOOLEAN
    /\ CoordinatorIsKnown

\* A response names its own brokers.
LEMMA ResponseFacts ==
    ASSUME NEW r \in Responses
    PROVE  /\ r.brokers \in BrokerLists /\ r.controllerId \in Nodes \cup {None}
           /\ r.controllerId \in Range(r.brokers) \cup {None}
           /\ r.brokers # <<>> /\ r.brokers[1] \in Range(r.brokers)
<1>1. /\ r.brokers \in BrokerLists /\ r.controllerId \in Nodes \cup {None}
      /\ r.controllerId \in Range(r.brokers) \cup {None}
  BY DEF Responses
<1>2. PICK n \in 1 .. Cardinality(Nodes) : r.brokers \in [1 .. n -> Nodes]
  BY <1>1 DEF BrokerLists
<1>3. 1 \in DOMAIN r.brokers
  BY <1>2
<1> QED BY <1>1, <1>3 DEF Range

\* A response replaces brokers and controller together.
LEMMA ClusterStep ==
    ASSUME ClusterInv, NEW r \in Responses, updateMetadata(r)
    PROVE  ClusterInv'
<1>1. brokers' = r.brokers /\ controllerId' = r.controllerId
  BY DEF updateMetadata, UpdateCluster
<1>2. update' \in (SUBSET TopicNames) \cup {NoEvent} /\ heard' \in BOOLEAN
  <2>1. {t \in Listed(r) : TopicChanged(t, r.topics[t].partitions)} \in SUBSET TopicNames
    BY ListedHasPartitions
  <2> QED BY <2>1 DEF updateMetadata, EmitUpdate, ClusterInv
<1>3. CoordinatorIsKnown'
  <2>1. CASE r.controllerId = None
    <3>1. findCoordinatorNode' = r.brokers[1]
      BY <1>1, <2>1, ResponseFacts DEF findCoordinatorNode, None
    <3> QED BY <1>1, <3>1, ResponseFacts DEF CoordinatorIsKnown
  <2>2. CASE r.controllerId # None
    <3>1. r.controllerId \in Nat
      BY <2>2, ResponseFacts, MetadataAssumption
    <3>2. findCoordinatorNode' = r.controllerId
      BY <1>1, <3>1 DEF findCoordinatorNode
    <3> QED BY <1>1, <2>2, <3>2, ResponseFacts DEF CoordinatorIsKnown
  <2> QED BY <2>1, <2>2
<1> QED BY <1>1, <1>2, <1>3, ResponseFacts DEF ClusterInv

\* Both invariants hold throughout.
LEMMA Invariants == MetadataSpec => [](ListenerInv /\ ClusterInv)
<1>1. MetadataInit => ListenerInv /\ ClusterInv
  BY DEF MetadataInit, ListenerInv, UpdateListenerInStep, View, ClusterInv, CoordinatorIsKnown
<1>2. ListenerInv /\ ClusterInv /\ [MetadataNext]_metadataVars => (ListenerInv /\ ClusterInv)'
  <2> SUFFICES ASSUME ListenerInv, ClusterInv, [MetadataNext]_metadataVars
               PROVE  ListenerInv' /\ ClusterInv'
    OBVIOUS
  <2>1. CASE UNCHANGED metadataVars
    BY <2>1 DEF metadataVars, ListenerInv, UpdateListenerInStep, ClusterInv, CoordinatorIsKnown,
                findCoordinatorNode
  <2> QED BY <2>1, ListenerStep, ClusterStep DEF MetadataNext
<1> QED BY <1>1, <1>2, PTL DEF MetadataSpec

\* Whoever reads again only what 'update' names has what the object has.
THEOREM ListenerCorrect == MetadataSpec => []UpdateListenerInStep
<1>1. ListenerInv => UpdateListenerInStep
  BY DEF ListenerInv
<1> QED BY <1>1, Invariants, PTL

\* A topic that is known has partitions, whatever fails later; the node asked
\* about groups is a broker of the newest response; the state has its type.
THEOREM ClusterCorrect == MetadataSpec => [](KnownHasPartitions /\ CoordinatorIsKnown /\ MetadataTypeOK)
<1>1. ListenerInv => KnownHasPartitions
  <2>1. \A s \in PartitionLists : s # <<>>
    BY ListFacts
  <2> QED BY <2>1, AbsentAssumption DEF ListenerInv, KnownHasPartitions
<1>2. ListenerInv /\ ClusterInv => CoordinatorIsKnown /\ MetadataTypeOK
  BY DEF ListenerInv, ClusterInv, MetadataTypeOK
<1> QED BY <1>1, <1>2, Invariants, PTL

\* A leader that a response brings is a broker of that response.
THEOREM LeaderCorrect == MetadataSpec => NewLeaderIsKnown
<1> DEFINE New ==
    \A t \in TopicNames : topics'[t] # topics[t] =>
        \A i \in Indexes(topics'[t]) : findLeader(t, i)' \in Range(brokers') \cup {None}
<1>1. ASSUME ListenerInv, NEW r \in Responses, updateMetadata(r)
      PROVE  New
  <2> SUFFICES ASSUME NEW t \in TopicNames, topics'[t] # topics[t], NEW i \in Indexes(topics'[t])
               PROVE  findLeader(t, i)' \in Range(brokers') \cup {None}
    OBVIOUS
  <2>1. /\ t \in Listed(r) /\ topics'[t] = r.topics[t].partitions
        /\ brokers' = r.brokers
    BY <1>1 DEF updateMetadata, UpdateCluster
  <2>2. topics'[t] \in PartitionLists
    BY <2>1, ListedHasPartitions
  <2>3. PICK p \in Range(topics'[t]) : p.partitionIndex = i
    BY DEF Indexes
  <2>4. Partition(topics'[t], i) = p
    BY <2>2, <2>3, PartitionIsUnique
  <2>5. findLeader(t, i)' = p.leaderId
    BY <2>2, <2>4, AbsentAssumption DEF findLeader
  <2>6. p.leaderId \in Range(r.brokers) \cup {None}
    BY <2>1, <2>3 DEF Responses, Listed
  <2> QED BY <2>1, <2>5, <2>6
<1>2. ListenerInv /\ [MetadataNext]_metadataVars => [New]_metadataVars
  BY <1>1 DEF MetadataNext
<1> QED BY <1>2, Invariants, PTL DEF MetadataSpec, NewLeaderIsKnown

\* What is announced is a change: the listener never reads again what it has.
THEOREM AnnouncedCorrect == MetadataSpec => AnnouncedIsChange
<1> DEFINE Changes == update' # NoEvent => \A t \in update' : mirror'[t] # mirror[t]
<1>1. ASSUME ListenerInv, NEW r \in Responses, updateMetadata(r)
      PROVE  Changes
  <2> DEFINE S(t) == r.topics[t].partitions
             U == {t \in Listed(r) : TopicChanged(t, S(t))}
  <2> SUFFICES ASSUME update' # NoEvent, NEW t \in update'
               PROVE  mirror'[t] # mirror[t]
    OBVIOUS
  <2>1. update' = U /\ t \in TopicNames /\ mirror'[t] = View(topics'[t])
    BY <1>1, ListedHasPartitions DEF updateMetadata, EmitUpdate
  <2>2. topics'[t] = S(t) /\ S(t) \in PartitionLists
    BY <1>1, <2>1, ListedHasPartitions DEF updateMetadata
  <2>3. mirror[t] = View(topics[t])
    BY <1>1, <2>1 DEF ListenerInv, UpdateListenerInStep
  <2>4. CASE topics[t] = Absent
    BY <2>1, <2>2, <2>3, <2>4, ViewOfPartitions
  <2>5. CASE topics[t] # Absent
    <3>1. topics[t] \in PartitionLists
      BY <1>1, <2>1, <2>5 DEF ListenerInv
    <3>2. hasPartitionChanges(topics[t], S(t))
      BY <2>1, <2>5 DEF TopicChanged
    <3> QED BY <2>1, <2>2, <2>3, <3>1, <3>2, SameViewNoChange
  <2> QED BY <2>4, <2>5
<1>2. ListenerInv /\ [MetadataNext]_metadataVars => [Changes]_metadataVars
  BY <1>1 DEF MetadataNext
<1> QED BY <1>2, Invariants, PTL DEF MetadataSpec, AnnouncedIsChange
=============================================================================

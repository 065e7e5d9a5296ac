----------------------------- MODULE MCListeners -----------------------------
(***************************************************************************)
(* The two objects that tell a listener of what changes in them: the       *)
(* consumer and the metadata.  In this code neither uses the other, so a   *)
(* behaviour is one of its subject, and the other stays as it began.       *)
(***************************************************************************)
EXTENDS KafkaConsumer, ClusterMetadata, TLC

VARIABLE subject

consumerVars == vars

Metadata(i, leader, isr) ==
    [partitionIndex |-> i, leaderId |-> leader, leaderEpoch |-> 0,
     replicaNodes |-> <<1, 2>>, isrNodes |-> isr, offlineReplicas |-> <<>>]

\* One partition, the same with its in-sync nodes in another order, and with
\* another leader; and a second partition.
MCPartitions ==
    {Metadata(0, 1, <<1, 2>>), Metadata(0, 1, <<2, 1>>), Metadata(0, 2, <<1, 2>>),
     Metadata(1, None, <<1, 2>>)}

MCInit ==
    /\ subject \in {"consumer", "metadata"}
    /\ Init
    /\ MetadataInit

MCNext ==
    /\ UNCHANGED subject
    /\ IF subject = "consumer" THEN Next ELSE UNCHANGED consumerVars
    /\ IF subject = "metadata" THEN MetadataNext ELSE UNCHANGED metadataVars

MCSpec == MCInit /\ [][MCNext]_<<subject, consumerVars, metadataVars>>

Symmetry == Permutations(Topics) \cup Permutations(TopicNames)
=============================================================================

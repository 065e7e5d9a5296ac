------------------------- MODULE NetworkClientProofs -------------------------
(***************************************************************************)
(* Safety of NetworkClient, for any brokers, seeds, callers of connect()   *)
(* and requests.                                                           *)
(***************************************************************************)
EXTENDS NetworkClient, FiniteSetTheorems, SequenceTheorems, TLAPS

Refreshes == [by : Callers \cup {Nobody},
              pc : {"idle", "seed", "send", "sent", "update", "joining", "failed"},
              via : Brokers \cup {NoNode},
              todo : SUBSET Nodes, listed : SUBSET Nodes,
              joining : Nodes \cup {NoNode}]

RequestStates == {"idle", "call", "refresh", "recheck", "sent", "lost", "refreshLost",
                  "recheckLost", "resent", "failing", "refreshLeader", "resolved",
                  "rejected"}

ConnectorStates == {"idle", "try", "seed", "seedUp", "api", "refresh", "ready", "failed"}

SeedStates == {"down", "connecting", "up", "hollow", "bad", "stuck"}

CallersOK ==
    /\ rpc \in [Requests -> RequestStates]
    /\ cpc \in [Connectors -> ConnectorStates]
    /\ refresh \in Refreshes

SeedsOK ==
    /\ seed \in [Seeds -> SeedStates]
    /\ seedHeard \in SUBSET Seeds
    /\ older \in [Seeds -> {"none", "connected", "connecting"}]

FlagsOK ==
    /\ isClosed \in BOOLEAN /\ isInitialized \in BOOLEAN
    /\ isRefreshingMetadata \in BOOLEAN /\ metadataRefreshTimer \in BOOLEAN
    /\ metadataInit \in BOOLEAN /\ alive \in BOOLEAN

NodesOK ==
    /\ connections \in Seq(Nodes)
    /\ conn \in [Nodes -> {"none", "up", "dead"}]
    /\ leader \in Nodes \cup {NoNode}

CallsOK ==
    /\ at \in [Connectors -> 1 .. NumSeeds + 1]
    /\ target \in [Requests -> Nodes \cup {NoNode}]
    /\ try \in [Requests -> {1, 2}]
    /\ writes \in [Requests -> 0 .. 4]

LEMMA TypeParts ==
    /\ TypeOK <=> CallersOK /\ SeedsOK /\ FlagsOK /\ NodesOK /\ CallsOK
    /\ TypeOK' <=> CallersOK' /\ SeedsOK' /\ FlagsOK' /\ NodesOK' /\ CallsOK'
<1>1. TypeOK <=> CallersOK /\ SeedsOK /\ FlagsOK /\ NodesOK /\ CallsOK
  BY DEF TypeOK, CallersOK, SeedsOK, FlagsOK, NodesOK, CallsOK, RequestStates,
     ConnectorStates, SeedStates, Refreshes
<1>2. TypeOK' <=> CallersOK' /\ SeedsOK' /\ FlagsOK' /\ NodesOK' /\ CallsOK'
  BY DEF TypeOK, CallersOK, SeedsOK, FlagsOK, NodesOK, CallsOK, RequestStates,
     ConnectorStates, SeedStates, Refreshes
<1> QED BY <1>1, <1>2

\* A connect() that is at a seed is at one that exists.
AtInv == \A c \in Connectors : cpc[c] \in {"try", "seed", "seedUp", "api"} => at[c] \in Seeds

\* Two writes a try: those that a request may have made where it is.
Rank(state) ==
    IF state \in {"idle", "call", "refresh", "recheck", "refreshLeader"} THEN 0
    ELSE IF state \in {"sent", "lost", "refreshLost", "recheckLost"} THEN 1 ELSE 2

Written(r) == 2 * (try[r] - 1) + Rank(rpc[r])

WritesInv == \A r \in Requests : writes[r] <= Written(r)

\* The keys of the map are those with a connection, each once, and the broker
\* that a refresh connects has none yet.
MapInv ==
    /\ \A j, k \in 1 .. Len(connections) : connections[j] = connections[k] => j = k
    /\ InMap = {connections[k] : k \in 1 .. Len(connections)}
    /\ refresh.pc = "joining" => refresh.joining \in Nodes /\ conn[refresh.joining] = "none"

IndInv ==
    /\ TypeOK
    /\ AtInv
    /\ WritesInv
    /\ RefreshIsOwned
    /\ SentOnLiveConnection
    /\ MapInv
    /\ TimerSurvives

LEMMA WritesLeft ==
    ASSUME TypeOK, WritesInv, NEW r \in Requests
    PROVE  /\ rpc[r] \in {"idle", "call", "recheck"} => writes[r] + 1 \in 0 .. 4
           /\ rpc[r] = "recheckLost" => writes[r] + 1 \in 0 .. 4
<1>1. writes[r] \in 0 .. 4 /\ try[r] \in {1, 2}
  BY DEF TypeOK
<1>2. writes[r] <= Written(r)
  BY DEF WritesInv
<1>3. rpc[r] \in {"idle", "call", "recheck"} => Written(r) = 2 * (try[r] - 1) + 0
  BY DEF Written, Rank
<1>4. rpc[r] = "recheckLost" => Written(r) = 2 * (try[r] - 1) + 1
  BY DEF Written, Rank
<1>5. CASE try[r] = 1
  BY <1>1, <1>2, <1>3, <1>4, <1>5
<1>6. CASE try[r] = 2
  BY <1>1, <1>2, <1>3, <1>4, <1>6
<1> QED BY <1>1, <1>5, <1>6

\* A request that neither writes nor starts its second try goes forward.
LEMMA WritesKept ==
    ASSUME TypeOK, WritesInv, UNCHANGED <<writes, try>>,
           \A r \in Requests : Rank(rpc[r]) <= Rank(rpc'[r])
    PROVE  WritesInv'
<1> SUFFICES ASSUME NEW r \in Requests PROVE writes'[r] <= Written(r)'
  BY DEF WritesInv
<1> DEFINE t == 2 * (try[r] - 1)
<1>1. writes[r] <= t + Rank(rpc[r])
  BY DEF WritesInv, Written
<1>2. Written(r)' = t + Rank(rpc'[r])
  BY DEF Written
<1>3. Rank(rpc[r]) \in 0 .. 2 /\ Rank(rpc'[r]) \in 0 .. 2 /\ Rank(rpc[r]) <= Rank(rpc'[r])
  BY DEF Rank
<1>4. writes[r] \in 0 .. 4 /\ try[r] \in {1, 2} /\ writes'[r] = writes[r]
  BY DEF TypeOK
<1>5. t \in Int
  BY <1>4
<1> HIDE DEF t
<1> QED BY <1>1, <1>2, <1>3, <1>4, <1>5

-----------------------------------------------------------------------------
(* What the shared operators do.                                           *)

LEMMA LosingFacts ==
    ASSUME TypeOK, NEW B, NEW W, CallersLosing(B, W)
    PROVE  /\ CallersOK'
           /\ \A r \in Requests :
                  \/ rpc'[r] = rpc[r] /\ (rpc[r] \in {"sent", "resent"} => target[r] \notin B)
                  \/ rpc[r] = "sent" /\ rpc'[r] = "lost"
                  \/ rpc[r] = "resent" /\ rpc'[r] = "failing"
           /\ \A c \in Connectors :
                  \/ cpc'[c] = cpc[c] /\ (cpc[c] = "api" => at[c] \notin B)
                  \/ cpc[c] = "api" /\ cpc'[c] = "failed"
                  \/ cpc[c] = "seed" /\ cpc'[c] = "try"
           /\ refresh'.by = refresh.by
           /\ refresh'.via = refresh.via
           /\ refresh'.joining = refresh.joining
           /\ \/ refresh'.pc = refresh.pc /\ (refresh.pc = "sent" => refresh.via \notin B)
              \/ refresh.pc \in {"sent", "seed"} /\ refresh'.pc = "failed"
<1> USE DEF TypeOK, RequestStates, ConnectorStates, Refreshes
<1>1. /\ rpc' \in [Requests -> RequestStates]
      /\ \A r \in Requests :
             \/ rpc'[r] = rpc[r] /\ (rpc[r] \in {"sent", "resent"} => target[r] \notin B)
             \/ rpc[r] = "sent" /\ rpc'[r] = "lost"
             \/ rpc[r] = "resent" /\ rpc'[r] = "failing"
  BY DEF CallersLosing
<1>2. /\ cpc' \in [Connectors -> ConnectorStates]
      /\ \A c \in Connectors :
             \/ cpc'[c] = cpc[c] /\ (cpc[c] = "api" => at[c] \notin B)
             \/ cpc[c] = "api" /\ cpc'[c] = "failed"
             \/ cpc[c] = "seed" /\ cpc'[c] = "try"
  BY DEF CallersLosing
<1>3. /\ refresh' \in Refreshes
      /\ refresh'.by = refresh.by
      /\ refresh'.via = refresh.via
      /\ refresh'.joining = refresh.joining
      /\ \/ refresh'.pc = refresh.pc /\ (refresh.pc = "sent" => refresh.via \notin B)
         \/ refresh.pc \in {"sent", "seed"} /\ refresh'.pc = "failed"
  BY DEF CallersLosing
<1> QED BY <1>1, <1>2, <1>3 DEF CallersOK

\* A seed that connects is not lost.
LEMMA SeedConnectFacts ==
    ASSUME TypeOK, NEW i \in Seeds, SeedConnect(i)
    PROVE  /\ SeedsOK'
           /\ \A k \in Seeds : seed[k] = "up" => seed'[k] = "up"
  BY DEF TypeOK, SeedConnect, SeedStates, SeedsOK

LEMMA BeginFacts ==
    ASSUME TypeOK, NEW p \in Callers, NEW specific \in Seeds \cup {NoNode},
           BeginRefresh(p, specific)
    PROVE  /\ ~isRefreshingMetadata
           /\ isRefreshingMetadata' = TRUE
           /\ refresh' \in Refreshes
           /\ refresh'.by = p
           /\ refresh'.pc \in {"seed", "sent", "failed"}
           /\ refresh'.pc = "sent" => IsConnected(refresh'.via)
           /\ SeedsOK'
           /\ \A k \in Seeds : seed[k] = "up" => seed'[k] = "up"
<1> DEFINE via == BrokerFor(specific)
           fallback == specific = NoNode /\ connections = <<>> /\ ~isClosed
<1>1. 1 \in Seeds /\ NoNode \notin Seeds
  BY ClientAssumption DEF Seeds
<1>2. via \in Brokers \cup {NoNode} /\ (fallback => via = 1)
  BY <1>1 DEF BrokerFor, TypeOK, Brokers
<1>3. /\ SeedsOK'
      /\ \A k \in Seeds : seed[k] = "up" => seed'[k] = "up"
  <2>1. CASE fallback
    BY <1>1, <1>2, <2>1, SeedConnectFacts DEF BeginRefresh
  <2>2. CASE ~fallback
    BY <2>2 DEF BeginRefresh, seeds, TypeOK, SeedStates, SeedsOK
  <2> QED BY <2>1, <2>2
<1> DEFINE pc == IF fallback /\ seed[via] \in {"down", "connecting", "stuck"} THEN "seed"
                 ELSE IF IsConnected(via) THEN "sent" ELSE "failed"
<1>4. refresh' = [NoRefresh EXCEPT !.by = p, !.via = via, !.pc = pc]
  BY DEF BeginRefresh
<1>5. pc \in {"seed", "sent", "failed"} /\ (pc = "sent" => IsConnected(via))
  OBVIOUS
<1> HIDE DEF via, pc
<1>6. /\ refresh' \in Refreshes
      /\ refresh'.by = p /\ refresh'.via = via /\ refresh'.pc = pc
  BY <1>2, <1>4, <1>5 DEF NoRefresh, Refreshes
<1> QED BY <1>3, <1>5, <1>6 DEF BeginRefresh

\* The caller goes on, and no other.
LEMMA ResumeOkFacts ==
    ASSUME TypeOK, RefreshIsOwned, refresh.by # Nobody, ResumeOk(refresh.by)
    PROVE  /\ rpc' \in [Requests -> RequestStates]
           /\ cpc' \in [Connectors -> ConnectorStates]
           /\ \A r \in Requests :
                  \/ r # refresh.by /\ rpc'[r] = rpc[r]
                  \/ r = refresh.by /\ rpc[r] = "refresh" /\ rpc'[r] = "recheck"
                  \/ r = refresh.by /\ rpc[r] = "refreshLost" /\ rpc'[r] = "recheckLost"
                  \/ r = refresh.by /\ rpc[r] = "refreshLeader" /\ rpc'[r] = "call"
           /\ \A c \in Connectors :
                  \/ c # refresh.by /\ cpc'[c] = cpc[c]
                  \/ c = refresh.by /\ cpc[c] = "refresh" /\ cpc'[c] = "ready"
           /\ isInitialized' \in BOOLEAN /\ metadataRefreshTimer' \in BOOLEAN
           /\ \/ metadataRefreshTimer' = AutoRefresh
              \/ UNCHANGED <<isInitialized, metadataRefreshTimer>> /\ refresh.by # Timer
<1>1. refresh.by \in Callers
  BY DEF TypeOK
<1>2. CASE refresh.by \in Connectors
  <2>1. cpc[refresh.by] = "refresh"
    BY <1>2, ClientAssumption DEF RefreshIsOwned, WaitingForRefresh
  <2>2. Ready(refresh.by) /\ UNCHANGED rpc
    BY <1>2, ClientAssumption DEF ResumeOk
  <2> QED BY <1>2, <2>1, <2>2, ClientAssumption
          DEF Ready, startMetadataRefreshTimer, TypeOK, RequestStates, ConnectorStates
<1>3. CASE refresh.by \in Requests
  <2>1. rpc[refresh.by] \in {"refresh", "refreshLost", "refreshLeader"}
    BY <1>3, ClientAssumption DEF RefreshIsOwned, WaitingForRefresh
  <2>2. /\ RequestAfterRefresh(refresh.by)
        /\ UNCHANGED <<cpc, isInitialized, metadataRefreshTimer>>
    BY <1>3, ClientAssumption DEF ResumeOk
  <2> QED BY <1>3, <2>1, <2>2, ClientAssumption
          DEF RequestAfterRefresh, TypeOK, RequestStates, ConnectorStates
<1>4. CASE refresh.by = Timer
  BY <1>4, ClientAssumption
     DEF ResumeOk, startMetadataRefreshTimer, TypeOK, RequestStates, ConnectorStates
<1> QED BY <1>1, <1>2, <1>3, <1>4 DEF Callers

LEMMA ResumeFailedFacts ==
    ASSUME TypeOK, RefreshIsOwned, refresh.by # Nobody, ResumeFailed(refresh.by)
    PROVE  /\ rpc' \in [Requests -> RequestStates]
           /\ cpc' \in [Connectors -> ConnectorStates]
           /\ \A r \in Requests :
                  \/ r # refresh.by /\ rpc'[r] = rpc[r]
                  \/ r = refresh.by /\ rpc[r] = "refreshLeader" /\ rpc'[r] = "rejected"
                  \/ r = refresh.by /\ rpc[r] \in {"refresh", "refreshLost"}
                     /\ rpc'[r] = "failing"
           /\ \A c \in Connectors :
                  \/ c # refresh.by /\ cpc'[c] = cpc[c]
                  \/ c = refresh.by /\ cpc[c] = "refresh" /\ cpc'[c] = "failed"
           /\ metadataRefreshTimer' \in BOOLEAN
           /\ \/ metadataRefreshTimer' = AutoRefresh
              \/ UNCHANGED metadataRefreshTimer /\ refresh.by # Timer
<1>1. refresh.by \in Callers
  BY DEF TypeOK
<1>2. CASE refresh.by \in Connectors
  <2>1. cpc[refresh.by] = "refresh"
    BY <1>2, ClientAssumption DEF RefreshIsOwned, WaitingForRefresh
  <2> QED BY <1>2, <2>1, ClientAssumption
          DEF ResumeFailed, TypeOK, RequestStates, ConnectorStates
<1>3. CASE refresh.by \in Requests
  <2>1. rpc[refresh.by] \in {"refresh", "refreshLost", "refreshLeader"}
    BY <1>3, ClientAssumption DEF RefreshIsOwned, WaitingForRefresh
  <2>2. /\ rpc' = [rpc EXCEPT ![refresh.by] =
                       IF rpc[refresh.by] = "refreshLeader" THEN "rejected" ELSE "failing"]
        /\ UNCHANGED <<cpc, metadataRefreshTimer>>
    BY <1>3, ClientAssumption DEF ResumeFailed
  <2> QED BY <1>3, <2>1, <2>2, ClientAssumption DEF TypeOK, RequestStates, ConnectorStates
<1>4. CASE refresh.by = Timer
  BY <1>4, ClientAssumption
     DEF ResumeFailed, startMetadataRefreshTimer, TypeOK, RequestStates, ConnectorStates
<1> QED BY <1>1, <1>2, <1>3, <1>4 DEF Callers

\* await refreshMetadata(), by a request.
LEMMA ThenFacts ==
    ASSUME TypeOK, NEW r \in Requests, NEW waiting \in RequestStates,
           NEW after \in RequestStates, RefreshThen(r, waiting, after)
    PROVE  /\ rpc' \in [Requests -> RequestStates] /\ refresh' \in Refreshes
           /\ SeedsOK' /\ isRefreshingMetadata' = TRUE
           /\ \A k \in Seeds : seed[k] = "up" => seed'[k] = "up"
           /\ \/ /\ isRefreshingMetadata /\ refresh' = refresh
                 /\ rpc' = [rpc EXCEPT ![r] = after]
              \/ /\ ~isRefreshingMetadata
                 /\ refresh'.by = r
                 /\ refresh'.pc \in {"seed", "sent", "failed"}
                 /\ refresh'.pc = "sent" => IsConnected(refresh'.via)
                 /\ rpc' = [rpc EXCEPT ![r] = waiting]
<1>1. CASE isRefreshingMetadata
  <2>1. rpc' = [rpc EXCEPT ![r] = after] /\ UNCHANGED <<isRefreshingMetadata, refresh, seeds>>
    BY <1>1 DEF RefreshThen
  <2> QED BY <1>1, <2>1
          DEF seeds, TypeOK, SeedsOK, SeedStates, RequestStates, Refreshes
<1>2. CASE ~isRefreshingMetadata
  <2>1. rpc' = [rpc EXCEPT ![r] = waiting] /\ BeginRefresh(r, NoNode)
    BY <1>2 DEF RefreshThen
  <2>2. rpc' \in [Requests -> RequestStates]
    BY <2>1 DEF TypeOK, RequestStates
  <2> QED BY <1>2, <2>1, <2>2, BeginFacts DEF Callers
<1> QED BY <1>1, <1>2

\* The sockets that were let go.
LEMMA LetGoFacts ==
    ASSUME TypeOK, NEW i \in Seeds
    PROVE  OlderOnceLetGo(i) \in {"none", "connected", "connecting"}
  BY DEF TypeOK, OlderOnceLetGo

\* The seeds are as they were.
LEMMA SeedsKept ==
    ASSUME TypeOK, UNCHANGED seeds
    PROVE  SeedsOK'
  BY DEF TypeOK, SeedsOK, SeedStates, seeds

\* connect() at a seed, or behind the last one.
LEMMA TryFacts ==
    ASSUME TypeOK, NEW c \in Connectors, NEW i \in 1 .. NumSeeds + 1, TrySeed(c, i)
    PROVE  /\ cpc' \in [Connectors -> ConnectorStates]
           /\ at' = [at EXCEPT ![c] = i]
           /\ SeedsOK'
           /\ \A k \in Seeds : seed[k] = "up" => seed'[k] = "up"
           /\ \/ cpc' = [cpc EXCEPT ![c] = "failed"]
              \/ i \in Seeds /\ \E s \in {"seedUp", "seed", "try"} : cpc' = [cpc EXCEPT ![c] = s]
<1>0. NumSeeds \in Nat
  BY ClientAssumption
<1>1. CASE i > NumSeeds
  <2>1. cpc' = [cpc EXCEPT ![c] = "failed"] /\ at' = [at EXCEPT ![c] = i] /\ UNCHANGED seeds
    BY <1>1 DEF TrySeed
  <2>2. cpc' \in [Connectors -> ConnectorStates]
    BY <2>1 DEF TypeOK, ConnectorStates
  <2> QED BY <2>1, <2>2, SeedsKept DEF seeds
<1>2. CASE ~(i > NumSeeds)
  <2>1. i \in Seeds
    BY <1>0, <1>2 DEF Seeds
  <2>2. SeedConnect(i) /\ at' = [at EXCEPT ![c] = i]
    BY <1>2 DEF TrySeed
  <2>3. \E s \in {"seedUp", "seed", "try"} : cpc' = [cpc EXCEPT ![c] = s]
    BY <1>2 DEF TrySeed
  <2>4. cpc' \in [Connectors -> ConnectorStates]
    BY <2>3 DEF TypeOK, ConnectorStates
  <2> QED BY <2>1, <2>2, <2>3, <2>4, SeedConnectFacts
<1> QED BY <1>1, <1>2

-----------------------------------------------------------------------------
(* Each part of the invariant is kept by each action.                      *)

\* The types, which need the bound of the writes and the seeds that connect() is at.
LEMMA TypeStep ==
    ASSUME IndInv, [Next]_vars
    PROVE  TypeOK'
<1>0. /\ TypeOK /\ WritesInv
      /\ CallersOK /\ SeedsOK /\ FlagsOK /\ NodesOK /\ CallsOK
  BY TypeParts DEF IndInv
<1>1. CASE RefreshSend
  <2>1. CallersOK'
    <3>1. UNCHANGED <<rpc, cpc>>
      BY <1>1 DEF RefreshSend, rvars, cvars
    <3>2. refresh' \in Refreshes
      BY <1>1, <1>0 DEF RefreshSend, CallersOK, Refreshes
    <3> QED BY <1>0, <3>1, <3>2 DEF CallersOK
  <2>2. SeedsOK'
    BY <1>1, <1>0, SeedsKept DEF RefreshSend, seeds, NoRefreshBy
  <2>3. FlagsOK'
    BY <1>1, <1>0 DEF RefreshSend, FlagsOK, flags, metadata, NoRefreshBy
  <2>4. NodesOK'
    BY <1>1, <1>0 DEF RefreshSend, NodesOK, metadata
  <2>5. CallsOK'
    BY <1>1, <1>0 DEF RefreshSend, CallsOK, rvars, cvars
  <2> QED BY <2>1, <2>2, <2>3, <2>4, <2>5, TypeParts
<1>2. CASE RefreshRequestFails
  <2>1. CallersOK'
    <3>1. UNCHANGED <<rpc, cpc>>
      BY <1>2 DEF RefreshRequestFails, rvars, cvars
    <3>2. refresh' \in Refreshes
      BY <1>2, <1>0 DEF RefreshRequestFails, CallersOK, Refreshes
    <3> QED BY <1>0, <3>1, <3>2 DEF CallersOK
  <2>2. SeedsOK'
    BY <1>2, <1>0, SeedsKept DEF RefreshRequestFails, seeds, NoRefreshBy
  <2>3. FlagsOK'
    BY <1>2, <1>0 DEF RefreshRequestFails, FlagsOK, flags, metadata, NoRefreshBy
  <2>4. NodesOK'
    BY <1>2, <1>0 DEF RefreshRequestFails, NodesOK, metadata
  <2>5. CallsOK'
    BY <1>2, <1>0 DEF RefreshRequestFails, CallsOK, rvars, cvars
  <2> QED BY <2>1, <2>2, <2>3, <2>4, <2>5, TypeParts
<1>3. CASE RefreshFails
  <2>1. refresh.by # Nobody
    BY <1>3 DEF RefreshFails, RefreshIsOwned, IndInv
  <2>2. /\ rpc' \in [Requests -> RequestStates] /\ cpc' \in [Connectors -> ConnectorStates]
        /\ metadataRefreshTimer' \in BOOLEAN
    BY <1>3, <2>1, ResumeFailedFacts DEF RefreshFails, IndInv
  <2>3. refresh' \in Refreshes /\ isRefreshingMetadata' = FALSE
    BY <1>3 DEF RefreshFails, EndRefresh, NoRefresh, Refreshes
  <2>4. CallersOK'
    BY <1>3, <2>2, <2>3 DEF CallersOK
  <2>5. SeedsOK'
    BY <1>3, <1>0, SeedsKept DEF RefreshFails, seeds, NoRefreshBy
  <2>6. FlagsOK'
    BY <1>3, <1>0, <2>2, <2>3 DEF RefreshFails, FlagsOK, flags, metadata
  <2>7. NodesOK'
    BY <1>3, <1>0 DEF RefreshFails, NodesOK, metadata
  <2>8. CallsOK'
    BY <1>3, <1>0 DEF RefreshFails, CallsOK, rvars, cvars
  <2> QED BY <2>4, <2>5, <2>6, <2>7, <2>8, TypeParts
<1>4. CASE RefreshDone
  <2>1. refresh.by # Nobody
    BY <1>4 DEF RefreshDone, RefreshIsOwned, IndInv
  <2>2. /\ rpc' \in [Requests -> RequestStates] /\ cpc' \in [Connectors -> ConnectorStates]
        /\ metadataRefreshTimer' \in BOOLEAN /\ isInitialized' \in BOOLEAN
    BY <1>4, <2>1, ResumeOkFacts DEF RefreshDone, IndInv
  <2>3. refresh' \in Refreshes /\ isRefreshingMetadata' = FALSE
    BY <1>4 DEF RefreshDone, EndRefresh, NoRefresh, Refreshes
  <2>4. CallersOK'
    BY <1>4, <2>2, <2>3 DEF CallersOK
  <2>5. SeedsOK'
    BY <1>4, <1>0, SeedsKept DEF RefreshDone, seeds, NoRefreshBy
  <2>6. FlagsOK'
    BY <1>4, <1>0, <2>2, <2>3 DEF RefreshDone, FlagsOK, flags, metadata
  <2>7. NodesOK'
    BY <1>4, <1>0 DEF RefreshDone, NodesOK, metadata
  <2>8. CallsOK'
    BY <1>4, <1>0 DEF RefreshDone, CallsOK, rvars, cvars
  <2> QED BY <2>4, <2>5, <2>6, <2>7, <2>8, TypeParts
<1>5. ASSUME NEW B \in SUBSET Nodes, NEW l \in Nodes \cup {NoNode}, RefreshAnswered(B, l)
      PROVE TypeOK'
  <2>1. CallersOK'
    <3>1. UNCHANGED <<rpc, cpc>>
      BY <1>5 DEF RefreshAnswered, rvars, cvars
    <3>2. refresh' \in Refreshes
      BY <1>5, <1>0 DEF RefreshAnswered, CallersOK, Refreshes
    <3> QED BY <1>0, <3>1, <3>2 DEF CallersOK
  <2>2. SeedsOK'
    BY <1>5, <1>0, SeedsKept DEF RefreshAnswered, seeds, NoRefreshBy
  <2>3. FlagsOK'
    BY <1>5, <1>0 DEF RefreshAnswered, FlagsOK, flags, metadata, NoRefreshBy
  <2>4. NodesOK'
    BY <1>5, <1>0 DEF RefreshAnswered, NodesOK, metadata
  <2>5. CallsOK'
    BY <1>5, <1>0 DEF RefreshAnswered, CallsOK, rvars, cvars
  <2> QED BY <2>1, <2>2, <2>3, <2>4, <2>5, TypeParts
<1>6. ASSUME NEW n \in Nodes, NEW P \in SUBSET Nodes, RefreshConnects(n, P) PROVE TypeOK'
  <2>1. CallersOK'
    <3>1. UNCHANGED <<rpc, cpc>>
      BY <1>6 DEF RefreshConnects, rvars, cvars
    <3>2. refresh' \in Refreshes
      BY <1>6, <1>0 DEF RefreshConnects, CallersOK, Refreshes
    <3> QED BY <1>0, <3>1, <3>2 DEF CallersOK
  <2>2. SeedsOK'
    BY <1>6, <1>0, SeedsKept DEF RefreshConnects, seeds, NoRefreshBy
  <2>3. FlagsOK'
    BY <1>6, <1>0 DEF RefreshConnects, FlagsOK, flags, metadata, NoRefreshBy
  <2>4. NodesOK'
    BY <1>6, <1>0 DEF RefreshConnects, NodesOK, metadata
  <2>5. CallsOK'
    BY <1>6, <1>0 DEF RefreshConnects, CallsOK, rvars, cvars
  <2> QED BY <2>1, <2>2, <2>3, <2>4, <2>5, TypeParts
<1>7. ASSUME NEW n \in Nodes, RefreshSkips(n) PROVE TypeOK'
  <2>1. CallersOK'
    <3>1. UNCHANGED <<rpc, cpc>>
      BY <1>7 DEF RefreshSkips, rvars, cvars
    <3>2. refresh' \in Refreshes
      BY <1>7, <1>0 DEF RefreshSkips, CallersOK, Refreshes
    <3> QED BY <1>0, <3>1, <3>2 DEF CallersOK
  <2>2. SeedsOK'
    BY <1>7, <1>0, SeedsKept DEF RefreshSkips, seeds, NoRefreshBy
  <2>3. FlagsOK'
    BY <1>7, <1>0 DEF RefreshSkips, FlagsOK, flags, metadata, NoRefreshBy
  <2>4. NodesOK'
    BY <1>7, <1>0 DEF RefreshSkips, NodesOK, metadata
  <2>5. CallsOK'
    BY <1>7, <1>0 DEF RefreshSkips, CallsOK, rvars, cvars
  <2> QED BY <2>1, <2>2, <2>3, <2>4, <2>5, TypeParts
<1>8. CASE RefreshJoins
  <2>1. refresh.joining \in Nodes
    BY <1>8 DEF RefreshJoins, IndInv, MapInv
  <2>2. CallersOK'
    <3>1. UNCHANGED <<rpc, cpc>>
      BY <1>8 DEF RefreshJoins, rvars, cvars
    <3>2. refresh' \in Refreshes
      BY <1>8, <1>0 DEF RefreshJoins, CallersOK, Refreshes
    <3> QED BY <1>0, <3>1, <3>2 DEF CallersOK
  <2>3. SeedsOK'
    BY <1>8, <1>0, SeedsKept DEF RefreshJoins, seeds, NoRefreshBy
  <2>4. FlagsOK'
    BY <1>8, <1>0 DEF RefreshJoins, FlagsOK, flags, metadata, NoRefreshBy
  <2>5. NodesOK'
    BY <1>8, <1>0, <2>1 DEF RefreshJoins, NodesOK, metadata
  <2>6. CallsOK'
    BY <1>8, <1>0 DEF RefreshJoins, CallsOK, rvars, cvars
  <2> QED BY <2>2, <2>3, <2>4, <2>5, <2>6, TypeParts
<1>9. CASE RefreshCannotJoin
  <2>1. CallersOK'
    BY <1>9, <1>0 DEF RefreshCannotJoin, CallersOK, RequestStates, ConnectorStates,
       Refreshes, rvars, cvars
  <2>2. SeedsOK'
    BY <1>9, <1>0, SeedsKept DEF RefreshCannotJoin, seeds, NoRefreshBy
  <2>3. FlagsOK'
    BY <1>9, <1>0 DEF RefreshCannotJoin, FlagsOK, flags, metadata, NoRefreshBy
  <2>4. NodesOK'
    BY <1>9, <1>0 DEF RefreshCannotJoin, NodesOK, metadata
  <2>5. CallsOK'
    BY <1>9, <1>0 DEF RefreshCannotJoin, CallsOK, rvars, cvars
  <2> QED BY <2>1, <2>2, <2>3, <2>4, <2>5, TypeParts
<1>10. ASSUME NEW n \in Nodes, RefreshRemoves(n) PROVE TypeOK'
  <2>1. CallersOK'
    BY <1>10, <1>0, LosingFacts DEF RefreshRemoves
  <2>2. SeedsOK'
    BY <1>10, <1>0, SeedsKept DEF RefreshRemoves, seeds, NoRefreshBy
  <2>3. FlagsOK'
    BY <1>10, <1>0 DEF RefreshRemoves, FlagsOK, flags, metadata, NoRefreshBy
  <2>4. NodesOK'
    <3>1. connections' \in Seq(Nodes)
      BY <1>10, <1>0 DEF RefreshRemoves, NodesOK
    <3> QED BY <1>10, <1>0, <3>1 DEF RefreshRemoves, NodesOK, metadata
  <2>5. CallsOK'
    BY <1>10, <1>0 DEF RefreshRemoves, CallsOK, rvars, cvars
  <2> QED BY <2>1, <2>2, <2>3, <2>4, <2>5, TypeParts
<1>11. CASE TimerFires
  <2>1. SeedsOK' /\ refresh' \in Refreshes /\ isRefreshingMetadata' = TRUE
    BY <1>11, <1>0, BeginFacts DEF TimerFires, Callers
  <2>2. CallersOK'
    BY <1>11, <1>0, <2>1 DEF TimerFires, CallersOK, rvars, cvars
  <2>3. SeedsOK'
    BY <2>1
  <2>4. FlagsOK'
    BY <1>11, <1>0, <2>1 DEF TimerFires, FlagsOK, flags, metadata
  <2>5. NodesOK'
    BY <1>11, <1>0 DEF TimerFires, NodesOK, metadata
  <2>6. CallsOK'
    BY <1>11, <1>0 DEF TimerFires, CallsOK, rvars, cvars
  <2> QED BY <2>2, <2>3, <2>4, <2>5, <2>6, TypeParts
<1>12. CASE Close
  <2>1. CallersOK'
    BY <1>12, <1>0, LosingFacts DEF Close
  <2>2. SeedsOK'
    <3>1. /\ seed' = [i \in Seeds |-> IF seed[i] \in {"bad", "stuck"} THEN "bad" ELSE "down"]
          /\ older' = [i \in Seeds |-> OlderOnceLetGo(i)] /\ UNCHANGED seedHeard
      BY <1>12 DEF Close
    <3>2. \A i \in Seeds : OlderOnceLetGo(i) \in {"none", "connected", "connecting"}
      BY <1>0, LetGoFacts
    <3> QED BY <1>0, <3>1, <3>2 DEF SeedsOK, SeedStates
  <2>3. FlagsOK'
    BY <1>12, <1>0 DEF Close, FlagsOK, flags, metadata, NoRefreshBy
  <2>4. NodesOK'
    BY <1>12, <1>0 DEF Close, NodesOK, metadata
  <2>5. CallsOK'
    BY <1>12, <1>0 DEF Close, CallsOK, rvars, cvars
  <2> QED BY <2>1, <2>2, <2>3, <2>4, <2>5, TypeParts
<1>13. ASSUME NEW c \in Connectors, Connect(c) PROVE TypeOK'
  <2>1. CallersOK' /\ SeedsOK' /\ at' \in [Connectors -> 1 .. NumSeeds + 1]
    <3>1. 1 \in 1 .. NumSeeds + 1
      BY ClientAssumption
    <3>2. at \in [Connectors -> 1 .. NumSeeds + 1]
      BY <1>0 DEF CallsOK
    <3>3. CASE TrySeed(c, 1)
      <4>1. cpc' \in [Connectors -> ConnectorStates] /\ at' = [at EXCEPT ![c] = 1] /\ SeedsOK'
        BY <1>0, <3>1, <3>3, TryFacts
      <4> QED BY <1>13, <1>0, <3>1, <3>2, <4>1 DEF Connect, CallersOK, rvars
    <3>4. CASE /\ cpc' = [cpc EXCEPT ![c] = "ready"] \/ cpc' = [cpc EXCEPT ![c] = "failed"]
               /\ UNCHANGED <<at, seeds>>
      <4>1. cpc' \in [Connectors -> ConnectorStates]
        BY <1>0, <3>4 DEF CallersOK, ConnectorStates
      <4>2. SeedsOK' /\ UNCHANGED at
        BY <1>0, <3>4, SeedsKept
      <4> QED BY <1>13, <1>0, <3>2, <4>1, <4>2 DEF Connect, CallersOK, rvars
    <3> QED BY <1>13, <3>3, <3>4 DEF Connect
  <2>2. FlagsOK' /\ NodesOK'
    BY <1>13, <1>0 DEF Connect, FlagsOK, NodesOK, flags, metadata
  <2>3. CallsOK'
    BY <1>13, <1>0, <2>1 DEF Connect, CallsOK, rvars
  <2> QED BY <2>1, <2>2, <2>3, TypeParts
<1>14. ASSUME NEW c \in Connectors, NextSeed(c) PROVE TypeOK'
  <2>1. at[c] + 1 \in 1 .. NumSeeds + 1
    BY <1>14, ClientAssumption DEF NextSeed, IndInv, AtInv, Seeds
  <2>2. cpc' \in [Connectors -> ConnectorStates] /\ at' = [at EXCEPT ![c] = at[c] + 1] /\ SeedsOK'
    BY <1>14, <1>0, <2>1, TryFacts DEF NextSeed
  <2>3. CallersOK'
    BY <1>14, <1>0, <2>2 DEF NextSeed, CallersOK, rvars
  <2>4. FlagsOK' /\ NodesOK'
    BY <1>14, <1>0 DEF NextSeed, FlagsOK, NodesOK, flags, metadata
  <2>5. CallsOK'
    BY <1>14, <1>0, <2>1, <2>2 DEF NextSeed, CallsOK, rvars
  <2> QED BY <2>2, <2>3, <2>4, <2>5, TypeParts
<1>15. ASSUME NEW c \in Connectors, FetchApiVersions(c) PROVE TypeOK'
  <2>1. CallersOK'
    BY <1>15, <1>0 DEF FetchApiVersions, CallersOK, RequestStates, ConnectorStates,
       Refreshes, rvars, cvars
  <2>2. SeedsOK'
    BY <1>15, <1>0, SeedsKept DEF FetchApiVersions, seeds, NoRefreshBy
  <2>3. FlagsOK'
    BY <1>15, <1>0 DEF FetchApiVersions, FlagsOK, flags, metadata, NoRefreshBy
  <2>4. NodesOK'
    BY <1>15, <1>0 DEF FetchApiVersions, NodesOK, metadata
  <2>5. CallsOK'
    BY <1>15, <1>0 DEF FetchApiVersions, CallsOK, rvars, cvars
  <2> QED BY <2>1, <2>2, <2>3, <2>4, <2>5, TypeParts
<1>16. ASSUME NEW c \in Connectors, ApiVersionsAnswered(c) PROVE TypeOK'
  <2>1. /\ CallersOK' /\ SeedsOK'
        /\ isRefreshingMetadata' \in BOOLEAN /\ isInitialized' \in BOOLEAN
        /\ metadataRefreshTimer' \in BOOLEAN
    <3>1. CASE isRefreshingMetadata
      <4>1. /\ Ready(c) /\ UNCHANGED <<isRefreshingMetadata, refresh, seeds, rpc>>
        BY <1>16, <3>1 DEF ApiVersionsAnswered, rvars
      <4>2. CallersOK' /\ isInitialized' \in BOOLEAN /\ metadataRefreshTimer' \in BOOLEAN
        BY <1>0, <4>1, ClientAssumption DEF CallersOK, ConnectorStates, Ready,
           startMetadataRefreshTimer
      <4> QED BY <1>0, <4>1, <4>2, SeedsKept DEF FlagsOK
    <3>2. CASE ~isRefreshingMetadata
      <4>1. at[c] \in Seeds
        BY <1>16 DEF ApiVersionsAnswered, IndInv, AtInv
      <4>2. SeedsOK' /\ refresh' \in Refreshes /\ isRefreshingMetadata' = TRUE
        BY <1>16, <1>0, <3>2, <4>1, BeginFacts DEF ApiVersionsAnswered, Callers
      <4>3. /\ cpc' = [cpc EXCEPT ![c] = "refresh"]
            /\ UNCHANGED <<isInitialized, metadataRefreshTimer, rpc>>
        BY <1>16, <3>2 DEF ApiVersionsAnswered, rvars
      <4> QED BY <1>0, <4>2, <4>3 DEF CallersOK, ConnectorStates, FlagsOK
    <3> QED BY <3>1, <3>2
  <2>2. FlagsOK' /\ NodesOK'
    BY <1>16, <1>0, <2>1 DEF ApiVersionsAnswered, FlagsOK, NodesOK, metadata
  <2>3. CallsOK'
    BY <1>16, <1>0 DEF ApiVersionsAnswered, CallsOK, rvars
  <2> QED BY <2>1, <2>2, <2>3, TypeParts
<1>17. ASSUME NEW c \in Connectors, ApiVersionsFails(c) PROVE TypeOK'
  <2>1. CallersOK'
    BY <1>17, <1>0 DEF ApiVersionsFails, CallersOK, RequestStates, ConnectorStates,
       Refreshes, rvars, cvars
  <2>2. SeedsOK'
    BY <1>17, <1>0, SeedsKept DEF ApiVersionsFails, seeds, NoRefreshBy
  <2>3. FlagsOK'
    BY <1>17, <1>0 DEF ApiVersionsFails, FlagsOK, flags, metadata, NoRefreshBy
  <2>4. NodesOK'
    BY <1>17, <1>0 DEF ApiVersionsFails, NodesOK, metadata
  <2>5. CallsOK'
    BY <1>17, <1>0 DEF ApiVersionsFails, CallsOK, rvars, cvars
  <2> QED BY <2>1, <2>2, <2>3, <2>4, <2>5, TypeParts
<1>18. ASSUME NEW r \in Requests, Call(r) PROVE TypeOK'
  <2>1. CallersOK' /\ SeedsOK' /\ isRefreshingMetadata' \in BOOLEAN
    <3>1. CASE RefreshThen(r, "refresh", "recheck")
      <4>1. "refresh" \in RequestStates /\ "recheck" \in RequestStates
        BY DEF RequestStates
      <4>2. /\ rpc' \in [Requests -> RequestStates] /\ refresh' \in Refreshes
            /\ SeedsOK' /\ isRefreshingMetadata' = TRUE
        BY <1>0, <3>1, <4>1, ThenFacts
      <4> QED BY <1>18, <1>0, <4>2 DEF Call, CallersOK, cvars
    <3>2. CASE NoRefreshBy /\ (rpc' = [rpc EXCEPT ![r] = "failing"] \/ Write(r, "sent"))
      <4>1. rpc' \in [Requests -> RequestStates]
        BY <1>0, <3>2 DEF CallersOK, RequestStates, Write
      <4> QED BY <1>18, <1>0, <3>2, <4>1, SeedsKept DEF Call, CallersOK, FlagsOK,
          NoRefreshBy, cvars
    <3> QED BY <1>18, <3>1, <3>2 DEF Call
  <2>2. FlagsOK' /\ NodesOK'
    BY <1>18, <1>0, <2>1 DEF Call, FlagsOK, NodesOK, flags, metadata
  <2>3. CallsOK'
    <3>1. writes' \in [Requests -> 0 .. 4]
      <4>1. writes[r] + 1 \in 0 .. 4
        BY <1>18, <1>0, WritesLeft DEF Call
      <4>2. UNCHANGED writes \/ writes' = [writes EXCEPT ![r] = writes[r] + 1]
        BY <1>18 DEF Call, Write
      <4> QED BY <1>0, <4>1, <4>2 DEF CallsOK
    <3>2. leader \in Nodes \cup {NoNode}
      BY <1>0 DEF NodesOK
    <3> QED BY <1>18, <1>0, <3>1, <3>2 DEF Call, CallsOK, cvars
  <2> QED BY <2>1, <2>2, <2>3, TypeParts
<1>19. ASSUME NEW r \in Requests, Recheck(r) PROVE TypeOK'
  <2>1. /\ UNCHANGED <<cpc, refresh, seeds, isRefreshingMetadata>>
        /\ \/ Write(r, "sent")
           \/ rpc' = [rpc EXCEPT ![r] = "failing"] /\ UNCHANGED writes
    BY <1>19 DEF Recheck, NoRefreshBy, cvars
  <2>2. CallersOK'
    BY <1>0, <2>1 DEF CallersOK, RequestStates, Write
  <2>3. SeedsOK'
    BY <1>0, <2>1, SeedsKept
  <2>4. FlagsOK' /\ NodesOK'
    BY <1>19, <1>0, <2>1 DEF Recheck, FlagsOK, NodesOK, flags, metadata
  <2>5. writes' \in [Requests -> 0 .. 4]
    <3>1. writes[r] + 1 \in 0 .. 4
      BY <1>19, <1>0, WritesLeft DEF Recheck
    <3> QED BY <1>0, <2>1, <3>1 DEF CallsOK, Write
  <2>6. CallsOK'
    BY <1>19, <1>0, <2>5 DEF Recheck, CallsOK, cvars
  <2> QED BY <2>2, <2>3, <2>4, <2>6, TypeParts
<1>20. ASSUME NEW r \in Requests, RecheckLost(r) PROVE TypeOK'
  <2>1. /\ UNCHANGED <<cpc, refresh, seeds, isRefreshingMetadata>>
        /\ \/ Write(r, "resent")
           \/ rpc' = [rpc EXCEPT ![r] = "failing"] /\ UNCHANGED writes
    BY <1>20 DEF RecheckLost, NoRefreshBy, cvars
  <2>2. CallersOK'
    BY <1>0, <2>1 DEF CallersOK, RequestStates, Write
  <2>3. SeedsOK'
    BY <1>0, <2>1, SeedsKept
  <2>4. FlagsOK' /\ NodesOK'
    BY <1>20, <1>0, <2>1 DEF RecheckLost, FlagsOK, NodesOK, flags, metadata
  <2>5. writes' \in [Requests -> 0 .. 4]
    <3>1. writes[r] + 1 \in 0 .. 4
      BY <1>20, <1>0, WritesLeft DEF RecheckLost
    <3> QED BY <1>0, <2>1, <3>1 DEF CallsOK, Write
  <2>6. CallsOK'
    BY <1>20, <1>0, <2>5 DEF RecheckLost, CallsOK, cvars
  <2> QED BY <2>2, <2>3, <2>4, <2>6, TypeParts
<1>21. ASSUME NEW r \in Requests, RequestLost(r) PROVE TypeOK'
  <2>1. CallersOK' /\ SeedsOK' /\ isRefreshingMetadata' \in BOOLEAN
    <3>1. CASE RefreshThen(r, "refreshLost", "recheckLost")
      <4>1. "refreshLost" \in RequestStates /\ "recheckLost" \in RequestStates
        BY DEF RequestStates
      <4>2. /\ rpc' \in [Requests -> RequestStates] /\ refresh' \in Refreshes
            /\ SeedsOK' /\ isRefreshingMetadata' = TRUE
        BY <1>0, <3>1, <4>1, ThenFacts
      <4> QED BY <1>21, <1>0, <4>2 DEF RequestLost, CallersOK, cvars
    <3>2. CASE NoRefreshBy /\ rpc' = [rpc EXCEPT ![r] = "failing"]
      <4>1. rpc' \in [Requests -> RequestStates]
        BY <1>0, <3>2 DEF CallersOK, RequestStates
      <4> QED BY <1>21, <1>0, <3>2, <4>1, SeedsKept DEF RequestLost, CallersOK, FlagsOK,
          NoRefreshBy, cvars
    <3> QED BY <1>21, <3>1, <3>2 DEF RequestLost
  <2>2. FlagsOK' /\ NodesOK'
    BY <1>21, <1>0, <2>1 DEF RequestLost, FlagsOK, NodesOK, flags, metadata
  <2>3. CallsOK'
    BY <1>21, <1>0 DEF RequestLost, CallsOK, cvars
  <2> QED BY <2>1, <2>2, <2>3, TypeParts
<1>22. ASSUME NEW r \in Requests, RequestAnswered(r) PROVE TypeOK'
  <2>1. CallersOK'
    BY <1>22, <1>0 DEF RequestAnswered, CallersOK, RequestStates, ConnectorStates,
       Refreshes, rvars, cvars
  <2>2. SeedsOK'
    BY <1>22, <1>0, SeedsKept DEF RequestAnswered, seeds, NoRefreshBy
  <2>3. FlagsOK'
    BY <1>22, <1>0 DEF RequestAnswered, FlagsOK, flags, metadata, NoRefreshBy
  <2>4. NodesOK'
    BY <1>22, <1>0 DEF RequestAnswered, NodesOK, metadata
  <2>5. CallsOK'
    BY <1>22, <1>0 DEF RequestAnswered, CallsOK, rvars, cvars
  <2> QED BY <2>1, <2>2, <2>3, <2>4, <2>5, TypeParts
<1>23. ASSUME NEW r \in Requests, RequestFails(r) PROVE TypeOK'
  <2>1. CallersOK'
    BY <1>23, <1>0 DEF RequestFails, CallersOK, RequestStates, ConnectorStates,
       Refreshes, rvars, cvars
  <2>2. SeedsOK'
    BY <1>23, <1>0, SeedsKept DEF RequestFails, seeds, NoRefreshBy
  <2>3. FlagsOK'
    BY <1>23, <1>0 DEF RequestFails, FlagsOK, flags, metadata, NoRefreshBy
  <2>4. NodesOK'
    BY <1>23, <1>0 DEF RequestFails, NodesOK, metadata
  <2>5. CallsOK'
    BY <1>23, <1>0 DEF RequestFails, CallsOK, rvars, cvars
  <2> QED BY <2>1, <2>2, <2>3, <2>4, <2>5, TypeParts
<1>24. ASSUME NEW r \in Requests, TryAgain(r) PROVE TypeOK'
  <2>1. CallersOK' /\ SeedsOK' /\ isRefreshingMetadata' \in BOOLEAN
    <3>1. CASE RefreshThen(r, "refreshLeader", "call")
      <4>1. "refreshLeader" \in RequestStates /\ "call" \in RequestStates
        BY DEF RequestStates
      <4>2. /\ rpc' \in [Requests -> RequestStates] /\ refresh' \in Refreshes
            /\ SeedsOK' /\ isRefreshingMetadata' = TRUE
        BY <1>0, <3>1, <4>1, ThenFacts
      <4> QED BY <1>24, <1>0, <4>2 DEF TryAgain, CallersOK, cvars
    <3>2. CASE NoRefreshBy /\ rpc' = [rpc EXCEPT ![r] = "rejected"]
      <4>1. rpc' \in [Requests -> RequestStates]
        BY <1>0, <3>2 DEF CallersOK, RequestStates
      <4> QED BY <1>24, <1>0, <3>2, <4>1, SeedsKept DEF TryAgain, CallersOK, FlagsOK,
          NoRefreshBy, cvars
    <3> QED BY <1>24, <3>1, <3>2 DEF TryAgain
  <2>2. FlagsOK' /\ NodesOK'
    BY <1>24, <1>0, <2>1 DEF TryAgain, FlagsOK, NodesOK, flags, metadata
  <2>3. CallsOK'
    BY <1>24, <1>0 DEF TryAgain, CallsOK, cvars
  <2> QED BY <2>1, <2>2, <2>3, TypeParts
<1>25. ASSUME NEW i \in Seeds, SeedConnects(i) PROVE TypeOK'
  <2>1. CallersOK'
    <3>1. cpc' \in [Connectors -> ConnectorStates]
      BY <1>25, <1>0 DEF SeedConnects, CallersOK, ConnectorStates
    <3>2. refresh' = refresh \/ refresh' = [refresh EXCEPT !.pc = "send"]
      BY <1>25 DEF SeedConnects
    <3>3. refresh' \in Refreshes
      BY <1>0, <3>2 DEF CallersOK, Refreshes
    <3> QED BY <1>25, <1>0, <3>1, <3>3 DEF SeedConnects, CallersOK, rvars
  <2>2. SeedsOK'
    BY <1>25, <1>0 DEF SeedConnects, SeedsOK, SeedStates
  <2>3. FlagsOK'
    BY <1>25, <1>0 DEF SeedConnects, FlagsOK, flags, metadata, NoRefreshBy
  <2>4. NodesOK'
    BY <1>25, <1>0 DEF SeedConnects, NodesOK, metadata
  <2>5. CallsOK'
    BY <1>25, <1>0 DEF SeedConnects, CallsOK, rvars, cvars
  <2> QED BY <2>1, <2>2, <2>3, <2>4, <2>5, TypeParts
<1>26. ASSUME NEW i \in Seeds, SeedEnds(i) PROVE TypeOK'
  <2>1. CallersOK'
    BY <1>26, <1>0, LosingFacts DEF SeedEnds
  <2>2. SeedsOK'
    BY <1>26, <1>0 DEF SeedEnds, SeedsOK, SeedStates
  <2>3. FlagsOK'
    BY <1>26, <1>0 DEF SeedEnds, FlagsOK, flags, metadata, NoRefreshBy
  <2>4. NodesOK'
    BY <1>26, <1>0 DEF SeedEnds, NodesOK, metadata
  <2>5. CallsOK'
    BY <1>26, <1>0 DEF SeedEnds, CallsOK, rvars, cvars
  <2> QED BY <2>1, <2>2, <2>3, <2>4, <2>5, TypeParts
<1>27. ASSUME NEW i \in Seeds, SeedBreaks(i) PROVE TypeOK'
  <2>1. CallersOK'
    <3>1. (\E W : CallersLosing({i}, W)) \/ UNCHANGED <<cpc, rpc, refresh>>
      BY <1>27 DEF SeedBreaks
    <3>2. CASE UNCHANGED <<cpc, rpc, refresh>>
      BY <1>0, <3>2 DEF CallersOK
    <3> QED BY <1>0, <3>1, <3>2, LosingFacts
  <2>2. SeedsOK'
    <3>1. CASE UNCHANGED seeds
      BY <1>0, <3>1, SeedsKept
    <3>2. CASE /\ seed' = [seed EXCEPT ![i] = "down"] /\ seedHeard' = seedHeard \ {i}
               /\ UNCHANGED older \/ older' = [older EXCEPT ![i] = OlderOnceLetGo(i)]
      <4>1. OlderOnceLetGo(i) \in {"none", "connected", "connecting"}
        BY <1>0, LetGoFacts
      <4> QED BY <1>0, <3>2, <4>1 DEF SeedsOK, SeedStates
    <3> QED BY <1>27, <3>1, <3>2 DEF SeedBreaks
  <2>3. FlagsOK'
    BY <1>27, <1>0 DEF SeedBreaks, FlagsOK, flags, metadata, NoRefreshBy
  <2>4. NodesOK'
    BY <1>27, <1>0 DEF SeedBreaks, NodesOK, metadata
  <2>5. CallsOK'
    BY <1>27, <1>0 DEF SeedBreaks, CallsOK, rvars, cvars
  <2> QED BY <2>1, <2>2, <2>3, <2>4, <2>5, TypeParts
<1>28. ASSUME NEW n \in Nodes, NodeLost(n) PROVE TypeOK'
  <2>1. CallersOK'
    BY <1>28, <1>0, LosingFacts DEF NodeLost
  <2>2. SeedsOK'
    BY <1>28, <1>0, SeedsKept DEF NodeLost, seeds, NoRefreshBy
  <2>3. FlagsOK'
    BY <1>28, <1>0 DEF NodeLost, FlagsOK, flags, metadata, NoRefreshBy
  <2>4. NodesOK'
    BY <1>28, <1>0 DEF NodeLost, NodesOK, metadata
  <2>5. CallsOK'
    BY <1>28, <1>0 DEF NodeLost, CallsOK, rvars, cvars
  <2> QED BY <2>1, <2>2, <2>3, <2>4, <2>5, TypeParts
<1>29. CASE UNCHANGED vars
  <2>1. CallersOK'
    BY <1>29, <1>0 DEF vars, CallersOK, RequestStates, ConnectorStates, Refreshes, rvars,
       cvars
  <2>2. SeedsOK'
    BY <1>29, <1>0, SeedsKept DEF vars, seeds, NoRefreshBy
  <2>3. FlagsOK'
    BY <1>29, <1>0 DEF vars, FlagsOK, flags, metadata, NoRefreshBy
  <2>4. NodesOK'
    BY <1>29, <1>0 DEF vars, NodesOK, metadata
  <2>5. CallsOK'
    BY <1>29, <1>0 DEF vars, CallsOK, rvars, cvars
  <2> QED BY <2>1, <2>2, <2>3, <2>4, <2>5, TypeParts
<1> QED BY <1>1, <1>2, <1>3, <1>4, <1>5, <1>6, <1>7, <1>8, <1>9, <1>10, <1>11, <1>12,
    <1>13, <1>14, <1>15, <1>16, <1>17, <1>18, <1>19, <1>20, <1>21, <1>22, <1>23, <1>24,
    <1>25, <1>26, <1>27, <1>28, <1>29
       DEF Next, RefreshStep, ConnectorStep, RequestStep, SeedStep

\* Where connect() is.
LEMMA AtStep ==
    ASSUME IndInv, [Next]_vars
    PROVE  AtInv'
<1>0. TypeOK /\ AtInv /\ RefreshIsOwned
  BY DEF IndInv
<1>1. CASE RefreshFails
  <2>1. refresh.by # Nobody
    BY <1>1, <1>0 DEF RefreshFails, RefreshIsOwned
  <2> QED BY <1>1, <1>0, <2>1, ResumeFailedFacts DEF RefreshFails, AtInv
<1>2. CASE RefreshDone
  <2>1. refresh.by # Nobody
    BY <1>2, <1>0 DEF RefreshDone, RefreshIsOwned
  <2> QED BY <1>2, <1>0, <2>1, ResumeOkFacts DEF RefreshDone, AtInv
<1>3. ASSUME NEW c \in Connectors, Connect(c) PROVE AtInv'
  <2>1. CASE TrySeed(c, 1)
    <3>1. 1 \in 1 .. NumSeeds + 1
      BY ClientAssumption
    <3>2. /\ at' = [at EXCEPT ![c] = 1]
          /\ \/ cpc' = [cpc EXCEPT ![c] = "failed"]
             \/ 1 \in Seeds /\ \E s \in {"seedUp", "seed", "try"} : cpc' = [cpc EXCEPT ![c] = s]
      BY <1>0, <2>1, <3>1, TryFacts
    <3> QED BY <1>0, <3>2 DEF AtInv, TypeOK
  <2>2. CASE /\ cpc' = [cpc EXCEPT ![c] = "ready"] \/ cpc' = [cpc EXCEPT ![c] = "failed"]
             /\ UNCHANGED at
    BY <1>0, <2>2 DEF AtInv, TypeOK
  <2> QED BY <1>3, <2>1, <2>2 DEF Connect
<1>4. ASSUME NEW c \in Connectors, NextSeed(c) PROVE AtInv'
  <2>1. at[c] + 1 \in 1 .. NumSeeds + 1
    BY <1>4, <1>0, ClientAssumption DEF NextSeed, AtInv, Seeds
  <2> DEFINE i == at[c] + 1
  <2>2. /\ at' = [at EXCEPT ![c] = i]
        /\ \/ cpc' = [cpc EXCEPT ![c] = "failed"]
           \/ i \in Seeds /\ \E s \in {"seedUp", "seed", "try"} : cpc' = [cpc EXCEPT ![c] = s]
    BY <1>4, <1>0, <2>1, TryFacts DEF NextSeed
  <2> HIDE DEF i
  <2> QED BY <1>0, <2>2 DEF AtInv, TypeOK
<1>5. CASE \/ \E c \in Connectors : FetchApiVersions(c)
           \/ \E c \in Connectors : ApiVersionsAnswered(c)
           \/ \E c \in Connectors : ApiVersionsFails(c)
  BY <1>5, <1>0 DEF FetchApiVersions, ApiVersionsAnswered, ApiVersionsFails, Ready, AtInv,
     TypeOK
<1>6. CASE \/ \E n \in Nodes : RefreshRemoves(n)
           \/ Close
           \/ \E i \in Seeds : SeedEnds(i)
           \/ \E n \in Nodes : NodeLost(n)
  <2>1. \E B, W : CallersLosing(B, W) /\ UNCHANGED at
    BY <1>6 DEF RefreshRemoves, Close, SeedEnds, NodeLost
  <2> QED BY <1>0, <2>1, LosingFacts DEF AtInv
<1>7. ASSUME NEW i \in Seeds, SeedBreaks(i) PROVE AtInv'
  <2>1. (\E W : CallersLosing({i}, W)) \/ UNCHANGED cpc
    BY <1>7 DEF SeedBreaks
  <2> QED BY <1>7, <1>0, <2>1, LosingFacts DEF SeedBreaks, AtInv
<1>8. CASE \E i \in Seeds : SeedConnects(i)
  BY <1>8, <1>0 DEF SeedConnects, AtInv, TypeOK
<1>9. CASE \/ RefreshSend
           \/ RefreshRequestFails
           \/ \E B \in SUBSET Nodes, l \in Nodes \cup {NoNode} : RefreshAnswered(B, l)
           \/ \E n \in Nodes, P \in SUBSET Nodes : RefreshConnects(n, P)
           \/ \E n \in Nodes : RefreshSkips(n)
           \/ RefreshJoins
           \/ RefreshCannotJoin
           \/ TimerFires
           \/ \E r \in Requests : Call(r)
           \/ \E r \in Requests : Recheck(r)
           \/ \E r \in Requests : RequestLost(r)
           \/ \E r \in Requests : RecheckLost(r)
           \/ \E r \in Requests : RequestAnswered(r)
           \/ \E r \in Requests : RequestFails(r)
           \/ \E r \in Requests : TryAgain(r)
           \/ UNCHANGED vars
  <2>1. UNCHANGED <<cpc, at>>
    BY <1>9 DEF RefreshSend, RefreshRequestFails, RefreshAnswered, RefreshConnects,
       RefreshSkips,
       RefreshJoins, RefreshCannotJoin, TimerFires, Call, Recheck, RequestLost, RecheckLost,
       RequestAnswered, RequestFails, TryAgain, vars, cvars
  <2> QED BY <1>0, <2>1 DEF AtInv
<1> QED BY <1>1, <1>2, <1>3, <1>4, <1>5, <1>6, <1>7, <1>8, <1>9
       DEF Next, RefreshStep, ConnectorStep, RequestStep, SeedStep

\* Two tries of at most two writes each.
LEMMA WritesStep ==
    ASSUME IndInv, [Next]_vars
    PROVE  WritesInv'
<1>0. TypeOK /\ WritesInv /\ RefreshIsOwned
  BY DEF IndInv
<1>1. CASE RefreshFails
  <2>1. refresh.by # Nobody
    BY <1>1, <1>0 DEF RefreshFails, RefreshIsOwned
  <2>2. \A q \in Requests : Rank(rpc[q]) <= Rank(rpc'[q])
    BY <1>1, <1>0, <2>1, ResumeFailedFacts DEF RefreshFails, Rank
  <2> QED BY <1>1, <1>0, <2>2, WritesKept DEF RefreshFails
<1>2. CASE RefreshDone
  <2>1. refresh.by # Nobody
    BY <1>2, <1>0 DEF RefreshDone, RefreshIsOwned
  <2>2. \A q \in Requests : Rank(rpc[q]) <= Rank(rpc'[q])
    BY <1>2, <1>0, <2>1, ResumeOkFacts DEF RefreshDone, Rank
  <2> QED BY <1>2, <1>0, <2>2, WritesKept DEF RefreshDone
<1>3. CASE \/ \E n \in Nodes : RefreshRemoves(n)
           \/ Close
           \/ \E i \in Seeds : SeedEnds(i)
           \/ \E n \in Nodes : NodeLost(n)
  <2>1. (\E B, W : CallersLosing(B, W)) /\ UNCHANGED <<writes, try>>
    BY <1>3 DEF RefreshRemoves, Close, SeedEnds, NodeLost
  <2>2. \A q \in Requests : Rank(rpc[q]) <= Rank(rpc'[q])
    BY <1>0, <2>1, LosingFacts DEF Rank
  <2> QED BY <1>0, <2>1, <2>2, WritesKept
<1>4. ASSUME NEW i \in Seeds, SeedBreaks(i) PROVE WritesInv'
  <2>1. (\E W : CallersLosing({i}, W)) \/ UNCHANGED rpc
    BY <1>4 DEF SeedBreaks
  <2>2. \A q \in Requests : Rank(rpc[q]) <= Rank(rpc'[q])
    BY <1>0, <2>1, LosingFacts DEF Rank
  <2> QED BY <1>4, <1>0, <2>2, WritesKept DEF SeedBreaks
<1>5. ASSUME NEW r \in Requests, Call(r) PROVE WritesInv'
  <2>1. CASE RefreshThen(r, "refresh", "recheck") /\ UNCHANGED writes
    <3>1. "refresh" \in RequestStates /\ "recheck" \in RequestStates
      BY DEF RequestStates
    <3>2. rpc' = [rpc EXCEPT ![r] = "refresh"] \/ rpc' = [rpc EXCEPT ![r] = "recheck"]
      BY <1>0, <2>1, <3>1, ThenFacts
    <3>3. \A q \in Requests : Rank(rpc[q]) <= Rank(rpc'[q])
      BY <1>5, <1>0, <3>2 DEF Call, TypeOK, Rank
    <3> QED BY <1>5, <1>0, <2>1, <3>3, WritesKept DEF Call
  <2>2. CASE rpc' = [rpc EXCEPT ![r] = "failing"] /\ UNCHANGED writes
    <3>1. \A q \in Requests : Rank(rpc[q]) <= Rank(rpc'[q])
      BY <1>5, <1>0, <2>2 DEF Call, TypeOK, Rank
    <3> QED BY <1>5, <1>0, <2>2, <3>1, WritesKept DEF Call
  <2>3. CASE Write(r, "sent") /\ UNCHANGED try
    <3>1. /\ rpc' = [rpc EXCEPT ![r] = "sent"]
          /\ writes' = [writes EXCEPT ![r] = writes[r] + 1]
      BY <2>3 DEF Write
    <3>2. Rank(rpc[r]) = 0 /\ Rank("sent") = 1
      BY <1>5 DEF Call, Rank
    <3>3. /\ \A q \in Requests \ {r} : rpc'[q] = rpc[q] /\ writes'[q] = writes[q]
          /\ rpc'[r] = "sent" /\ writes'[r] = writes[r] + 1
      BY <1>0, <3>1 DEF TypeOK
    <3>4. ASSUME NEW q \in Requests PROVE writes'[q] <= Written(q)'
      <4>1. CASE q # r
        BY <1>0, <2>3, <3>3, <4>1 DEF WritesInv, Written
      <4>2. writes[r] <= 2 * (try[r] - 1) + 0
        BY <1>0, <3>2 DEF WritesInv, Written
      <4>3. Written(r)' = 2 * (try[r] - 1) + 1
        BY <2>3, <3>2, <3>3 DEF Written
      <4>4. writes[r] \in 0 .. 4 /\ try[r] \in {1, 2}
        BY <1>0 DEF TypeOK
      <4>5. writes'[r] <= Written(r)'
        BY <3>3, <4>2, <4>3, <4>4
      <4> QED BY <4>1, <4>5
    <3> QED BY <3>4 DEF WritesInv
  <2> QED BY <1>5, <2>1, <2>2, <2>3 DEF Call
<1>6. ASSUME NEW r \in Requests, Recheck(r) PROVE WritesInv'
  <2>1. CASE rpc' = [rpc EXCEPT ![r] = "failing"] /\ UNCHANGED writes
    <3>1. \A q \in Requests : Rank(rpc[q]) <= Rank(rpc'[q])
      BY <1>6, <1>0, <2>1 DEF Recheck, TypeOK, Rank
    <3> QED BY <1>6, <1>0, <2>1, <3>1, WritesKept DEF Recheck
  <2>2. CASE Write(r, "sent") /\ UNCHANGED try
    <3>1. /\ rpc' = [rpc EXCEPT ![r] = "sent"]
          /\ writes' = [writes EXCEPT ![r] = writes[r] + 1]
      BY <2>2 DEF Write
    <3>2. Rank(rpc[r]) = 0 /\ Rank("sent") = 1
      BY <1>6 DEF Recheck, Rank
    <3>3. /\ \A q \in Requests \ {r} : rpc'[q] = rpc[q] /\ writes'[q] = writes[q]
          /\ rpc'[r] = "sent" /\ writes'[r] = writes[r] + 1
      BY <1>0, <3>1 DEF TypeOK
    <3>4. ASSUME NEW q \in Requests PROVE writes'[q] <= Written(q)'
      <4>1. CASE q # r
        BY <1>0, <2>2, <3>3, <4>1 DEF WritesInv, Written
      <4>2. writes[r] <= 2 * (try[r] - 1) + 0
        BY <1>0, <3>2 DEF WritesInv, Written
      <4>3. Written(r)' = 2 * (try[r] - 1) + 1
        BY <2>2, <3>2, <3>3 DEF Written
      <4>4. writes[r] \in 0 .. 4 /\ try[r] \in {1, 2}
        BY <1>0 DEF TypeOK
      <4>5. writes'[r] <= Written(r)'
        BY <3>3, <4>2, <4>3, <4>4
      <4> QED BY <4>1, <4>5
    <3> QED BY <3>4 DEF WritesInv
  <2> QED BY <1>6, <2>1, <2>2 DEF Recheck
<1>7. ASSUME NEW r \in Requests, RequestLost(r) PROVE WritesInv'
  <2>1. CASE RefreshThen(r, "refreshLost", "recheckLost") /\ UNCHANGED writes
    <3>1. "refreshLost" \in RequestStates /\ "recheckLost" \in RequestStates
      BY DEF RequestStates
    <3>2. rpc' = [rpc EXCEPT ![r] = "refreshLost"] \/ rpc' = [rpc EXCEPT ![r] = "recheckLost"]
      BY <1>0, <2>1, <3>1, ThenFacts
    <3>3. \A q \in Requests : Rank(rpc[q]) <= Rank(rpc'[q])
      BY <1>7, <1>0, <3>2 DEF RequestLost, TypeOK, Rank
    <3> QED BY <1>7, <1>0, <2>1, <3>3, WritesKept DEF RequestLost
  <2>2. CASE rpc' = [rpc EXCEPT ![r] = "failing"]
    <3>1. \A q \in Requests : Rank(rpc[q]) <= Rank(rpc'[q])
      BY <1>7, <1>0, <2>2 DEF RequestLost, TypeOK, Rank
    <3> QED BY <1>7, <1>0, <2>2, <3>1, WritesKept DEF RequestLost
  <2> QED BY <1>7, <2>1, <2>2 DEF RequestLost
<1>8. ASSUME NEW r \in Requests, RecheckLost(r) PROVE WritesInv'
  <2>1. CASE rpc' = [rpc EXCEPT ![r] = "failing"] /\ UNCHANGED writes
    <3>1. \A q \in Requests : Rank(rpc[q]) <= Rank(rpc'[q])
      BY <1>8, <1>0, <2>1 DEF RecheckLost, TypeOK, Rank
    <3> QED BY <1>8, <1>0, <2>1, <3>1, WritesKept DEF RecheckLost
  <2>2. CASE Write(r, "resent") /\ UNCHANGED try
    <3>1. /\ rpc' = [rpc EXCEPT ![r] = "resent"]
          /\ writes' = [writes EXCEPT ![r] = writes[r] + 1]
      BY <2>2 DEF Write
    <3>2. Rank(rpc[r]) = 1 /\ Rank("resent") = 2
      BY <1>8 DEF RecheckLost, Rank
    <3>3. /\ \A q \in Requests \ {r} : rpc'[q] = rpc[q] /\ writes'[q] = writes[q]
          /\ rpc'[r] = "resent" /\ writes'[r] = writes[r] + 1
      BY <1>0, <3>1 DEF TypeOK
    <3>4. ASSUME NEW q \in Requests PROVE writes'[q] <= Written(q)'
      <4>1. CASE q # r
        BY <1>0, <2>2, <3>3, <4>1 DEF WritesInv, Written
      <4>2. writes[r] <= 2 * (try[r] - 1) + 1
        BY <1>0, <3>2 DEF WritesInv, Written
      <4>3. Written(r)' = 2 * (try[r] - 1) + 2
        BY <2>2, <3>2, <3>3 DEF Written
      <4>4. writes[r] \in 0 .. 4 /\ try[r] \in {1, 2}
        BY <1>0 DEF TypeOK
      <4>5. writes'[r] <= Written(r)'
        BY <3>3, <4>2, <4>3, <4>4
      <4> QED BY <4>1, <4>5
    <3> QED BY <3>4 DEF WritesInv
  <2> QED BY <1>8, <2>1, <2>2 DEF RecheckLost
<1>9. ASSUME NEW r \in Requests, TryAgain(r) PROVE WritesInv'
  <2>1. CASE MayTryAgain(r)
    <3>1. /\ RefreshThen(r, "refreshLeader", "call") /\ try' = [try EXCEPT ![r] = 2]
          /\ try[r] = 1 /\ rpc[r] = "failing" /\ UNCHANGED writes
      BY <1>9, <2>1 DEF TryAgain, MayTryAgain
    <3>2. "refreshLeader" \in RequestStates /\ "call" \in RequestStates
      BY DEF RequestStates
    <3>3. rpc' = [rpc EXCEPT ![r] = "refreshLeader"] \/ rpc' = [rpc EXCEPT ![r] = "call"]
      BY <1>0, <3>1, <3>2, ThenFacts
    <3>4. /\ \A q \in Requests \ {r} : rpc'[q] = rpc[q] /\ try'[q] = try[q]
          /\ Rank(rpc'[r]) = 0 /\ try'[r] = 2
      BY <1>0, <3>1, <3>3 DEF TypeOK, Rank
    <3>5. ASSUME NEW q \in Requests PROVE writes'[q] <= Written(q)'
      <4>1. CASE q # r
        BY <1>0, <3>1, <3>4, <4>1 DEF WritesInv, Written
      <4>2. writes[r] <= Written(r)
        BY <1>0 DEF WritesInv
      <4>3. Written(r) = 2
        BY <3>1 DEF Written, Rank
      <4>4. Written(r)' = 2
        BY <3>4 DEF Written
      <4> QED BY <3>1, <4>1, <4>2, <4>3, <4>4
    <3> QED BY <3>5 DEF WritesInv
  <2>2. CASE rpc' = [rpc EXCEPT ![r] = "rejected"] /\ UNCHANGED try
    <3>1. \A q \in Requests : Rank(rpc[q]) <= Rank(rpc'[q])
      BY <1>9, <1>0, <2>2 DEF TryAgain, TypeOK, Rank
    <3> QED BY <1>9, <1>0, <2>2, <3>1, WritesKept DEF TryAgain
  <2> QED BY <1>9, <2>1, <2>2 DEF TryAgain
<1>10. CASE \/ \E r \in Requests : RequestAnswered(r)
            \/ \E r \in Requests : RequestFails(r)
  <2>1. \A q \in Requests : Rank(rpc[q]) <= Rank(rpc'[q])
    BY <1>10, <1>0 DEF RequestAnswered, RequestFails, TypeOK, Rank
  <2> QED BY <1>10, <1>0, <2>1, WritesKept DEF RequestAnswered, RequestFails
<1>11. CASE \/ RefreshSend
            \/ RefreshRequestFails
            \/ \E B \in SUBSET Nodes, l \in Nodes \cup {NoNode} : RefreshAnswered(B, l)
            \/ \E n \in Nodes, P \in SUBSET Nodes : RefreshConnects(n, P)
            \/ \E n \in Nodes : RefreshSkips(n)
            \/ RefreshJoins
            \/ RefreshCannotJoin
            \/ TimerFires
            \/ \E c \in Connectors : Connect(c)
            \/ \E c \in Connectors : NextSeed(c)
            \/ \E c \in Connectors : FetchApiVersions(c)
            \/ \E c \in Connectors : ApiVersionsAnswered(c)
            \/ \E c \in Connectors : ApiVersionsFails(c)
            \/ \E i \in Seeds : SeedConnects(i)
            \/ UNCHANGED vars
  <2>1. UNCHANGED <<rpc, try, writes>>
    BY <1>11 DEF RefreshSend, RefreshRequestFails, RefreshAnswered, RefreshConnects,
       RefreshSkips,
       RefreshJoins, RefreshCannotJoin, TimerFires, Connect, NextSeed, FetchApiVersions,
       ApiVersionsAnswered, ApiVersionsFails, SeedConnects, vars, rvars,
       Ready, vars
  <2> QED BY <1>0, <2>1 DEF WritesInv, Written
<1> QED BY <1>1, <1>2, <1>3, <1>4, <1>5, <1>6, <1>7, <1>8, <1>9, <1>10, <1>11
       DEF Next, RefreshStep, ConnectorStep, RequestStep, SeedStep

\* What is lost is B, and all that waited on it goes on.
LEMMA LosingLive ==
    ASSUME TypeOK, SentOnLiveConnection, NEW B, NEW W, CallersLosing(B, W), UNCHANGED <<target, at>>,
           \A b : b \notin B /\ IsConnected(b) => IsConnected(b)'
    PROVE  SentOnLiveConnection'
<1>1. ASSUME NEW r \in Requests, rpc'[r] \in {"sent", "resent"}
      PROVE  IsConnected(target[r])'
  BY <1>1, LosingFacts DEF SentOnLiveConnection
<1>2. ASSUME NEW c \in Connectors, cpc'[c] = "api"
      PROVE  IsConnected(at[c])'
  BY <1>2, LosingFacts DEF SentOnLiveConnection
<1>3. refresh'.pc = "sent" => IsConnected(refresh.via)'
  BY LosingFacts DEF SentOnLiveConnection
<1> QED BY <1>1, <1>2, <1>3 DEF SentOnLiveConnection

\* Nobody waits on a connection that is not connected.
LEMMA LiveStep ==
    ASSUME IndInv, [Next]_vars
    PROVE  SentOnLiveConnection'
<1>0. TypeOK /\ AtInv /\ SentOnLiveConnection /\ RefreshIsOwned
  BY DEF IndInv
<1>1. CASE RefreshFails
  <2>1. refresh.by # Nobody
    BY <1>1, <1>0 DEF RefreshFails, RefreshIsOwned
  <2>2. \A r \in Requests : rpc'[r] \in {"sent", "resent"} => rpc[r] = rpc'[r]
    BY <1>1, <1>0, <2>1, ResumeFailedFacts DEF RefreshFails
  <2>3. \A c \in Connectors : cpc'[c] = "api" => cpc[c] = "api"
    BY <1>1, <1>0, <2>1, ResumeFailedFacts DEF RefreshFails
  <2> QED BY <1>1, <1>0, <2>2, <2>3 DEF RefreshFails, EndRefresh, NoRefresh,
      SentOnLiveConnection, IsConnected, seeds
<1>2. CASE RefreshDone
  <2>1. refresh.by # Nobody
    BY <1>2, <1>0 DEF RefreshDone, RefreshIsOwned
  <2>2. \A r \in Requests : rpc'[r] \in {"sent", "resent"} => rpc[r] = rpc'[r]
    BY <1>2, <1>0, <2>1, ResumeOkFacts DEF RefreshDone
  <2>3. \A c \in Connectors : cpc'[c] = "api" => cpc[c] = "api"
    BY <1>2, <1>0, <2>1, ResumeOkFacts DEF RefreshDone
  <2> QED BY <1>2, <1>0, <2>2, <2>3 DEF RefreshDone, EndRefresh, NoRefresh,
      SentOnLiveConnection, IsConnected, seeds
<1>3. CASE RefreshSend
  <2>1. /\ refresh'.via = refresh.via
        /\ refresh'.pc = "sent" => IsConnected(refresh.via)
    BY <1>3, <1>0 DEF RefreshSend, TypeOK
  <2> QED BY <1>3, <1>0, <2>1 DEF RefreshSend, SentOnLiveConnection, IsConnected, seeds,
      rvars, cvars
<1>4. ASSUME NEW n \in Nodes, RefreshRemoves(n) PROVE SentOnLiveConnection'
  <2>1. \A b : b \notin {n} /\ IsConnected(b) => IsConnected(b)'
    BY <1>4, <1>0, ClientAssumption DEF RefreshRemoves, IsConnected, TypeOK, seeds, MapInv,
       Brokers, NeedsConnection, InMap
  <2> QED BY <1>4, <1>0, <2>1, LosingLive DEF RefreshRemoves
<1>5. ASSUME NEW n \in Nodes, NodeLost(n) PROVE SentOnLiveConnection'
  <2>1. \A b : b \notin {n} /\ IsConnected(b) => IsConnected(b)'
    BY <1>5, <1>0, ClientAssumption DEF NodeLost, IsConnected, TypeOK, seeds, MapInv,
       Brokers, NeedsConnection, InMap
  <2> QED BY <1>5, <1>0, <2>1, LosingLive DEF NodeLost
<1>6. ASSUME NEW i \in Seeds, SeedEnds(i) PROVE SentOnLiveConnection'
  <2>1. \A b : b \notin {i} /\ IsConnected(b) => IsConnected(b)'
    BY <1>6, <1>0, ClientAssumption DEF SeedEnds, IsConnected, TypeOK, seeds, MapInv,
       Brokers, NeedsConnection, InMap
  <2> QED BY <1>6, <1>0, <2>1, LosingLive DEF SeedEnds
<1>7. CASE Close
  <2>1. \A b : b \notin Brokers /\ IsConnected(b) => IsConnected(b)'
    BY DEF IsConnected, Brokers
  <2> QED BY <1>7, <1>0, <2>1, LosingLive DEF Close
<1>8. ASSUME NEW i \in Seeds, SeedBreaks(i) PROVE SentOnLiveConnection'
  <2>1. ASSUME NEW W, CallersLosing({i}, W), seed' = [seed EXCEPT ![i] = "down"]
        PROVE  SentOnLiveConnection'
    <3>1. \A b : b \notin {i} /\ IsConnected(b) => IsConnected(b)'
      BY <1>8, <1>0, <2>1 DEF SeedBreaks, IsConnected, TypeOK
    <3> QED BY <1>8, <1>0, <2>1, <3>1, LosingLive DEF SeedBreaks
  <2>2. CASE UNCHANGED <<seeds, cpc, rpc, refresh>>
    BY <1>8, <1>0, <2>2 DEF SeedBreaks, seeds, SentOnLiveConnection, IsConnected
  <2> QED BY <1>8, <2>1, <2>2 DEF SeedBreaks
<1>9. ASSUME NEW r \in Requests, Call(r) PROVE SentOnLiveConnection'
  <2>1. CASE RefreshThen(r, "refresh", "recheck")
    <3>1. "refresh" \in RequestStates /\ "recheck" \in RequestStates
      BY DEF RequestStates
    <3>2. /\ \A k \in Seeds : seed[k] = "up" => seed'[k] = "up"
          /\ \/ refresh' = refresh /\ rpc' = [rpc EXCEPT ![r] = "recheck"]
             \/ /\ refresh'.pc = "sent" => IsConnected(refresh'.via)
                /\ rpc' = [rpc EXCEPT ![r] = "refresh"]
      BY <1>0, <2>1, <3>1, ThenFacts
    <3>3. /\ \A b : IsConnected(b) => IsConnected(b)'
          /\ (refresh.pc = "sent" => IsConnected(refresh.via))'
      BY <1>9, <1>0, <3>2 DEF Call, IsConnected, SentOnLiveConnection
    <3>4. ASSUME NEW q \in Requests, rpc'[q] \in {"sent", "resent"}
          PROVE  q # r /\ rpc[q] = rpc'[q]
      BY <1>0, <3>2, <3>4 DEF TypeOK
    <3> QED BY <1>9, <1>0, <3>3, <3>4 DEF Call, SentOnLiveConnection, cvars
  <2>2. CASE (rpc' = [rpc EXCEPT ![r] = "failing"] \/ (Write(r,
       "sent") /\ IsConnected(leader))) /\ NoRefreshBy
    <3>1. UNCHANGED <<refresh, conn, seed, cpc, at>> /\ target' = [target EXCEPT ![r] = leader]
      BY <1>9, <2>2 DEF Call, NoRefreshBy, seeds, cvars
    <3>2. \A b : IsConnected(b)' = IsConnected(b)
      BY <3>1 DEF IsConnected
    <3>3. ASSUME NEW q \in Requests, rpc'[q] \in {"sent",
         "resent"} PROVE IsConnected(target'[q])
      BY <1>0, <2>2, <3>1, <3>3 DEF SentOnLiveConnection, TypeOK, Write
    <3> QED BY <1>0, <3>1, <3>2, <3>3 DEF SentOnLiveConnection
  <2> QED BY <1>9, <2>1, <2>2 DEF Call
<1>10. ASSUME NEW r \in Requests, RequestLost(r) PROVE SentOnLiveConnection'
  <2>1. CASE RefreshThen(r, "refreshLost", "recheckLost")
    <3>1. "refreshLost" \in RequestStates /\ "recheckLost" \in RequestStates
      BY DEF RequestStates
    <3>2. /\ \A k \in Seeds : seed[k] = "up" => seed'[k] = "up"
          /\ \/ refresh' = refresh /\ rpc' = [rpc EXCEPT ![r] = "recheckLost"]
             \/ /\ refresh'.pc = "sent" => IsConnected(refresh'.via)
                /\ rpc' = [rpc EXCEPT ![r] = "refreshLost"]
      BY <1>0, <2>1, <3>1, ThenFacts
    <3>3. /\ \A b : IsConnected(b) => IsConnected(b)'
          /\ (refresh.pc = "sent" => IsConnected(refresh.via))'
      BY <1>10, <1>0, <3>2 DEF RequestLost, IsConnected, SentOnLiveConnection
    <3>4. ASSUME NEW q \in Requests, rpc'[q] \in {"sent", "resent"}
          PROVE  q # r /\ rpc[q] = rpc'[q]
      BY <1>0, <3>2, <3>4 DEF TypeOK
    <3> QED BY <1>10, <1>0, <3>3, <3>4 DEF RequestLost, SentOnLiveConnection, cvars
  <2>2. CASE rpc' = [rpc EXCEPT ![r] = "failing"] /\ NoRefreshBy
    BY <1>10, <1>0, <2>2 DEF RequestLost, NoRefreshBy, seeds, SentOnLiveConnection, TypeOK,
       IsConnected, cvars, Write
  <2> QED BY <1>10, <2>1, <2>2 DEF RequestLost
<1>11. ASSUME NEW r \in Requests, TryAgain(r) PROVE SentOnLiveConnection'
  <2>1. CASE RefreshThen(r, "refreshLeader", "call")
    <3>1. "refreshLeader" \in RequestStates /\ "call" \in RequestStates
      BY DEF RequestStates
    <3>2. /\ \A k \in Seeds : seed[k] = "up" => seed'[k] = "up"
          /\ \/ refresh' = refresh /\ rpc' = [rpc EXCEPT ![r] = "call"]
             \/ /\ refresh'.pc = "sent" => IsConnected(refresh'.via)
                /\ rpc' = [rpc EXCEPT ![r] = "refreshLeader"]
      BY <1>0, <2>1, <3>1, ThenFacts
    <3>3. /\ \A b : IsConnected(b) => IsConnected(b)'
          /\ (refresh.pc = "sent" => IsConnected(refresh.via))'
      BY <1>11, <1>0, <3>2 DEF TryAgain, IsConnected, SentOnLiveConnection
    <3>4. ASSUME NEW q \in Requests, rpc'[q] \in {"sent", "resent"}
          PROVE  q # r /\ rpc[q] = rpc'[q]
      BY <1>0, <3>2, <3>4 DEF TypeOK
    <3> QED BY <1>11, <1>0, <3>3, <3>4 DEF TryAgain, SentOnLiveConnection, cvars
  <2>2. CASE rpc' = [rpc EXCEPT ![r] = "rejected"] /\ NoRefreshBy
    BY <1>11, <1>0, <2>2 DEF TryAgain, NoRefreshBy, seeds, SentOnLiveConnection, TypeOK,
       IsConnected, cvars, Write
  <2> QED BY <1>11, <2>1, <2>2 DEF TryAgain
<1>12. ASSUME NEW r \in Requests, Recheck(r) PROVE SentOnLiveConnection'
  BY <1>12, <1>0 DEF Recheck, NoRefreshBy, Write, seeds, SentOnLiveConnection, TypeOK,
     IsConnected, cvars
<1>13. ASSUME NEW r \in Requests, RecheckLost(r) PROVE SentOnLiveConnection'
  BY <1>13, <1>0 DEF RecheckLost, NoRefreshBy, Write, seeds, SentOnLiveConnection, TypeOK,
     IsConnected, cvars
<1>14. CASE TimerFires
  <2>1. /\ refresh'.pc = "sent" => IsConnected(refresh'.via)
        /\ \A k \in Seeds : seed[k] = "up" => seed'[k] = "up"
    BY <1>14, <1>0, BeginFacts DEF TimerFires, Callers
  <2>2. /\ \A b : IsConnected(b) => IsConnected(b)'
        /\ (refresh.pc = "sent" => IsConnected(refresh.via))'
    BY <1>14, <1>0, <2>1 DEF TimerFires, IsConnected
  <2> QED BY <1>14, <1>0, <2>2 DEF TimerFires, SentOnLiveConnection, rvars, cvars
<1>15. ASSUME NEW c \in Connectors, ApiVersionsAnswered(c) PROVE SentOnLiveConnection'
  <2>1. CASE isRefreshingMetadata
    BY <1>15, <1>0, <2>1 DEF ApiVersionsAnswered, Ready, rvars, seeds, SentOnLiveConnection,
       TypeOK, IsConnected
  <2>2. CASE ~isRefreshingMetadata
    <3>0. at[c] \in Seeds
      BY <1>15, <1>0 DEF ApiVersionsAnswered, AtInv
    <3>1. /\ refresh'.pc = "sent" => IsConnected(refresh'.via)
          /\ \A k \in Seeds : seed[k] = "up" => seed'[k] = "up"
      BY <1>15, <1>0, <2>2, <3>0, BeginFacts DEF ApiVersionsAnswered, Callers
    <3>2. /\ \A b : IsConnected(b) => IsConnected(b)'
          /\ (refresh.pc = "sent" => IsConnected(refresh.via))'
      BY <1>15, <1>0, <3>1 DEF ApiVersionsAnswered, IsConnected
    <3>3. cpc' = [cpc EXCEPT ![c] = "refresh"]
      BY <1>15, <2>2 DEF ApiVersionsAnswered
    <3>4. \A d \in Connectors : cpc'[d] = "api" => cpc[d] = "api"
      BY <1>0, <3>3 DEF TypeOK
    <3> QED BY <1>15, <1>0, <3>2, <3>4 DEF ApiVersionsAnswered, SentOnLiveConnection, rvars
  <2> QED BY <2>1, <2>2
<1>16. ASSUME NEW c \in Connectors, Connect(c) PROVE SentOnLiveConnection'
  <2>1. CASE TrySeed(c, 1)
    <3> DEFINE i == 1
    <3>1. i \in 1 .. NumSeeds + 1 /\ TrySeed(c, i)
      BY <2>1, ClientAssumption
    <3> HIDE DEF i
    <3>2. /\ at' = [at EXCEPT ![c] = i]
          /\ \A k \in Seeds : seed[k] = "up" => seed'[k] = "up"
          /\ \E s \in {"failed", "seedUp", "seed", "try"} : cpc' = [cpc EXCEPT ![c] = s]
      BY <1>0, <3>1, TryFacts
    <3>3. \A b : IsConnected(b) => IsConnected(b)'
      BY <1>16, <1>0, <3>2 DEF Connect, IsConnected
    <3>4. \A d \in Connectors : cpc'[d] = "api" => cpc[d] = "api" /\ at'[d] = at[d]
      BY <1>0, <3>2 DEF TypeOK
    <3> QED BY <1>16, <1>0, <3>3, <3>4 DEF Connect, SentOnLiveConnection, rvars
  <2>2. CASE /\ cpc' = [cpc EXCEPT ![c] = "ready"] \/ cpc' = [cpc EXCEPT ![c] = "failed"]
             /\ UNCHANGED <<at, seeds>>
    BY <1>16, <1>0, <2>2 DEF Connect, SentOnLiveConnection, TypeOK, IsConnected, seeds,
       rvars
  <2> QED BY <1>16, <2>1, <2>2 DEF Connect
<1>17. ASSUME NEW c \in Connectors, NextSeed(c) PROVE SentOnLiveConnection'
  <2> DEFINE i == at[c] + 1
  <2>1. i \in 1 .. NumSeeds + 1 /\ TrySeed(c, i)
    BY <1>17, <1>0, ClientAssumption DEF NextSeed, AtInv, Seeds
  <2> HIDE DEF i
  <2>2. /\ at' = [at EXCEPT ![c] = i]
        /\ \A k \in Seeds : seed[k] = "up" => seed'[k] = "up"
        /\ \E s \in {"failed", "seedUp", "seed", "try"} : cpc' = [cpc EXCEPT ![c] = s]
    BY <1>0, <2>1, TryFacts
  <2>3. \A b : IsConnected(b) => IsConnected(b)'
    BY <1>17, <1>0, <2>2 DEF NextSeed, IsConnected
  <2>4. \A d \in Connectors : cpc'[d] = "api" => cpc[d] = "api" /\ at'[d] = at[d]
    BY <1>0, <2>2 DEF TypeOK
  <2> QED BY <1>17, <1>0, <2>3, <2>4 DEF NextSeed, SentOnLiveConnection, rvars
<1>18. ASSUME NEW i \in Seeds, SeedConnects(i) PROVE SentOnLiveConnection'
  <2>1. \A b : IsConnected(b) => IsConnected(b)'
    BY <1>18, <1>0 DEF SeedConnects, IsConnected, TypeOK
  <2>2. /\ \A c \in Connectors : cpc'[c] = "api" => cpc[c] = "api"
        /\ refresh'.pc = "sent" => refresh.pc = "sent" /\ refresh'.via = refresh.via
    BY <1>18, <1>0 DEF SeedConnects, TypeOK
  <2> QED BY <1>18, <1>0, <2>1, <2>2 DEF SeedConnects, SentOnLiveConnection, rvars
<1>19. CASE RefreshJoins
  <2>1. \A b : IsConnected(b) => IsConnected(b)'
    BY <1>19, <1>0 DEF RefreshJoins, IsConnected, TypeOK, seeds
  <2>2. refresh'.pc = "update"
    BY <1>19, <1>0 DEF RefreshJoins, TypeOK
  <2> QED BY <1>19, <1>0, <2>1, <2>2 DEF RefreshJoins, SentOnLiveConnection, rvars, cvars
<1>20. CASE \/ RefreshRequestFails
            \/ \E B \in SUBSET Nodes, l \in Nodes \cup {NoNode} : RefreshAnswered(B, l)
            \/ \E n \in Nodes, P \in SUBSET Nodes : RefreshConnects(n, P)
  <2>0. refresh \in Refreshes
    BY <1>0, TypeParts DEF CallersOK
  <2>1. refresh'.pc # "sent"
    BY <1>20, <2>0 DEF RefreshRequestFails, RefreshAnswered, RefreshConnects, Refreshes
  <2> QED BY <1>20, <1>0, <2>1 DEF RefreshRequestFails, RefreshAnswered, RefreshConnects,
      SentOnLiveConnection, IsConnected, seeds, rvars, cvars
<1>21. CASE \/ \E c \in Connectors : FetchApiVersions(c)
            \/ \E c \in Connectors : ApiVersionsFails(c)
  BY <1>21, <1>0 DEF FetchApiVersions, ApiVersionsFails, SentOnLiveConnection, IsConnected,
     TypeOK, seeds, rvars
<1>22. CASE \/ \E r \in Requests : RequestAnswered(r)
            \/ \E r \in Requests : RequestFails(r)
  BY <1>22, <1>0 DEF RequestAnswered, RequestFails, SentOnLiveConnection, IsConnected,
     TypeOK, seeds, cvars
<1>23. CASE \/ RefreshCannotJoin
            \/ UNCHANGED vars
  BY <1>23, <1>0 DEF RefreshCannotJoin, vars, SentOnLiveConnection, IsConnected, seeds,
     rvars, cvars
<1>24. ASSUME NEW n \in Nodes, RefreshSkips(n) PROVE SentOnLiveConnection'
  <2>1. refresh'.pc # "sent"
    BY <1>24, <1>0 DEF RefreshSkips, TypeOK
  <2> QED BY <1>24, <1>0, <2>1 DEF RefreshSkips, SentOnLiveConnection, IsConnected, seeds,
      rvars, cvars
<1> QED BY <1>1, <1>2, <1>3, <1>4, <1>5, <1>6, <1>7, <1>8, <1>9, <1>10, <1>11, <1>12, <1>13,
    <1>14, <1>15, <1>16, <1>17, <1>18, <1>19, <1>20, <1>21, <1>22, <1>23, <1>24
       DEF Next, RefreshStep, ConnectorStep, RequestStep, SeedStep

\* Nobody begins or ends to await a refresh, and none begins or ends.
LEMMA OwnedKept ==
    ASSUME RefreshIsOwned, UNCHANGED isRefreshingMetadata,
           refresh'.by = refresh.by, refresh'.pc = "idle" <=> refresh.pc = "idle",
           \A r \in Requests : rpc'[r] \in {"refresh", "refreshLost", "refreshLeader"}
                                   <=> rpc[r] \in {"refresh", "refreshLost", "refreshLeader"},
           \A c \in Connectors : cpc'[c] = "refresh" <=> cpc[c] = "refresh"
    PROVE  RefreshIsOwned'
  BY DEF RefreshIsOwned, WaitingForRefresh

\* A caller begins a refresh of its own, where there was none.
LEMMA OwnedBegins ==
    ASSUME RefreshIsOwned, NEW p \in Callers, ~isRefreshingMetadata,
           isRefreshingMetadata', refresh'.by = p, refresh'.pc # "idle",
           \A r \in Requests : rpc'[r] \in {"refresh", "refreshLost", "refreshLeader"}
               <=> (r = p \/ rpc[r] \in {"refresh", "refreshLost", "refreshLeader"}),
           \A c \in Connectors : cpc'[c] = "refresh" <=> (c = p \/ cpc[c] = "refresh")
    PROVE  RefreshIsOwned'
  BY ClientAssumption DEF RefreshIsOwned, WaitingForRefresh, Callers

\* Who awaits the refresh that runs.
LEMMA OwnedStep ==
    ASSUME IndInv, [Next]_vars
    PROVE  RefreshIsOwned'
<1>0. TypeOK /\ RefreshIsOwned /\ TimerSurvives
  BY DEF IndInv
<1>1. CASE RefreshFails
  <2>1. refresh.by # Nobody
    BY <1>1, <1>0 DEF RefreshFails, RefreshIsOwned
  <2>2. /\ \A r \in Requests : rpc'[r] \notin {"refresh", "refreshLost", "refreshLeader"}
        /\ \A c \in Connectors : cpc'[c] # "refresh"
    BY <1>1, <1>0, <2>1, ResumeFailedFacts, ClientAssumption DEF RefreshFails,
       RefreshIsOwned, WaitingForRefresh
  <2>3. ~isRefreshingMetadata' /\ refresh'.by = Nobody /\ refresh'.pc = "idle"
    BY <1>1 DEF RefreshFails, EndRefresh, NoRefresh
  <2> QED BY <2>2, <2>3, ClientAssumption DEF RefreshIsOwned, WaitingForRefresh
<1>2. CASE RefreshDone
  <2>1. refresh.by # Nobody
    BY <1>2, <1>0 DEF RefreshDone, RefreshIsOwned
  <2>2. /\ \A r \in Requests : rpc'[r] \notin {"refresh", "refreshLost", "refreshLeader"}
        /\ \A c \in Connectors : cpc'[c] # "refresh"
    BY <1>2, <1>0, <2>1, ResumeOkFacts, ClientAssumption DEF RefreshDone, RefreshIsOwned,
       WaitingForRefresh
  <2>3. ~isRefreshingMetadata' /\ refresh'.by = Nobody /\ refresh'.pc = "idle"
    BY <1>2 DEF RefreshDone, EndRefresh, NoRefresh
  <2> QED BY <2>2, <2>3, ClientAssumption DEF RefreshIsOwned, WaitingForRefresh
<1>3. CASE TimerFires
  <2>1. /\ ~isRefreshingMetadata /\ isRefreshingMetadata'
        /\ refresh'.by = Timer /\ refresh'.pc # "idle"
    BY <1>3, <1>0, BeginFacts DEF TimerFires, Callers
  <2> QED BY <1>3, <1>0, <2>1, OwnedBegins, ClientAssumption DEF TimerFires, Callers, rvars,
      cvars
<1>4. ASSUME NEW c \in Connectors, ApiVersionsAnswered(c) PROVE RefreshIsOwned'
  <2>1. CASE isRefreshingMetadata
    BY <1>4, <1>0, <2>1, OwnedKept DEF ApiVersionsAnswered, Ready, TypeOK, rvars
  <2>2. CASE ~isRefreshingMetadata
    <3>1. at[c] \in Seeds
      BY <1>4 DEF ApiVersionsAnswered, IndInv, AtInv
    <3>2. /\ isRefreshingMetadata' /\ refresh'.by = c /\ refresh'.pc # "idle"
      BY <1>4, <1>0, <2>2, <3>1, BeginFacts DEF ApiVersionsAnswered, Callers
    <3>3. cpc' = [cpc EXCEPT ![c] = "refresh"] /\ UNCHANGED rpc
      BY <1>4, <2>2 DEF ApiVersionsAnswered, rvars
    <3> QED BY <1>0, <2>2, <3>2, <3>3, OwnedBegins, ClientAssumption DEF TypeOK, Callers
  <2> QED BY <2>1, <2>2
<1>5. ASSUME NEW c \in Connectors, Connect(c) PROVE RefreshIsOwned'
  <2>1. CASE TrySeed(c, 1)
    <3>0. 1 \in 1 .. NumSeeds + 1
      BY ClientAssumption
    <3>1. \E s \in {"failed", "seedUp", "seed", "try"} : cpc' = [cpc EXCEPT ![c] = s]
      BY <1>0, <2>1, <3>0, TryFacts
    <3> QED BY <1>5, <1>0, <3>1, OwnedKept DEF Connect, TypeOK, rvars
  <2>2. CASE \E s \in {"failed", "ready"} : cpc' = [cpc EXCEPT ![c] = s]
    BY <1>5, <1>0, <2>2, OwnedKept DEF Connect, TypeOK, rvars
  <2> QED BY <1>5, <2>1, <2>2 DEF Connect
<1>6. ASSUME NEW c \in Connectors, NextSeed(c) PROVE RefreshIsOwned'
  <2>1. at[c] + 1 \in 1 .. NumSeeds + 1
    BY <1>6, ClientAssumption DEF NextSeed, IndInv, AtInv, Seeds
  <2>2. \E s \in {"failed", "seedUp", "seed", "try"} : cpc' = [cpc EXCEPT ![c] = s]
    BY <1>6, <1>0, <2>1, TryFacts DEF NextSeed
  <2> QED BY <1>6, <1>0, <2>2, OwnedKept DEF NextSeed, TypeOK, rvars
<1>7. ASSUME NEW r \in Requests, Call(r) PROVE RefreshIsOwned'
  <2>1. CASE RefreshThen(r, "refresh", "recheck")
    <3>1. "refresh" \in RequestStates /\ "recheck" \in RequestStates
      BY DEF RequestStates
    <3>2. UNCHANGED cpc /\ rpc[r] \notin {"refresh", "refreshLost", "refreshLeader"}
      BY <1>7 DEF Call, cvars
    <3>3. CASE /\ isRefreshingMetadata /\ isRefreshingMetadata' /\ refresh' = refresh
               /\ rpc' = [rpc EXCEPT ![r] = "recheck"]
      BY <1>0, <3>2, <3>3, OwnedKept DEF TypeOK
    <3>4. CASE /\ ~isRefreshingMetadata /\ isRefreshingMetadata'
               /\ refresh'.by = r /\ refresh'.pc # "idle"
               /\ rpc' = [rpc EXCEPT ![r] = "refresh"]
      BY <1>0, <3>2, <3>4, OwnedBegins, ClientAssumption DEF TypeOK, Callers
    <3> QED BY <1>0, <2>1, <3>1, <3>3, <3>4, ThenFacts
  <2>2. CASE (rpc' = [rpc EXCEPT ![r] = "failing"] \/ Write(r, "sent")) /\ NoRefreshBy
    BY <1>7, <1>0, <2>2, OwnedKept DEF Call, NoRefreshBy, Write, TypeOK, cvars
  <2> QED BY <1>7, <2>1, <2>2 DEF Call
<1>8. ASSUME NEW r \in Requests, RequestLost(r) PROVE RefreshIsOwned'
  <2>1. CASE RefreshThen(r, "refreshLost", "recheckLost")
    <3>1. "refreshLost" \in RequestStates /\ "recheckLost" \in RequestStates
      BY DEF RequestStates
    <3>2. UNCHANGED cpc /\ rpc[r] \notin {"refresh", "refreshLost", "refreshLeader"}
      BY <1>8 DEF RequestLost, cvars
    <3>3. CASE /\ isRefreshingMetadata /\ isRefreshingMetadata' /\ refresh' = refresh
               /\ rpc' = [rpc EXCEPT ![r] = "recheckLost"]
      BY <1>0, <3>2, <3>3, OwnedKept DEF TypeOK
    <3>4. CASE /\ ~isRefreshingMetadata /\ isRefreshingMetadata'
               /\ refresh'.by = r /\ refresh'.pc # "idle"
               /\ rpc' = [rpc EXCEPT ![r] = "refreshLost"]
      BY <1>0, <3>2, <3>4, OwnedBegins, ClientAssumption DEF TypeOK, Callers
    <3> QED BY <1>0, <2>1, <3>1, <3>3, <3>4, ThenFacts
  <2>2. CASE rpc' = [rpc EXCEPT ![r] = "failing"] /\ NoRefreshBy
    BY <1>8, <1>0, <2>2, OwnedKept DEF RequestLost, NoRefreshBy, Write, TypeOK, cvars
  <2> QED BY <1>8, <2>1, <2>2 DEF RequestLost
<1>9. ASSUME NEW r \in Requests, TryAgain(r) PROVE RefreshIsOwned'
  <2>1. CASE RefreshThen(r, "refreshLeader", "call")
    <3>1. "refreshLeader" \in RequestStates /\ "call" \in RequestStates
      BY DEF RequestStates
    <3>2. UNCHANGED cpc /\ rpc[r] \notin {"refresh", "refreshLost", "refreshLeader"}
      BY <1>9 DEF TryAgain, cvars
    <3>3. CASE /\ isRefreshingMetadata /\ isRefreshingMetadata' /\ refresh' = refresh
               /\ rpc' = [rpc EXCEPT ![r] = "call"]
      BY <1>0, <3>2, <3>3, OwnedKept DEF TypeOK
    <3>4. CASE /\ ~isRefreshingMetadata /\ isRefreshingMetadata'
               /\ refresh'.by = r /\ refresh'.pc # "idle"
               /\ rpc' = [rpc EXCEPT ![r] = "refreshLeader"]
      BY <1>0, <3>2, <3>4, OwnedBegins, ClientAssumption DEF TypeOK, Callers
    <3> QED BY <1>0, <2>1, <3>1, <3>3, <3>4, ThenFacts
  <2>2. CASE rpc' = [rpc EXCEPT ![r] = "rejected"] /\ NoRefreshBy
    BY <1>9, <1>0, <2>2, OwnedKept DEF TryAgain, NoRefreshBy, Write, TypeOK, cvars
  <2> QED BY <1>9, <2>1, <2>2 DEF TryAgain
<1>10. CASE \/ \E r \in Requests : Recheck(r)
            \/ \E r \in Requests : RecheckLost(r)
  BY <1>10, <1>0, OwnedKept DEF Recheck, RecheckLost, NoRefreshBy, Write, TypeOK, cvars
<1>11. CASE \/ \E r \in Requests : RequestAnswered(r)
            \/ \E r \in Requests : RequestFails(r)
  BY <1>11, <1>0, OwnedKept DEF RequestAnswered, RequestFails, TypeOK, cvars
<1>12. CASE \/ \E n \in Nodes : RefreshRemoves(n)
            \/ Close
            \/ \E i \in Seeds : SeedEnds(i)
            \/ \E n \in Nodes : NodeLost(n)
  <2>1. (\E B, W : CallersLosing(B, W)) /\ UNCHANGED isRefreshingMetadata
    BY <1>12 DEF RefreshRemoves, Close, SeedEnds, NodeLost
  <2>2. /\ \A q \in Requests : rpc'[q] \in {"refresh", "refreshLost", "refreshLeader"}
                                    <=> rpc[q] \in {"refresh", "refreshLost", "refreshLeader"}
        /\ \A d \in Connectors : cpc'[d] = "refresh" <=> cpc[d] = "refresh"
        /\ refresh'.by = refresh.by /\ (refresh'.pc = "idle" <=> refresh.pc = "idle")
    BY <1>0, <2>1, LosingFacts
  <2> QED BY <1>0, <2>1, <2>2, OwnedKept
<1>13. ASSUME NEW i \in Seeds, SeedBreaks(i) PROVE RefreshIsOwned'
  <2>1. (\E W : CallersLosing({i}, W)) \/ UNCHANGED <<cpc, rpc, refresh>>
    BY <1>13 DEF SeedBreaks
  <2>2. /\ \A q \in Requests : rpc'[q] \in {"refresh", "refreshLost", "refreshLeader"}
                                    <=> rpc[q] \in {"refresh", "refreshLost", "refreshLeader"}
        /\ \A d \in Connectors : cpc'[d] = "refresh" <=> cpc[d] = "refresh"
        /\ refresh'.by = refresh.by /\ (refresh'.pc = "idle" <=> refresh.pc = "idle")
    BY <1>0, <2>1, LosingFacts
  <2> QED BY <1>13, <1>0, <2>2, OwnedKept DEF SeedBreaks
<1>14. CASE \/ \E c \in Connectors : FetchApiVersions(c)
            \/ \E c \in Connectors : ApiVersionsFails(c)
  BY <1>14, <1>0, OwnedKept DEF FetchApiVersions, ApiVersionsFails, TypeOK, rvars
<1>15. CASE RefreshSend
  <2>1. UNCHANGED <<rpc, cpc, isRefreshingMetadata>>
    BY <1>15 DEF RefreshSend, rvars, cvars
  <2>2. refresh'.by = refresh.by /\ refresh'.pc # "idle" /\ refresh.pc # "idle"
    BY <1>15, <1>0 DEF RefreshSend, TypeOK
  <2> QED BY <1>0, <2>1, <2>2, OwnedKept
<1>16. CASE RefreshRequestFails
  <2>1. UNCHANGED <<rpc, cpc, isRefreshingMetadata>>
    BY <1>16 DEF RefreshRequestFails, rvars, cvars
  <2>2. refresh'.by = refresh.by /\ refresh'.pc # "idle" /\ refresh.pc # "idle"
    BY <1>16, <1>0 DEF RefreshRequestFails, TypeOK
  <2> QED BY <1>0, <2>1, <2>2, OwnedKept
<1>17. ASSUME NEW B \in SUBSET Nodes, NEW l \in Nodes \cup {NoNode}, RefreshAnswered(B, l)
       PROVE RefreshIsOwned'
  <2>1. UNCHANGED <<rpc, cpc, isRefreshingMetadata>>
    BY <1>17 DEF RefreshAnswered, rvars, cvars
  <2>2. refresh'.by = refresh.by /\ refresh'.pc # "idle" /\ refresh.pc # "idle"
    BY <1>17, <1>0 DEF RefreshAnswered, TypeOK
  <2> QED BY <1>0, <2>1, <2>2, OwnedKept
<1>18. ASSUME NEW n \in Nodes, NEW P \in SUBSET Nodes, RefreshConnects(n,
     P) PROVE RefreshIsOwned'
  <2>1. UNCHANGED <<rpc, cpc, isRefreshingMetadata>>
    BY <1>18 DEF RefreshConnects, rvars, cvars
  <2>2. refresh'.by = refresh.by /\ refresh'.pc # "idle" /\ refresh.pc # "idle"
    BY <1>18, <1>0 DEF RefreshConnects, TypeOK
  <2> QED BY <1>0, <2>1, <2>2, OwnedKept
<1>19. CASE RefreshJoins
  <2>1. UNCHANGED <<rpc, cpc, isRefreshingMetadata>>
    BY <1>19 DEF RefreshJoins, rvars, cvars
  <2>2. refresh'.by = refresh.by /\ refresh'.pc # "idle" /\ refresh.pc # "idle"
    BY <1>19, <1>0 DEF RefreshJoins, TypeOK
  <2> QED BY <1>0, <2>1, <2>2, OwnedKept
<1>20. ASSUME NEW i \in Seeds, SeedConnects(i) PROVE RefreshIsOwned'
  <2>1. UNCHANGED <<rpc, isRefreshingMetadata>>
    BY <1>20 DEF SeedConnects, rvars
  <2>2. \A d \in Connectors : cpc'[d] = "refresh" <=> cpc[d] = "refresh"
    BY <1>20, <1>0 DEF SeedConnects, TypeOK
  <2>3. refresh'.by = refresh.by /\ (refresh'.pc = "idle" <=> refresh.pc = "idle")
    BY <1>20, <1>0 DEF SeedConnects, TypeOK
  <2> QED BY <1>0, <2>1, <2>2, <2>3, OwnedKept
<1>21. CASE \/ RefreshCannotJoin
            \/ UNCHANGED vars
  <2>1. UNCHANGED <<rpc, cpc, refresh, isRefreshingMetadata>>
    BY <1>21 DEF RefreshCannotJoin, vars, rvars, cvars, vars
  <2> QED BY <1>0, <2>1, OwnedKept
<1>22. ASSUME NEW n \in Nodes, RefreshSkips(n) PROVE RefreshIsOwned'
  <2>1. UNCHANGED <<rpc, cpc, isRefreshingMetadata>>
    BY <1>22 DEF RefreshSkips, rvars, cvars
  <2>2. refresh'.by = refresh.by /\ refresh'.pc # "idle" /\ refresh.pc # "idle"
    BY <1>22, <1>0 DEF RefreshSkips, TypeOK
  <2> QED BY <1>0, <2>1, <2>2, OwnedKept
<1> QED BY <1>1, <1>2, <1>3, <1>4, <1>5, <1>6, <1>7, <1>8, <1>9, <1>10, <1>11, <1>12, <1>13,
    <1>14, <1>15, <1>16, <1>17, <1>18, <1>19, <1>20, <1>21, <1>22
       DEF Next, RefreshStep, ConnectorStep, RequestStep, SeedStep

\* The timer is armed again.
LEMMA TimerStep ==
    ASSUME IndInv, [Next]_vars
    PROVE  TimerSurvives'
<1>0. TypeOK /\ RefreshIsOwned /\ TimerSurvives
  BY DEF IndInv
<1>1. CASE RefreshFails
  <2>1. refresh.by # Nobody
    BY <1>1, <1>0 DEF RefreshFails, RefreshIsOwned
  <2>2. \/ metadataRefreshTimer' = AutoRefresh
        \/ UNCHANGED metadataRefreshTimer /\ refresh.by # Timer
    BY <1>1, <1>0, <2>1, ResumeFailedFacts DEF RefreshFails
  <2> QED BY <1>1, <1>0, <2>2 DEF RefreshFails, TimerSurvives, flags
<1>2. CASE RefreshDone
  <2>1. refresh.by # Nobody
    BY <1>2, <1>0 DEF RefreshDone, RefreshIsOwned
  <2>2. \/ metadataRefreshTimer' = AutoRefresh
        \/ UNCHANGED <<isInitialized, metadataRefreshTimer>> /\ refresh.by # Timer
    BY <1>2, <1>0, <2>1, ResumeOkFacts DEF RefreshDone
  <2> QED BY <1>2, <1>0, <2>2 DEF RefreshDone, TimerSurvives
<1>3. CASE TimerFires
  <2>1. refresh'.by = Timer
    BY <1>3, <1>0, BeginFacts DEF TimerFires, Callers
  <2> QED BY <2>1 DEF TimerSurvives
<1>4. CASE Close
  BY <1>4 DEF Close, TimerSurvives
<1>5. ASSUME NEW c \in Connectors, ApiVersionsAnswered(c) PROVE TimerSurvives'
  <2>1. CASE isRefreshingMetadata
    BY <1>5, <2>1 DEF ApiVersionsAnswered, Ready, startMetadataRefreshTimer, TimerSurvives
  <2>2. CASE ~isRefreshingMetadata
    BY <1>5, <1>0, <2>2, ClientAssumption DEF ApiVersionsAnswered, TimerSurvives,
       RefreshIsOwned
  <2> QED BY <2>1, <2>2
<1>6. ASSUME NEW r \in Requests, Call(r) PROVE TimerSurvives'
  <2>1. CASE RefreshThen(r, "refresh", "recheck")
    <3>1. "refresh" \in RequestStates /\ "recheck" \in RequestStates
      BY DEF RequestStates
    <3>2. refresh' = refresh \/ ~isRefreshingMetadata
      BY <1>0, <2>1, <3>1, ThenFacts
    <3> QED BY <1>6, <1>0, <3>2, ClientAssumption DEF Call, TimerSurvives,
        RefreshIsOwned, flags
  <2>2. CASE UNCHANGED refresh
    BY <1>6, <1>0, <2>2 DEF Call, TimerSurvives, flags
  <2> QED BY <1>6, <2>1, <2>2 DEF Call, NoRefreshBy
<1>7. ASSUME NEW r \in Requests, RequestLost(r) PROVE TimerSurvives'
  <2>1. CASE RefreshThen(r, "refreshLost", "recheckLost")
    <3>1. "refreshLost" \in RequestStates /\ "recheckLost" \in RequestStates
      BY DEF RequestStates
    <3>2. refresh' = refresh \/ ~isRefreshingMetadata
      BY <1>0, <2>1, <3>1, ThenFacts
    <3> QED BY <1>7, <1>0, <3>2, ClientAssumption DEF RequestLost, TimerSurvives,
        RefreshIsOwned, flags
  <2>2. CASE UNCHANGED refresh
    BY <1>7, <1>0, <2>2 DEF RequestLost, TimerSurvives, flags
  <2> QED BY <1>7, <2>1, <2>2 DEF RequestLost, NoRefreshBy
<1>8. ASSUME NEW r \in Requests, TryAgain(r) PROVE TimerSurvives'
  <2>1. CASE RefreshThen(r, "refreshLeader", "call")
    <3>1. "refreshLeader" \in RequestStates /\ "call" \in RequestStates
      BY DEF RequestStates
    <3>2. refresh' = refresh \/ ~isRefreshingMetadata
      BY <1>0, <2>1, <3>1, ThenFacts
    <3> QED BY <1>8, <1>0, <3>2, ClientAssumption DEF TryAgain, TimerSurvives,
        RefreshIsOwned, flags
  <2>2. CASE UNCHANGED refresh
    BY <1>8, <1>0, <2>2 DEF TryAgain, TimerSurvives, flags
  <2> QED BY <1>8, <2>1, <2>2 DEF TryAgain, NoRefreshBy
<1>9. CASE \/ \E n \in Nodes : RefreshRemoves(n)
           \/ \E i \in Seeds : SeedEnds(i)
           \/ \E n \in Nodes : NodeLost(n)
  <2>1. (\E B, W : CallersLosing(B, W)) /\ UNCHANGED <<flags, metadataRefreshTimer>>
    BY <1>9 DEF RefreshRemoves, SeedEnds, NodeLost
  <2>2. refresh'.by = refresh.by
    BY <1>0, <2>1, LosingFacts
  <2> QED BY <1>0, <2>1, <2>2 DEF TimerSurvives, flags
<1>10. ASSUME NEW i \in Seeds, SeedBreaks(i) PROVE TimerSurvives'
  <2>1. (\E W : CallersLosing({i}, W)) \/ UNCHANGED refresh
    BY <1>10 DEF SeedBreaks
  <2>2. refresh'.by = refresh.by
    BY <1>0, <2>1, LosingFacts
  <2> QED BY <1>10, <1>0, <2>2 DEF SeedBreaks, TimerSurvives, flags
<1>11. CASE RefreshSend
  <2>1. refresh'.by = refresh.by
    BY <1>11, <1>0 DEF RefreshSend, TypeOK
  <2> QED BY <1>11, <1>0, <2>1 DEF RefreshSend, TimerSurvives, flags
<1>12. CASE RefreshRequestFails
  <2>1. refresh'.by = refresh.by
    BY <1>12, <1>0 DEF RefreshRequestFails, TypeOK
  <2> QED BY <1>12, <1>0, <2>1 DEF RefreshRequestFails, TimerSurvives, flags
<1>13. ASSUME NEW B \in SUBSET Nodes, NEW l \in Nodes \cup {NoNode}, RefreshAnswered(B, l)
       PROVE TimerSurvives'
  <2>1. refresh'.by = refresh.by
    BY <1>13, <1>0 DEF RefreshAnswered, TypeOK
  <2> QED BY <1>13, <1>0, <2>1 DEF RefreshAnswered, TimerSurvives, flags
<1>14. ASSUME NEW n \in Nodes, NEW P \in SUBSET Nodes, RefreshConnects(n,
     P) PROVE TimerSurvives'
  <2>1. refresh'.by = refresh.by
    BY <1>14, <1>0 DEF RefreshConnects, TypeOK
  <2> QED BY <1>14, <1>0, <2>1 DEF RefreshConnects, TimerSurvives, flags
<1>15. CASE RefreshJoins
  <2>1. refresh'.by = refresh.by
    BY <1>15, <1>0 DEF RefreshJoins, TypeOK
  <2> QED BY <1>15, <1>0, <2>1 DEF RefreshJoins, TimerSurvives, flags
<1>16. ASSUME NEW i \in Seeds, SeedConnects(i) PROVE TimerSurvives'
  <2>1. refresh'.by = refresh.by
    BY <1>16, <1>0 DEF SeedConnects, TypeOK
  <2> QED BY <1>16, <1>0, <2>1 DEF SeedConnects, TimerSurvives, flags
<1>17. ASSUME NEW n \in Nodes, RefreshSkips(n) PROVE TimerSurvives'
  <2>1. refresh'.by = refresh.by
    BY <1>17, <1>0 DEF RefreshSkips, TypeOK
  <2> QED BY <1>17, <1>0, <2>1 DEF RefreshSkips, TimerSurvives, flags
<1>18. CASE \/ RefreshCannotJoin
            \/ \E c \in Connectors : Connect(c)
            \/ \E c \in Connectors : NextSeed(c)
            \/ \E c \in Connectors : FetchApiVersions(c)
            \/ \E c \in Connectors : ApiVersionsFails(c)
            \/ \E r \in Requests : Recheck(r)
            \/ \E r \in Requests : RecheckLost(r)
            \/ \E r \in Requests : RequestAnswered(r)
            \/ \E r \in Requests : RequestFails(r)
            \/ UNCHANGED vars
  <2>1. UNCHANGED refresh
    BY <1>18 DEF RefreshCannotJoin, Connect, NextSeed, FetchApiVersions, ApiVersionsFails,
       Recheck, RecheckLost, RequestAnswered, RequestFails, vars, NoRefreshBy, vars
  <2>2. UNCHANGED <<flags, metadataRefreshTimer>>
    BY <1>18 DEF RefreshCannotJoin, Connect, NextSeed, FetchApiVersions, ApiVersionsFails,
       Recheck, RecheckLost, RequestAnswered, RequestFails, vars, vars
  <2> QED BY <1>0, <2>1, <2>2 DEF TimerSurvives, flags
<1> QED BY <1>1, <1>2, <1>3, <1>4, <1>5, <1>6, <1>7, <1>8, <1>9, <1>10, <1>11, <1>12, <1>13,
    <1>14, <1>15, <1>16, <1>17, <1>18
       DEF Next, RefreshStep, ConnectorStep, RequestStep, SeedStep

\* A sequence without its element k.
Without(s, k) == SubSeq(s, 1, k - 1) \o SubSeq(s, k + 1, Len(s))

Distinct(s) == \A i, j \in 1 .. Len(s) : s[i] = s[j] => i = j

Elements(s) == {s[k] : k \in 1 .. Len(s)}

LEMMA WithoutFacts ==
    ASSUME NEW s \in Seq(Nodes), NEW k \in 1 .. Len(s)
    PROVE  /\ Len(Without(s, k)) = Len(s) - 1
           /\ \A j \in 1 .. Len(s) - 1 :
                  Without(s, k)[j] = IF j < k THEN s[j] ELSE s[j + 1]
<1> DEFINE a == SubSeq(s, 1, k - 1)
           b == SubSeq(s, k + 1, Len(s))
<1>1. Len(s) \in Nat /\ k \in Nat /\ 1 <= k /\ k <= Len(s)
  OBVIOUS
<1>2. a \in Seq(Nodes) /\ Len(a) = k - 1 /\ \A j \in 1 .. k - 1 : a[j] = s[j]
  BY <1>1
<1>3. b \in Seq(Nodes) /\ Len(b) = Len(s) - k /\ \A j \in 1 .. Len(s) - k : b[j] = s[k + j]
  BY <1>1
<1>4. Without(s, k) = a \o b
  BY DEF Without
<1> HIDE DEF a, b
<1>5. Len(a \o b) = Len(s) - 1
  <2>1. Len(a \o b) = Len(a) + Len(b)
    BY <1>2, <1>3, ConcatProperties
  <2> QED BY <1>1, <1>2, <1>3, <2>1
<1>6. ASSUME NEW j \in 1 .. Len(s) - 1, j < k
      PROVE  (a \o b)[j] = s[j]
  <2>1. (a \o b)[j] = a[j]
    BY <1>1, <1>2, <1>3, <1>6
  <2> QED BY <1>1, <1>2, <1>6, <2>1
<1>7. ASSUME NEW j \in 1 .. Len(s) - 1, ~(j < k)
      PROVE  (a \o b)[j] = s[j + 1]
  <2>1. j - (k - 1) \in 1 .. Len(s) - k /\ k + (j - (k - 1)) = j + 1
    BY <1>1, <1>7
  <2>2. (a \o b)[j] = b[j - (k - 1)]
    BY <1>1, <1>2, <1>3, <1>7
  <2> QED BY <1>3, <2>1, <2>2
<1> QED BY <1>4, <1>5, <1>6, <1>7

\* Where it was once it is no more.
LEMMA WithoutOne ==
    ASSUME NEW s \in Seq(Nodes), NEW k \in 1 .. Len(s), Distinct(s)
    PROVE  Distinct(Without(s, k)) /\ Elements(Without(s, k)) = Elements(s) \ {s[k]}
<1> DEFINE t == Without(s, k)
           n == Len(s)
<1>1. n \in Nat /\ k \in Nat /\ 1 <= k /\ k <= n
  OBVIOUS
<1>2. Len(t) = n - 1 /\ \A j \in 1 .. n - 1 : t[j] = IF j < k THEN s[j] ELSE s[j + 1]
  BY WithoutFacts
<1>3. \A i, j \in 1 .. n : s[i] = s[j] => i = j
  BY DEF Distinct
<1>4. Elements(s) = {s[j] : j \in 1 .. n} /\ Elements(t) = {t[j] : j \in 1 .. n - 1}
  BY <1>2 DEF Elements
<1>5. Distinct(t) <=> \A i, j \in 1 .. n - 1 : t[i] = t[j] => i = j
  BY <1>2 DEF Distinct
<1> HIDE DEF t, n
<1>6. Distinct(t)
  BY <1>1, <1>2, <1>3, <1>5
<1>7. ASSUME NEW j \in 1 .. n - 1 PROVE \E i \in 1 .. n : i # k /\ t[j] = s[i]
  <2>1. CASE j < k
    BY <1>1, <1>2, <2>1
  <2>2. CASE ~(j < k)
    <3>1. j + 1 \in 1 .. n /\ j + 1 # k /\ t[j] = s[j + 1]
      BY <1>1, <1>2, <2>2
    <3> QED BY <3>1
  <2> QED BY <2>1, <2>2
<1>8. ASSUME NEW i \in 1 .. n, i # k PROVE \E j \in 1 .. n - 1 : t[j] = s[i]
  <2>1. CASE i < k
    BY <1>1, <1>2, <2>1
  <2>2. CASE ~(i < k)
    <3>1. i - 1 \in 1 .. n - 1 /\ ~(i - 1 < k) /\ (i - 1) + 1 = i
      BY <1>1, <1>8, <2>2
    <3>2. t[i - 1] = s[i]
      BY <1>2, <3>1
    <3> QED BY <3>1, <3>2
  <2> QED BY <2>1, <2>2
<1>9. k \in 1 .. n
  BY DEF n
<1>10. ASSUME NEW e PROVE e \in Elements(t) <=> e \in Elements(s) /\ e # s[k]
  <2>1. ASSUME e \in Elements(t) PROVE e \in Elements(s) /\ e # s[k]
    <3>1. PICK j \in 1 .. n - 1 : e = t[j]
      BY <1>4, <2>1
    <3>2. PICK i \in 1 .. n : i # k /\ e = s[i]
      BY <1>7, <3>1
    <3> QED BY <1>3, <1>4, <1>9, <3>2
  <2>2. ASSUME e \in Elements(s), e # s[k] PROVE e \in Elements(t)
    <3>1. PICK i \in 1 .. n : i # k /\ e = s[i]
      BY <1>4, <2>2
    <3> QED BY <1>4, <1>8, <3>1
  <2> QED BY <2>1, <2>2
<1> QED BY <1>6, <1>10 DEF t

\* The map is as it was, and no broker is being connected that was not.
LEMMA MapKept ==
    ASSUME MapInv, UNCHANGED <<connections, conn>>,
           refresh'.pc = "joining"
               => refresh.pc = "joining" /\ refresh'.joining = refresh.joining
    PROVE  MapInv'
  BY DEF MapInv, InMap

\* The keys of the map.
LEMMA MapStep ==
    ASSUME IndInv, [Next]_vars
    PROVE  MapInv'
<1>0. TypeOK /\ MapInv
  BY DEF IndInv
<1>1. ASSUME NEW n \in Nodes, NEW P \in SUBSET Nodes, RefreshConnects(n, P) PROVE MapInv'
  <2>1. refresh'.joining \in Nodes /\ conn[refresh'.joining] = "none"
    BY <1>1, <1>0 DEF RefreshConnects, TypeOK, NeedsConnection
  <2>2. UNCHANGED <<connections, conn>>
    BY <1>1 DEF RefreshConnects
  <2> QED BY <1>0, <2>1, <2>2 DEF MapInv, InMap
<1>2. CASE RefreshJoins
  <2> DEFINE m == refresh.joining
  <2>1. m \in Nodes /\ conn[m] = "none"
    BY <1>2, <1>0 DEF RefreshJoins, MapInv
  <2>2. /\ connections \in Seq(Nodes) /\ connections' = Append(connections, m)
        /\ conn \in [Nodes -> {"none", "up", "dead"}] /\ conn' = [conn EXCEPT ![m] = "up"]
        /\ refresh'.pc # "joining"
    BY <1>2, <1>0 DEF RefreshJoins, TypeOK
  <2>3. InMap' = InMap \cup {m}
    BY <2>1, <2>2 DEF InMap
  <2>4. /\ Len(connections') = Len(connections) + 1 /\ Len(connections) \in Nat
        /\ \A k \in 1 .. Len(connections) : connections'[k] = connections[k]
        /\ connections'[Len(connections) + 1] = m
    BY <2>1, <2>2
  <2>5. m \notin InMap
    BY <2>1 DEF InMap
  <2> HIDE DEF m
  <2>6. \A k \in 1 .. Len(connections) : connections[k] # m
    BY <1>0, <2>5 DEF MapInv
  <2>7. \A j, k \in 1 .. Len(connections') : connections'[j] = connections'[k] => j = k
    BY <1>0, <2>4, <2>6 DEF MapInv
  <2>8. {connections'[k] : k \in 1 .. Len(connections')}
            = {connections[k] : k \in 1 .. Len(connections)} \cup {m}
    BY <2>4
  <2> QED BY <1>0, <2>2, <2>3, <2>7, <2>8 DEF MapInv
<1>3. ASSUME NEW n \in Nodes, RefreshRemoves(n) PROVE MapInv'
  <2>1. /\ connections \in Seq(Nodes) /\ Distinct(connections)
        /\ InMap = Elements(connections)
    BY <1>0 DEF MapInv, TypeOK, Distinct, Elements
  <2>2. PICK k \in 1 .. Len(connections) :
            connections[k] = n /\ connections' = Without(connections, k)
    BY <1>3 DEF RefreshRemoves, Without
  <2>3. Distinct(connections') /\ Elements(connections') = InMap \ {n}
    BY <2>1, <2>2, WithoutOne
  <2>4. InMap' = InMap \ {n}
    BY <1>3, <1>0 DEF RefreshRemoves, InMap, TypeOK
  <2>5. refresh'.pc # "joining"
    BY <1>3, <1>0, LosingFacts DEF RefreshRemoves
  <2> QED BY <2>3, <2>4, <2>5 DEF MapInv, Distinct, Elements
<1>4. CASE Close
  <2>1. connections' = <<>> /\ conn' = [m \in Nodes |-> "none"]
    BY <1>4 DEF Close
  <2>2. refresh'.pc = "joining" => refresh.pc = "joining" /\ refresh'.joining = refresh.joining
    BY <1>4, <1>0, LosingFacts DEF Close
  <2>3. InMap' = {} /\ Len(connections') = 0
    BY <2>1 DEF InMap
  <2>4. {connections'[k] : k \in 1 .. Len(connections')} = {}
    BY <2>3
  <2>5. \A j, k \in 1 .. Len(connections') : connections'[j] = connections'[k] => j = k
    BY <2>3
  <2>6. refresh'.pc = "joining" => refresh'.joining \in Nodes /\ conn'[refresh'.joining] = "none"
    BY <1>0, <2>1, <2>2 DEF MapInv
  <2> QED BY <2>3, <2>4, <2>5, <2>6 DEF MapInv
<1>5. ASSUME NEW n \in Nodes, NodeLost(n) PROVE MapInv'
  <2>1. UNCHANGED connections /\ InMap' = InMap
    BY <1>5, <1>0 DEF NodeLost, InMap, TypeOK
  <2>2. refresh'.pc = "joining" => refresh.pc = "joining" /\ refresh'.joining = refresh.joining
    BY <1>5, <1>0, LosingFacts DEF NodeLost
  <2>3. \A m \in Nodes : conn[m] = "none" => conn'[m] = "none"
    BY <1>5, <1>0 DEF NodeLost, TypeOK
  <2> QED BY <1>0, <2>1, <2>2, <2>3 DEF MapInv
<1>6. ASSUME NEW i \in Seeds, SeedEnds(i) PROVE MapInv'
  <2>1. refresh'.pc = "joining" => refresh.pc = "joining" /\ refresh'.joining = refresh.joining
    BY <1>6, <1>0, LosingFacts DEF SeedEnds
  <2> QED BY <1>6, <1>0, <2>1, MapKept DEF SeedEnds
<1>7. ASSUME NEW i \in Seeds, SeedBreaks(i) PROVE MapInv'
  <2>1. (\E W : CallersLosing({i}, W)) \/ UNCHANGED refresh
    BY <1>7 DEF SeedBreaks
  <2>2. refresh'.pc = "joining" => refresh.pc = "joining" /\ refresh'.joining = refresh.joining
    BY <1>0, <2>1, LosingFacts
  <2> QED BY <1>7, <1>0, <2>2, MapKept DEF SeedBreaks
<1>8. CASE TimerFires
  <2>1. refresh'.pc # "joining"
    BY <1>8, <1>0, BeginFacts DEF TimerFires, Callers
  <2> QED BY <1>8, <1>0, <2>1, MapKept DEF TimerFires
<1>9. ASSUME NEW c \in Connectors, ApiVersionsAnswered(c) PROVE MapInv'
  <2>1. refresh' = refresh \/ refresh'.pc # "joining"
    <3>1. at[c] \in Seeds
      BY <1>9 DEF ApiVersionsAnswered, IndInv, AtInv
    <3> QED BY <1>9, <1>0, <3>1, BeginFacts DEF ApiVersionsAnswered, Callers
  <2> QED BY <1>9, <1>0, <2>1, MapKept DEF ApiVersionsAnswered
<1>10. ASSUME NEW r \in Requests, Call(r) PROVE MapInv'
  <2>1. CASE RefreshThen(r, "refresh", "recheck")
    <3>1. "refresh" \in RequestStates /\ "recheck" \in RequestStates
      BY DEF RequestStates
    <3>2. refresh' = refresh \/ refresh'.pc # "joining"
      BY <1>0, <2>1, <3>1, ThenFacts
    <3> QED BY <1>10, <1>0, <3>2, MapKept DEF Call
  <2>2. CASE UNCHANGED refresh
    BY <1>10, <1>0, <2>2, MapKept DEF Call
  <2> QED BY <1>10, <2>1, <2>2 DEF Call, NoRefreshBy
<1>11. ASSUME NEW r \in Requests, RequestLost(r) PROVE MapInv'
  <2>1. CASE RefreshThen(r, "refreshLost", "recheckLost")
    <3>1. "refreshLost" \in RequestStates /\ "recheckLost" \in RequestStates
      BY DEF RequestStates
    <3>2. refresh' = refresh \/ refresh'.pc # "joining"
      BY <1>0, <2>1, <3>1, ThenFacts
    <3> QED BY <1>11, <1>0, <3>2, MapKept DEF RequestLost
  <2>2. CASE UNCHANGED refresh
    BY <1>11, <1>0, <2>2, MapKept DEF RequestLost
  <2> QED BY <1>11, <2>1, <2>2 DEF RequestLost, NoRefreshBy
<1>12. ASSUME NEW r \in Requests, TryAgain(r) PROVE MapInv'
  <2>1. CASE RefreshThen(r, "refreshLeader", "call")
    <3>1. "refreshLeader" \in RequestStates /\ "call" \in RequestStates
      BY DEF RequestStates
    <3>2. refresh' = refresh \/ refresh'.pc # "joining"
      BY <1>0, <2>1, <3>1, ThenFacts
    <3> QED BY <1>12, <1>0, <3>2, MapKept DEF TryAgain
  <2>2. CASE UNCHANGED refresh
    BY <1>12, <1>0, <2>2, MapKept DEF TryAgain
  <2> QED BY <1>12, <2>1, <2>2 DEF TryAgain, NoRefreshBy
<1>13. CASE RefreshSend
  <2>1. refresh'.pc = "joining" => refresh.pc = "joining" /\ refresh'.joining = refresh.joining
    BY <1>13, <1>0 DEF RefreshSend, TypeOK
  <2> QED BY <1>13, <1>0, <2>1, MapKept DEF RefreshSend
<1>14. CASE RefreshRequestFails
  <2>1. refresh'.pc = "joining" => refresh.pc = "joining" /\ refresh'.joining = refresh.joining
    BY <1>14, <1>0 DEF RefreshRequestFails, TypeOK
  <2> QED BY <1>14, <1>0, <2>1, MapKept DEF RefreshRequestFails
<1>15. ASSUME NEW B \in SUBSET Nodes, NEW l \in Nodes \cup {NoNode}, RefreshAnswered(B, l)
       PROVE MapInv'
  <2>1. refresh'.pc = "joining" => refresh.pc = "joining" /\ refresh'.joining = refresh.joining
    BY <1>15, <1>0 DEF RefreshAnswered, TypeOK
  <2> QED BY <1>15, <1>0, <2>1, MapKept DEF RefreshAnswered
<1>16. ASSUME NEW i \in Seeds, SeedConnects(i) PROVE MapInv'
  <2>1. refresh'.pc = "joining" => refresh.pc = "joining" /\ refresh'.joining = refresh.joining
    BY <1>16, <1>0 DEF SeedConnects, TypeOK
  <2> QED BY <1>16, <1>0, <2>1, MapKept DEF SeedConnects
<1>17. ASSUME NEW n \in Nodes, RefreshSkips(n) PROVE MapInv'
  <2>1. refresh'.pc # "joining"
    BY <1>17, <1>0 DEF RefreshSkips, TypeOK
  <2> QED BY <1>17, <1>0, <2>1, MapKept DEF RefreshSkips
<1>18. CASE \/ RefreshFails
            \/ RefreshDone
  BY <1>18, <1>0, MapKept DEF RefreshFails, RefreshDone, EndRefresh, NoRefresh
<1>19. CASE \/ RefreshCannotJoin
            \/ \E c \in Connectors : Connect(c)
            \/ \E c \in Connectors : NextSeed(c)
            \/ \E c \in Connectors : FetchApiVersions(c)
            \/ \E c \in Connectors : ApiVersionsFails(c)
            \/ \E r \in Requests : Recheck(r)
            \/ \E r \in Requests : RecheckLost(r)
            \/ \E r \in Requests : RequestAnswered(r)
            \/ \E r \in Requests : RequestFails(r)
            \/ UNCHANGED vars
  <2>1. UNCHANGED <<refresh, connections, conn>>
    BY <1>19 DEF RefreshCannotJoin, Connect, NextSeed, FetchApiVersions, ApiVersionsFails,
       Recheck, RecheckLost, RequestAnswered, RequestFails, vars, NoRefreshBy, vars
  <2> QED BY <1>0, <2>1, MapKept
<1> QED BY <1>1, <1>2, <1>3, <1>4, <1>5, <1>6, <1>7, <1>8, <1>9, <1>10, <1>11, <1>12, <1>13,
    <1>14, <1>15, <1>16, <1>17, <1>18, <1>19
       DEF Next, RefreshStep, ConnectorStep, RequestStep, SeedStep

LEMMA InitInd == Init => IndInv
<1> SUFFICES ASSUME Init PROVE IndInv
  OBVIOUS
<1>1. 1 \in Seeds /\ NumSeeds \in Nat /\ 1 \in 1 .. NumSeeds + 1
  BY ClientAssumption DEF Seeds
<1>2. NoRefresh \in [by : Callers \cup {Nobody},
                     pc : {"idle", "seed", "send", "sent", "update", "joining", "failed"},
                     via : Brokers \cup {NoNode},
                     todo : SUBSET Nodes, listed : SUBSET Nodes,
                     joining : Nodes \cup {NoNode}]
  BY DEF NoRefresh
<1>3. connections \in Seq(Nodes) /\ writes \in [Requests -> 0 .. 4]
  BY DEF Init
<1>4. TypeOK
  BY <1>1, <1>2, <1>3 DEF Init, TypeOK
<1>5. AtInv /\ RefreshIsOwned /\ SentOnLiveConnection /\ TimerSurvives
  BY ClientAssumption
     DEF Init, AtInv, RefreshIsOwned, SentOnLiveConnection, TimerSurvives, NoRefresh,
         WaitingForRefresh
<1>6. WritesInv
  <2> SUFFICES ASSUME NEW r \in Requests PROVE writes[r] <= Written(r)
    BY DEF WritesInv
  <2>1. writes[r] = 0 /\ try[r] = 1 /\ rpc[r] = "idle"
    BY DEF Init
  <2>2. Written(r) = 0
    BY <2>1 DEF Written, Rank
  <2> QED BY <2>1, <2>2
<1>7. MapInv
  <2>1. connections = <<>> /\ InMap = {} /\ refresh.pc = "idle"
    BY DEF Init, InMap, NoRefresh
  <2>2. Len(connections) = 0
    BY <2>1
  <2>3. {connections[k] : k \in 1 .. Len(connections)} = {}
    BY <2>2
  <2> QED BY <2>1, <2>2, <2>3 DEF MapInv
<1> QED BY <1>4, <1>5, <1>6, <1>7 DEF IndInv

LEMMA Inductive == Spec => []IndInv
<1>1. IndInv /\ [Next]_vars => IndInv'
  BY TypeStep, AtStep, WritesStep, OwnedStep, LiveStep, MapStep, TimerStep DEF IndInv
<1> QED BY InitInd, <1>1, PTL DEF Spec

\* As many keys as nodes with a connection.
LEMMA MapCount ==
    ASSUME TypeOK, MapInv
    PROVE  OneConnectionPerNode
<1> DEFINE f == [k \in 1 .. Len(connections) |-> connections[k]]
<1>1. Len(connections) \in Nat
  BY DEF TypeOK
<1>2. /\ InMap = {connections[k] : k \in 1 .. Len(connections)}
      /\ \A j, k \in 1 .. Len(connections) : connections[j] = connections[k] => j = k
  BY DEF MapInv
<1>3. f \in [1 .. Len(connections) -> InMap]
  BY <1>2
<1>4. \A n \in InMap : \E k \in 1 .. Len(connections) : f[k] = n
  BY <1>2
<1>5. \A j, k \in 1 .. Len(connections) : f[j] = f[k] => j = k
  BY <1>2
<1>6. /\ f \in Injection(1 .. Len(connections), InMap)
      /\ f \in Surjection(1 .. Len(connections), InMap)
  BY <1>3, <1>4, <1>5 DEF Injection, IsInjective, Surjection
<1>7. ExistsBijection(1 .. Len(connections), InMap)
  BY <1>6 DEF ExistsBijection, Bijection
<1>8. Cardinality(InMap) = Len(connections)
  BY <1>1, <1>7, FS_CountingElements, FS_NatBijection
<1> QED BY <1>2, <1>8 DEF OneConnectionPerNode

-----------------------------------------------------------------------------
\* The variables have their types; in particular a request is written at most
\* four times, and connect() tries no seed behind the last.
THEOREM ClientTypes == Spec => []TypeOK
<1>1. IndInv => TypeOK
  BY DEF IndInv
<1> QED BY Inductive, <1>1, PTL

\* isRefreshingMetadata is set exactly while the refresh of one caller runs,
\* and every caller that awaits a refresh awaits that one.
THEOREM RefreshOwned == Spec => []RefreshIsOwned
<1>1. IndInv => RefreshIsOwned
  BY DEF IndInv
<1> QED BY Inductive, <1>1, PTL

\* No request, ApiVersions or metadata request is awaited on a connection that
\* the client has lost, removed or closed.
THEOREM NobodyWaitsOnLost == Spec => []SentOnLiveConnection
<1>1. IndInv => SentOnLiveConnection
  BY DEF IndInv
<1> QED BY Inductive, <1>1, PTL

\* The map of connections has every node that is connected once.
THEOREM MapIsOneToOne == Spec => []OneConnectionPerNode
<1>1. IndInv => OneConnectionPerNode
  BY MapCount DEF IndInv
<1> QED BY Inductive, <1>1, PTL

\* A client that is ready and not closed refreshes its metadata again.
THEOREM TimerIsRearmed == Spec => []TimerSurvives
<1>1. IndInv => TimerSurvives
  BY DEF IndInv
<1> QED BY Inductive, <1>1, PTL
=============================================================================

---------------------------- MODULE NetworkClient ----------------------------
(***************************************************************************)
(* NetworkClient (src/network/NetworkClient.ts): the connections to all    *)
(* brokers of a cluster, the refresh of the cluster's metadata, and the    *)
(* requests sent through them.                                             *)
(*                                                                         *)
(* Its methods are async: each action is what runs between two awaits.     *)
(* Callers are connect() calls (Connectors), sendToPartitionLeader() calls *)
(* (Requests, of one topic-partition; the sendRequest() inside is where    *)
(* all the connection handling is) and the metadata timer; all three call  *)
(* refreshMetadata(), which lets one of them in and returns at once to the *)
(* others.                                                                 *)
(*                                                                         *)
(* A connection is what BrokerConnection shows of itself: whether it is    *)
(* connected, what its promises do, and whether an 'error' event of it is  *)
(* listened to.  The application listens to the client's own 'error'.      *)
(***************************************************************************)
EXTENDS Naturals, Sequences, FiniteSets

CONSTANTS
    Nodes,        \* node ids in the metadata
    Requests,     \* calls of sendToPartitionLeader(), each made once
    Connectors,   \* calls of connect(), each made once
    NumSeeds,     \* configured brokers
    AutoRefresh,  \* config.autoRefreshMetadata
    Timer,        \* the callback of the metadata timer, as a caller
    NoNode,       \* no node, no broker
    Nobody        \* no caller

Seeds == 1 .. NumSeeds

ASSUME ClientAssumption ==
    /\ NumSeeds \in Nat \ {0}
    /\ AutoRefresh \in BOOLEAN
    /\ NoNode \notin Nodes \cup Seeds
    /\ Nodes \cap Seeds = {}
    /\ Timer \notin Requests \cup Connectors
    /\ Nobody \notin Requests \cup Connectors \cup {Timer}
    /\ Requests \cap Connectors = {}

VARIABLES
    isClosed, isInitialized, isRefreshingMetadata,
    metadataRefreshTimer,  \* a timeout is armed
    connections,           \* the keys of the map, in insertion order
    conn,                  \* the connection in the map: "up" or "dead"
    seed,                  \* the state of each seed connection
    seedHeard,             \* seeds with a once('error') listener of a second connect()
    older,                 \* what an earlier socket of a seed, whose listeners stay, may be
    metadataInit,          \* clusterMetadata.isInitialized()
    leader,                \* clusterMetadata.findLeader(), NoNode if it throws
    refresh,               \* the refresh in progress: its caller and locals
    cpc, at,               \* connect(): where it is, the seed it is at
    rpc, target, try,      \* a request: where it is, its leader, which try
    writes,                \* how often the request was written
    alive                  \* no exception was left uncaught

cvars    == <<cpc, at>>
rvars    == <<rpc, target, try, writes>>
seeds    == <<seed, seedHeard, older>>
flags    == <<isClosed, isInitialized>>
metadata == <<metadataInit, leader>>
vars     == <<flags, isRefreshingMetadata, metadataRefreshTimer, connections, conn,
              seeds, metadata, refresh, cvars, rvars, alive>>

Callers == Requests \cup Connectors \cup {Timer}
Brokers == Nodes \cup Seeds

NoRefresh == [by |-> Nobody, pc |-> "idle", via |-> NoNode, todo |-> {},
              listed |-> {}, joining |-> NoNode]

TypeOK ==
    /\ isClosed \in BOOLEAN /\ isInitialized \in BOOLEAN
    /\ isRefreshingMetadata \in BOOLEAN /\ metadataRefreshTimer \in BOOLEAN
    /\ connections \in Seq(Nodes)
    /\ conn \in [Nodes -> {"none", "up", "dead"}]
    \* "hollow": CONNECTED without a socket; "bad": its connect() throws;
    \* "stuck": it has thrown, and left the state CONNECTING without a socket.
    /\ seed \in [Seeds -> {"down", "connecting", "up", "hollow", "bad", "stuck"}]
    /\ seedHeard \in SUBSET Seeds
    /\ older \in [Seeds -> {"none", "connected", "connecting"}]
    /\ metadataInit \in BOOLEAN
    /\ leader \in Nodes \cup {NoNode}
    /\ refresh \in [by : Callers \cup {Nobody},
                    pc : {"idle", "seed", "send", "sent", "update", "joining", "failed"},
                    via : Brokers \cup {NoNode},
                    todo : SUBSET Nodes, listed : SUBSET Nodes,
                    joining : Nodes \cup {NoNode}]
    /\ cpc \in [Connectors -> {"idle", "try", "seed", "seedUp", "api",
                               "refresh", "ready", "failed"}]
    /\ at \in [Connectors -> 1 .. NumSeeds + 1]
    /\ rpc \in [Requests -> {"idle", "call", "refresh", "recheck", "sent", "lost",
                             "refreshLost", "recheckLost", "resent", "failing",
                             "refreshLeader", "resolved", "rejected"}]
    /\ target \in [Requests -> Nodes \cup {NoNode}]
    /\ try \in [Requests -> {1, 2}]
    /\ writes \in [Requests -> 0 .. 4]
    /\ alive \in BOOLEAN

Init ==
    /\ isClosed = FALSE /\ isInitialized = FALSE
    /\ isRefreshingMetadata = FALSE /\ metadataRefreshTimer = FALSE
    /\ connections = <<>>
    /\ conn = [n \in Nodes |-> "none"]
    /\ seed \in [Seeds -> {"down", "bad"}]
    /\ seedHeard = {}
    /\ older = [i \in Seeds |-> "none"]
    /\ metadataInit = FALSE
    /\ leader = NoNode
    /\ refresh = NoRefresh
    /\ cpc = [c \in Connectors |-> "idle"]
    /\ at = [c \in Connectors |-> 1]
    /\ rpc = [r \in Requests |-> "idle"]
    /\ target = [r \in Requests |-> NoNode]
    /\ try = [r \in Requests |-> 1]
    /\ writes = [r \in Requests |-> 0]
    /\ alive = TRUE

-----------------------------------------------------------------------------
(* What the methods share.                                                 *)

InMap == {n \in Nodes : conn[n] # "none"}

\* isConnected() of the connection in the map, or of a seed.
IsConnected(b) == IF b \in Seeds THEN seed[b] = "up" ELSE b \in Nodes /\ conn[b] = "up"

\* Who awaits connect() of a seed: connect() calls, and the refresh.
Awaiting(i) ==
    {p \in Callers : \/ p \in Connectors /\ cpc[p] = "seed" /\ at[p] = i
                     \/ refresh.by = p /\ refresh.pc = "seed" /\ refresh.via = i}

\* Mutants (names in Mut...) are plausible wrong versions of a definition that
\* follows; the runs are repeated with them and must then fail.
MutLosingKeepsRequests(B, W) ==
    /\ UNCHANGED rpc
    /\ cpc' = [c \in Connectors |->
                  IF cpc[c] = "api" /\ at[c] \in B THEN "failed"
                  ELSE IF cpc[c] = "seed" /\ c \in W THEN "try" ELSE cpc[c]]
    /\ refresh' = IF \/ refresh.pc = "sent" /\ refresh.via \in B
                     \/ refresh.pc = "seed" /\ refresh.by \in W
                  THEN [refresh EXCEPT !.pc = "failed"] ELSE refresh

\* A connection that is lost or closed rejects all that was sent on it; a
\* seed may also reject calls of connect() that await it, those of W.
CallersLosing(B, W) ==
    /\ rpc' = [r \in Requests |->
                  IF target[r] \notin B THEN rpc[r]
                  ELSE CASE rpc[r] = "sent"   -> "lost"
                         [] rpc[r] = "resent" -> "failing"
                         [] OTHER             -> rpc[r]]
    /\ cpc' = [c \in Connectors |->
                  IF cpc[c] = "api" /\ at[c] \in B THEN "failed"
                  ELSE IF cpc[c] = "seed" /\ c \in W THEN "try" ELSE cpc[c]]
    /\ refresh' = IF \/ refresh.pc = "sent" /\ refresh.via \in B
                     \/ refresh.pc = "seed" /\ refresh.by \in W
                  THEN [refresh EXCEPT !.pc = "failed"] ELSE refresh

\* Node drains the continuations of settled promises before it takes the next
\* event: a timer, a socket event, a response.  Calls of the application may
\* come from continuations of its own.
Drained ==
    /\ refresh.pc \notin {"send", "update", "failed"}
    /\ \A c \in Connectors : cpc[c] \notin {"try", "seedUp"}
    /\ \A r \in Requests : rpc[r] \notin {"call", "recheck", "lost", "recheckLost", "failing"}

startMetadataRefreshTimer == metadataRefreshTimer' = AutoRefresh

-----------------------------------------------------------------------------
(* refreshMetadata(), on behalf of a caller p.                             *)

\* broker.connect(): resolves at once, joins the attempt under way, starts
\* one, or throws; after that there is no attempt, but every call joins it.
SeedConnect(i) ==
    /\ seed' = [seed EXCEPT ![i] = CASE @ = "down" -> "connecting"
                                     [] @ = "bad"  -> "stuck"
                                     [] OTHER      -> @]
    /\ seedHeard' = IF seed[i] \in {"connecting", "stuck"}
                    THEN seedHeard \cup {i} ELSE seedHeard
    /\ UNCHANGED older

\* The broker it uses: the one given, else the first of the map whether it is
\* connected or not, else the first seed, of which close() leaves none.
BrokerFor(specific) ==
    IF specific # NoNode THEN specific
    ELSE IF connections # <<>> THEN Head(connections)
    ELSE IF isClosed THEN NoNode
    ELSE 1

BeginRefresh(p, specific) ==
    LET via      == BrokerFor(specific)
        fallback == specific = NoNode /\ connections = <<>> /\ ~isClosed
    IN
    /\ ~isRefreshingMetadata
    /\ isRefreshingMetadata' = TRUE
    /\ IF fallback THEN SeedConnect(via) ELSE UNCHANGED seeds
    /\ refresh' = [NoRefresh EXCEPT
                      !.by = p, !.via = via,
                      !.pc = IF fallback /\ seed[via] \in {"down", "connecting", "stuck"}
                             THEN "seed"
                             ELSE IF IsConnected(via) THEN "sent" ELSE "failed"]

MutNoFinally ==
    /\ UNCHANGED isRefreshingMetadata
    /\ refresh' = NoRefresh

\* The finally block, then the await of the caller ends.
EndRefresh ==
    /\ isRefreshingMetadata' = FALSE
    /\ refresh' = NoRefresh

\* connect() goes on after refreshMetadata().
Ready(c) ==
    /\ cpc' = [cpc EXCEPT ![c] = "ready"]
    /\ isInitialized' = TRUE
    /\ startMetadataRefreshTimer

RequestAfterRefresh(r) ==
    rpc' = [rpc EXCEPT ![r] = CASE @ = "refresh"       -> "recheck"
                                [] @ = "refreshLost"   -> "recheckLost"
                                [] @ = "refreshLeader" -> "call"]

ResumeOk(p) ==
    \/ p \in Connectors /\ Ready(p) /\ UNCHANGED rpc
    \/ p \in Requests /\ RequestAfterRefresh(p)
       /\ UNCHANGED <<cpc, isInitialized, metadataRefreshTimer>>
    \/ p = Timer /\ startMetadataRefreshTimer /\ UNCHANGED <<cpc, rpc, isInitialized>>

MutTimerStopsOnFailure(p) ==
    \/ p \in Connectors /\ cpc' = [cpc EXCEPT ![p] = "failed"]
       /\ UNCHANGED <<rpc, metadataRefreshTimer>>
    \/ p \in Requests
       /\ rpc' = [rpc EXCEPT ![p] = IF @ = "refreshLeader" THEN "rejected" ELSE "failing"]
       /\ UNCHANGED <<cpc, metadataRefreshTimer>>
    \/ p = Timer /\ UNCHANGED <<cpc, rpc, metadataRefreshTimer>>

ResumeFailed(p) ==
    \/ p \in Connectors /\ cpc' = [cpc EXCEPT ![p] = "failed"]
       /\ UNCHANGED <<rpc, metadataRefreshTimer>>
    \/ p \in Requests
       /\ rpc' = [rpc EXCEPT ![p] = IF @ = "refreshLeader" THEN "rejected" ELSE "failing"]
       /\ UNCHANGED <<cpc, metadataRefreshTimer>>
    \/ p = Timer /\ startMetadataRefreshTimer /\ UNCHANGED <<cpc, rpc>>

RefreshSend ==
    /\ alive
    /\ refresh.pc = "send"
    /\ refresh' = [refresh EXCEPT !.pc = IF IsConnected(refresh.via) THEN "sent" ELSE "failed"]
    /\ UNCHANGED <<flags, isRefreshingMetadata, metadataRefreshTimer, connections, conn,
                   seeds, metadata, cvars, rvars, alive>>

\* The response: updateMetadata(), then the loop of updateBrokerConnections.
\* A topic that is absent or has an error keeps its old leader.
RefreshAnswered(brokers, newLeader) ==
    /\ alive /\ Drained
    /\ refresh.pc = "sent"
    /\ metadataInit' = TRUE
    /\ leader' \in {leader, newLeader}
    /\ refresh' = [refresh EXCEPT !.pc = "update", !.todo = brokers, !.listed = brokers]
    /\ UNCHANGED <<flags, isRefreshingMetadata, metadataRefreshTimer, connections, conn,
                   seeds, cvars, rvars, alive>>

\* The metadata request times out, is refused or cannot be parsed.
RefreshRequestFails ==
    /\ alive /\ Drained
    /\ refresh.pc = "sent"
    /\ refresh' = [refresh EXCEPT !.pc = "failed"]
    /\ UNCHANGED <<flags, isRefreshingMetadata, metadataRefreshTimer, connections, conn,
                   seeds, metadata, cvars, rvars, alive>>

RefreshFails ==
    /\ alive
    /\ refresh.pc = "failed"
    /\ EndRefresh
    /\ ResumeFailed(refresh.by)
    /\ UNCHANGED <<flags, connections, conn, seeds, metadata, at, target, try, writes, alive>>

MutReconnectsDead(n) == conn[n] # "up"

\* Has the map a connection, dead or not, the loop goes to the next broker.
NeedsConnection(n) == conn[n] = "none"

\* The loop up to the next await: it passes the brokers of "passed" and
\* starts a connection to n.
RefreshConnects(n, passed) ==
    /\ alive
    /\ refresh.pc = "update"
    /\ n \in refresh.todo /\ NeedsConnection(n)
    /\ passed \subseteq refresh.todo
    /\ \A m \in passed : ~NeedsConnection(m)
    /\ refresh' = [refresh EXCEPT !.pc = "joining", !.joining = n,
                                  !.todo = @ \ (passed \cup {n})]
    /\ UNCHANGED <<flags, isRefreshingMetadata, metadataRefreshTimer, connections, conn,
                   seeds, metadata, cvars, rvars, alive>>

\* connect() of the new connection throws, which the loop catches.
RefreshSkips(n) ==
    /\ alive
    /\ refresh.pc = "update"
    /\ n \in refresh.todo /\ NeedsConnection(n)
    /\ refresh' = [refresh EXCEPT !.todo = @ \ {n}]
    /\ UNCHANGED <<flags, isRefreshingMetadata, metadataRefreshTimer, connections, conn,
                   seeds, metadata, cvars, rvars, alive>>

\* The connection is up: it is put in the map and gets its listeners.
RefreshJoins ==
    /\ alive /\ Drained
    /\ refresh.pc = "joining"
    /\ connections' = Append(connections, refresh.joining)
    /\ conn' = [conn EXCEPT ![refresh.joining] = "up"]
    /\ refresh' = [refresh EXCEPT !.pc = "update", !.joining = NoNode]
    /\ UNCHANGED <<flags, isRefreshingMetadata, metadataRefreshTimer,
                   seeds, metadata, cvars, rvars, alive>>

\* It fails or times out: no 'error' listener is there yet, so that the
\* 'error' event is an uncaught exception.
RefreshCannotJoin ==
    /\ alive /\ Drained
    /\ refresh.pc = "joining"
    /\ alive' = FALSE
    /\ UNCHANGED <<flags, isRefreshingMetadata, metadataRefreshTimer, connections, conn,
                   seeds, metadata, refresh, cvars, rvars>>

\* The second loop: a broker that is no longer listed is disconnected, and
\* awaited, before the next.
RefreshRemoves(n) ==
    /\ alive
    /\ refresh.pc = "update"
    /\ \A m \in refresh.todo : ~NeedsConnection(m)
    /\ n \in InMap \ refresh.listed
    /\ \E k \in 1 .. Len(connections) :
           /\ connections[k] = n
           /\ connections' = SubSeq(connections, 1, k - 1)
                                \o SubSeq(connections, k + 1, Len(connections))
    /\ conn' = [conn EXCEPT ![n] = "none"]
    /\ CallersLosing({n}, {})
    /\ UNCHANGED <<flags, isRefreshingMetadata, metadataRefreshTimer, seeds, metadata,
                   at, target, try, writes, alive>>

RefreshDone ==
    /\ alive
    /\ refresh.pc = "update"
    /\ \A n \in refresh.todo : ~NeedsConnection(n)
    /\ InMap \subseteq refresh.listed
    /\ EndRefresh
    /\ ResumeOk(refresh.by)
    /\ UNCHANGED <<isClosed, connections, conn, seeds, metadata, at, target, try, writes, alive>>

-----------------------------------------------------------------------------
(* connect(), close() and the metadata timer.                              *)

\* connect() to the seed i of the list, which the loop took before close()
\* emptied it, or the end of the list.
TrySeed(c, i) ==
    /\ at' = [at EXCEPT ![c] = i]
    /\ IF i > NumSeeds
       THEN cpc' = [cpc EXCEPT ![c] = "failed"] /\ UNCHANGED seeds
       ELSE /\ SeedConnect(i)
            /\ cpc' = [cpc EXCEPT ![c] =
                          CASE seed[i] \in {"up", "hollow"} -> "seedUp"
                            [] seed[i] = "bad"             -> "try"
                            [] OTHER                       -> "seed"]

Connect(c) ==
    /\ alive
    /\ cpc[c] = "idle"
    /\ \/ isInitialized /\ cpc' = [cpc EXCEPT ![c] = "ready"] /\ UNCHANGED <<at, seeds>>
       \/ ~isInitialized /\ isClosed /\ cpc' = [cpc EXCEPT ![c] = "failed"]
          /\ UNCHANGED <<at, seeds>>
       \/ ~isInitialized /\ ~isClosed /\ TrySeed(c, 1)
    /\ UNCHANGED <<flags, isRefreshingMetadata, metadataRefreshTimer, connections, conn,
                   metadata, refresh, rvars, alive>>

NextSeed(c) ==
    /\ alive
    /\ cpc[c] = "try"
    /\ TrySeed(c, at[c] + 1)
    /\ UNCHANGED <<flags, isRefreshingMetadata, metadataRefreshTimer, connections, conn,
                   metadata, refresh, rvars, alive>>

FetchApiVersions(c) ==
    /\ alive
    /\ cpc[c] = "seedUp"
    /\ cpc' = [cpc EXCEPT ![c] = IF IsConnected(at[c]) THEN "api" ELSE "failed"]
    /\ UNCHANGED <<flags, isRefreshingMetadata, metadataRefreshTimer, connections, conn,
                   seeds, metadata, refresh, at, rvars, alive>>

MutConnectWaitsForOther(c) ==
    /\ alive /\ Drained
    /\ cpc[c] = "api"
    /\ IF isRefreshingMetadata
       THEN UNCHANGED <<isRefreshingMetadata, refresh, seeds>>
       ELSE BeginRefresh(c, at[c])
    /\ cpc' = [cpc EXCEPT ![c] = "refresh"]
    /\ UNCHANGED <<flags, metadataRefreshTimer, connections, conn, metadata, at, rvars, alive>>

\* refreshMetadata() returns at once when another refresh runs.
ApiVersionsAnswered(c) ==
    /\ alive /\ Drained
    /\ cpc[c] = "api"
    /\ IF isRefreshingMetadata
       THEN Ready(c) /\ UNCHANGED <<isRefreshingMetadata, refresh, seeds>>
       ELSE /\ BeginRefresh(c, at[c])
            /\ cpc' = [cpc EXCEPT ![c] = "refresh"]
            /\ UNCHANGED <<isInitialized, metadataRefreshTimer>>
    /\ UNCHANGED <<isClosed, connections, conn, metadata, at, rvars, alive>>

ApiVersionsFails(c) ==
    /\ alive /\ Drained
    /\ cpc[c] = "api"
    /\ cpc' = [cpc EXCEPT ![c] = "failed"]
    /\ UNCHANGED <<flags, isRefreshingMetadata, metadataRefreshTimer, connections, conn,
                   seeds, metadata, refresh, at, rvars, alive>>

\* A timer that finds a refresh running returns at once and is armed again.
TimerFires ==
    /\ alive /\ Drained
    /\ metadataRefreshTimer
    /\ ~isRefreshingMetadata
    /\ metadataRefreshTimer' = FALSE
    /\ BeginRefresh(Timer, NoNode)
    /\ UNCHANGED <<flags, connections, conn, metadata, cvars, rvars, alive>>

\* The earlier sockets of a seed when disconnect() lets go of its socket.
OlderOnceLetGo(i) ==
    IF "connecting" \in {seed[i], older[i]} THEN "connecting"
    ELSE IF seed[i] = "up" THEN "connected" ELSE older[i]

\* close(): the connection a refresh is waiting for is in no map and is not
\* closed.  What follows the await runs before any other event.
Close ==
    /\ alive
    /\ ~isClosed
    /\ isClosed' = TRUE
    /\ metadataRefreshTimer' = FALSE
    /\ seed' = [i \in Seeds |-> IF seed[i] \in {"bad", "stuck"} THEN "bad" ELSE "down"]
    /\ older' = [i \in Seeds |-> OlderOnceLetGo(i)]
    /\ connections' = <<>>
    /\ conn' = [n \in Nodes |-> "none"]
    /\ CallersLosing(Brokers, {})
    /\ UNCHANGED <<isInitialized, isRefreshingMetadata, seedHeard, metadata,
                   at, target, try, writes, alive>>

-----------------------------------------------------------------------------
(* What the connections do.  A seed that disconnect() was called on may be *)
(* connected again while its earlier socket, whose listeners stay, still   *)
(* acts on it.  Which calls of connect() an event then settles is left     *)
(* open here (BrokerConnection has the attempts one by one), and an        *)
(* earlier socket is never known to have had its last event; one that was  *)
(* connecting when it was let go may still connect.                        *)

Reused(i) == older[i] # "none"

\* A seed's socket connects, or an earlier one that was let go: then the
\* seed is CONNECTED, whether it has a socket or not.
SeedConnects(i) ==
    /\ alive /\ Drained
    /\ "connecting" \in {seed[i], older[i]}
    /\ seed' = [seed EXCEPT ![i] = IF @ = "down" THEN "hollow"
                                   ELSE IF @ = "connecting" THEN "up" ELSE @]
    /\ \E W \in SUBSET Awaiting(i) :
           /\ Reused(i) \/ W = Awaiting(i)
           /\ cpc' = [c \in Connectors |->
                         IF cpc[c] = "seed" /\ c \in W THEN "seedUp" ELSE cpc[c]]
           /\ refresh' = IF refresh.pc = "seed" /\ refresh.by \in W
                         THEN [refresh EXCEPT !.pc = "send"] ELSE refresh
    /\ UNCHANGED <<flags, isRefreshingMetadata, metadataRefreshTimer, connections, conn,
                   seedHeard, older, metadata, at, rvars, alive>>

\* A socket of the seed fails, is idle for socketTimeout, or its attempt
\* times out.  Nobody listens to a seed's 'error' but a connect() that joined
\* another one's attempt.  Where the socket is not gone with the error,
\* disconnect() lets go of it.
SeedBreaks(i) ==
    /\ alive /\ Drained
    /\ seed[i] \in {"connecting", "up"} \/ Reused(i)
    /\ IF i \in seedHeard
       THEN /\ seed' = [seed EXCEPT ![i] = "down"]
            /\ seedHeard' = seedHeard \ {i}
            /\ \E W \in SUBSET Awaiting(i) :
                   /\ \/ W = Awaiting(i) /\ ~Reused(i) /\ UNCHANGED older
                      \/ older' = [older EXCEPT ![i] = OlderOnceLetGo(i)]
                   /\ CallersLosing({i}, W)
            /\ UNCHANGED alive
       ELSE alive' = FALSE /\ UNCHANGED <<seeds, cpc, rpc, refresh>>
    /\ UNCHANGED <<flags, isRefreshingMetadata, metadataRefreshTimer, connections, conn,
                   metadata, at, target, try, writes>>

\* The broker closes a seed's connection, or an earlier socket of the seed
\* closes: onDisconnect() also takes the listeners off the one that is
\* connecting, which then settles nobody.
SeedEnds(i) ==
    /\ alive /\ Drained
    /\ seed[i] \in IF Reused(i) THEN {"connecting", "up", "hollow"} ELSE {"up"}
    /\ seed' = [seed EXCEPT ![i] = "down"]
    /\ CallersLosing({i}, {})
    /\ UNCHANGED <<flags, isRefreshingMetadata, metadataRefreshTimer, connections, conn,
                   seedHeard, older, metadata, at, target, try, writes, alive>>

\* A connection of the map is closed by the broker, breaks or is idle for
\* socketTimeout; its 'error' has a listener.  It stays in the map.
NodeLost(n) ==
    /\ alive /\ Drained
    /\ conn[n] = "up"
    /\ conn' = [conn EXCEPT ![n] = "dead"]
    /\ CallersLosing({n}, {})
    /\ UNCHANGED <<flags, isRefreshingMetadata, metadataRefreshTimer, connections, seeds,
                   metadata, at, target, try, writes, alive>>

-----------------------------------------------------------------------------
(* sendToPartitionLeader() and the sendRequest() in it.                    *)

MutWaitsForOther(r, waiting, after) ==
    IF isRefreshingMetadata
    THEN rpc' = [rpc EXCEPT ![r] = waiting] /\ UNCHANGED <<isRefreshingMetadata, refresh, seeds>>
    ELSE rpc' = [rpc EXCEPT ![r] = waiting] /\ BeginRefresh(r, NoNode)

\* await refreshMetadata(): at once where another refresh runs.
RefreshThen(r, waiting, after) ==
    IF isRefreshingMetadata
    THEN rpc' = [rpc EXCEPT ![r] = after] /\ UNCHANGED <<isRefreshingMetadata, refresh, seeds>>
    ELSE rpc' = [rpc EXCEPT ![r] = waiting] /\ BeginRefresh(r, NoNode)

\* connection.send() on a connection that is connected.
Write(r, sent) ==
    /\ rpc' = [rpc EXCEPT ![r] = sent]
    /\ writes' = [writes EXCEPT ![r] = @ + 1]

NoRefreshBy == UNCHANGED <<isRefreshingMetadata, refresh, seeds>>

\* findLeaderForPartition(), then sendRequest() up to its first await.
Call(r) ==
    /\ alive
    /\ rpc[r] \in {"idle", "call"}
    /\ target' = [target EXCEPT ![r] = leader]
    /\ CASE leader = NoNode \/ (~IsConnected(leader) /\ ~AutoRefresh) ->
                rpc' = [rpc EXCEPT ![r] = "failing"] /\ UNCHANGED writes /\ NoRefreshBy
         [] leader # NoNode /\ IsConnected(leader) ->
                Write(r, "sent") /\ NoRefreshBy
         [] OTHER ->
                RefreshThen(r, "refresh", "recheck") /\ UNCHANGED writes
    /\ UNCHANGED <<flags, metadataRefreshTimer, connections, conn, metadata, cvars, try, alive>>

\* "Check again after refresh": the recursive sendRequest() writes at once.
Recheck(r) ==
    /\ alive
    /\ rpc[r] = "recheck"
    /\ IF IsConnected(target[r])
       THEN Write(r, "sent")
       ELSE rpc' = [rpc EXCEPT ![r] = "failing"] /\ UNCHANGED writes
    /\ NoRefreshBy
    /\ UNCHANGED <<flags, metadataRefreshTimer, connections, conn, metadata, cvars,
                   target, try, alive>>

\* The catch of a DisconnectedError.
RequestLost(r) ==
    /\ alive
    /\ rpc[r] = "lost"
    /\ IF AutoRefresh
       THEN RefreshThen(r, "refreshLost", "recheckLost")
       ELSE rpc' = [rpc EXCEPT ![r] = "failing"] /\ NoRefreshBy
    /\ UNCHANGED <<flags, metadataRefreshTimer, connections, conn, metadata, cvars,
                   target, try, writes, alive>>

\* "Retry the request", which is not guarded by a catch of its own.
RecheckLost(r) ==
    /\ alive
    /\ rpc[r] = "recheckLost"
    /\ IF IsConnected(target[r])
       THEN Write(r, "resent")
       ELSE rpc' = [rpc EXCEPT ![r] = "failing"] /\ UNCHANGED writes
    /\ NoRefreshBy
    /\ UNCHANGED <<flags, metadataRefreshTimer, connections, conn, metadata, cvars,
                   target, try, alive>>

RequestAnswered(r) ==
    /\ alive /\ Drained
    /\ rpc[r] \in {"sent", "resent"}
    /\ rpc' = [rpc EXCEPT ![r] = "resolved"]
    /\ UNCHANGED <<flags, isRefreshingMetadata, metadataRefreshTimer, connections, conn,
                   seeds, metadata, refresh, cvars, target, try, writes, alive>>

\* Any error but a DisconnectedError: a timeout, a failed write.
RequestFails(r) ==
    /\ alive /\ Drained
    /\ rpc[r] \in {"sent", "resent"}
    /\ rpc' = [rpc EXCEPT ![r] = "failing"]
    /\ UNCHANGED <<flags, isRefreshingMetadata, metadataRefreshTimer, connections, conn,
                   seeds, metadata, refresh, cvars, target, try, writes, alive>>

MutTryUntilAnswered(r) == AutoRefresh

MayTryAgain(r) == try[r] = 1 /\ AutoRefresh

\* The catch of sendToPartitionLeader(): any error of the first try refreshes
\* the metadata and tries once more.
TryAgain(r) ==
    /\ alive
    /\ rpc[r] = "failing"
    /\ IF MayTryAgain(r)
       THEN RefreshThen(r, "refreshLeader", "call") /\ try' = [try EXCEPT ![r] = 2]
       ELSE rpc' = [rpc EXCEPT ![r] = "rejected"] /\ UNCHANGED try /\ NoRefreshBy
    /\ UNCHANGED <<flags, metadataRefreshTimer, connections, conn, metadata, cvars,
                   target, writes, alive>>

-----------------------------------------------------------------------------
RefreshStep ==
    \/ RefreshSend \/ RefreshRequestFails \/ RefreshFails
    \/ \E B \in SUBSET Nodes, l \in Nodes \cup {NoNode} : RefreshAnswered(B, l)
    \/ \E n \in Nodes, P \in SUBSET Nodes : RefreshConnects(n, P)
    \/ \E n \in Nodes : RefreshSkips(n)
    \/ RefreshJoins \/ RefreshCannotJoin
    \/ \E n \in Nodes : RefreshRemoves(n)
    \/ RefreshDone

ConnectorStep(c) ==
    \/ NextSeed(c) \/ FetchApiVersions(c)
    \/ ApiVersionsAnswered(c) \/ ApiVersionsFails(c)

RequestStep(r) ==
    \/ rpc[r] = "call" /\ Call(r)
    \/ Recheck(r) \/ RequestLost(r) \/ RecheckLost(r)
    \/ RequestAnswered(r) \/ RequestFails(r) \/ TryAgain(r)

SeedStep(i) == SeedConnects(i) \/ SeedBreaks(i) \/ SeedEnds(i)

Next ==
    \/ RefreshStep
    \/ TimerFires
    \/ Close
    \/ \E c \in Connectors : Connect(c) \/ ConnectorStep(c)
    \/ \E r \in Requests : Call(r) \/ RequestStep(r)
    \/ \E i \in Seeds : SeedStep(i)
    \/ \E n \in Nodes : NodeLost(n)

Spec == Init /\ [][Next]_vars

\* A seed connects for the first time, or after attempts whose sockets are gone.
LoneAttempt(i) ==
    /\ seed[i] = "connecting" /\ ~Reused(i)
    /\ SeedConnects(i) \/ SeedBreaks(i)

(* Continuations run, and a promise of a connection settles: send() as     *)
(* shown in BrokerConnection (RequestsSettle), connect() of an object with *)
(* one socket too (ConnectSettles): that is every new connection of a      *)
(* refresh, and a seed's attempt that no earlier socket of the seed can    *)
(* disturb.  Nothing is assumed of a seed that has let go of a socket, nor *)
(* of one whose connect() has thrown: theirs may hang (the run             *)
(* Connection_reconnect_hangs).  Fairness is strong where Drained makes an *)
(* event wait: the event loop takes its events in turn, and a continuation *)
(* of somebody else delays an event that is due but does not cancel it.    *)
Fairness ==
    /\ SF_vars(RefreshStep)
    /\ \A c \in Connectors : SF_vars(ConnectorStep(c))
    /\ \A r \in Requests : SF_vars(RequestStep(r))
    /\ \A i \in Seeds : SF_vars(LoneAttempt(i))

FairSpec == Spec /\ Fairness

-----------------------------------------------------------------------------
(* Safety.                                                                 *)

WaitingForRefresh(p) ==
    \/ p \in Requests /\ rpc[p] \in {"refresh", "refreshLost", "refreshLeader"}
    \/ p \in Connectors /\ cpc[p] = "refresh"

\* isRefreshingMetadata is set exactly while one caller's refresh runs, and
\* nobody awaits a refresh that no longer does: whichever await of it fails,
\* is overtaken by close() or loses its broker, the flag never locks out all
\* later refreshes.
RefreshIsOwned ==
    /\ isRefreshingMetadata <=> refresh.by # Nobody
    /\ refresh.by = Nobody <=> refresh.pc = "idle"
    /\ \A p \in Requests \cup Connectors : WaitingForRefresh(p) <=> refresh.by = p

\* A request, an ApiVersions or a metadata request is only awaited on a
\* connection that is connected and still known to the client: what loses a
\* connection (the broker, the removal of a broker from the metadata, close())
\* ends the waits on it.
SentOnLiveConnection ==
    /\ \A r \in Requests : rpc[r] \in {"sent", "resent"} => IsConnected(target[r])
    /\ \A c \in Connectors : cpc[c] = "api" => IsConnected(at[c])
    /\ refresh.pc = "sent" => IsConnected(refresh.via)

\* The map has one connection per node: no refresh, whatever close() did to
\* the map while it waited, connects a node that is in the map, and so
\* none is overwritten while it is open.
OneConnectionPerNode ==
    /\ Len(connections) = Cardinality(InMap)
    /\ \A n \in InMap : \E k \in 1 .. Len(connections) : connections[k] = n

\* Once the client is ready its metadata is refreshed for ever, until it is
\* closed: a failed, skipped or overlapping refresh always arms the next.
TimerSurvives ==
    AutoRefresh /\ isInitialized /\ ~isClosed => metadataRefreshTimer \/ refresh.by = Timer

(* Liveness.                                                               *)

\* It awaits a connect() that may never settle, with its own await or with
\* that of its refresh: the seed had another socket, or connect() has thrown.
MayHang(p) ==
    \E i \in Seeds : p \in Awaiting(i) /\ (Reused(i) \/ seed[i] \in {"bad", "stuck"})

\* A call of sendToPartitionLeader() settles, through at most two tries with
\* two writes each and three refreshes, whatever brokers, close() and other
\* callers do, unless a seed's connect() hangs under a refresh of its own: a
\* refresh of somebody else that hangs does not hold it up.
RequestsSettle ==
    \A r \in Requests :
        []<>~MayHang(r) =>
            (rpc[r] # "idle" ~> rpc[r] \in {"resolved", "rejected"} \/ ~alive)

\* A refresh ends, and with it the exclusion of all others, unless it is
\* itself held up by a seed's connect() that hangs: nothing else in it can
\* leave isRefreshingMetadata set.
RefreshEnds ==
    []<>(\A p \in Callers : refresh.by = p => ~MayHang(p)) =>
        (isRefreshingMetadata ~> ~isRefreshingMetadata \/ ~alive)

\* connect() settles, also when refreshes use its seeds and when close() runs
\* meanwhile, unless it awaits a seed's connect() that hangs.
ConnectSettles ==
    \A c \in Connectors :
        []<>~MayHang(c) =>
            (cpc[c] # "idle" ~> cpc[c] \in {"ready", "failed"} \/ ~alive)

(* What the code's comments say and the code does not keep (findings).     *)

\* "Close all connections" (close): a closed client has none.
ClosedHasNoConnection == isClosed => \A b \in Brokers : ~IsConnected(b)

\* "Try to refresh metadata and get a new connection" (sendRequest): when the
\* refresh succeeds and lists the broker, the connection is not the dead one.
DeadConnectionReplaced ==
    [][\A r \in Requests :
          rpc[r] = "refresh" /\ rpc'[r] = "recheck" /\ target[r] \in refresh.listed
              => conn[target[r]] # "dead"]_vars
=============================================================================

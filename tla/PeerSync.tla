------------------------------ MODULE PeerSync ------------------------------
(***************************************************************************)
(* Replication of the in-memory registry between the nodes of a cluster    *)
(* (core.ha.go, core.ha.peertalk.go) on top of the store of every node     *)
(* (storage.mem.go).                                                       *)
(*                                                                         *)
(* Every node c runs one PeerSyncWorker for every peer p it is configured  *)
(* with: it drops what it mirrors of p, authenticates, fetches p's own     *)
(* services in full, and from then on polls the changes p has collected    *)
(* for it, with a full fetch from time to time.  A single                  *)
(* ProcessSyncWorker per node stores what the workers receive.  As a       *)
(* server, a node answers the three requests and forgets, with             *)
(* CheckPeerHealth, the clients it has not heard of for 20 seconds.        *)
(*                                                                         *)
(* A request is one call of a worker.  Its connection may break at any     *)
(* time; the server may then still receive and answer the request, which   *)
(* is "stray" from then on: nobody waits for the answer.  Nodes crash and  *)
(* restart with an empty store.                                            *)
(***************************************************************************)
EXTENDS ServiceMap, Sequences

CONSTANTS
    Node,             \* NodeId of the members of the cluster
    NodePeerMapping,  \* the peers each node is configured with, itself left out
    ClusterName,      \* what each node is configured with
    ClusterSecret,
    MaxRetry,         \* failed incremental queries in a row a worker accepts (10)
    FullMin,          \* incremental queries before a full one may come (590)
    FullJitter,       \* the range of the random part of that number (20)
    Publisher,        \* nodes whose HTTP endpoint registers services
    MaxStray          \* bound: requests of one client that are stray at a time

ASSUME ConfigAssumption ==
    /\ NodePeerMapping \in [Node -> SUBSET Node]
    /\ \A n \in Node : n \notin NodePeerMapping[n] /\ IsFiniteSet(NodePeerMapping[n])
    /\ MaxRetry \in Nat
    /\ FullMin \in Nat
    /\ FullJitter \in Nat \ {0}
    /\ Publisher \subseteq Node
    /\ MaxStray \in Nat

VARIABLES
    services,           \* MemStore.services: what queries are answered from
    currentServices,    \* MemStore.currentServices: registered at the node itself
    dataFrom,           \* MemStore.dataFrom: mirror of each peer, or Absent
    dataTo,             \* MemStore.dataTo: changes pending for each watching peer
    ClientPeerMapping,  \* "none", or whether the client's LastUpdate is recent
    SyncQueue,          \* peers whose data waits for the node's ProcessSyncWorker
    wpc,                \* where the PeerSyncWorker of a node for a peer is
    call,               \* the request the worker waits for
    body,               \* what the last request of the worker returned
    retryCnt,
    queryCount,
    stray,              \* requests of a worker that still run after it gave up on them
    snapshot            \* history: what the peer had when it last answered the worker,
                        \* Absent when changes for the worker got lost since then

storeVars  == <<services, currentServices, dataFrom, dataTo>>
serverVars == <<dataTo, ClientPeerMapping>>
workerVars == <<wpc, call, body, retryCnt, queryCount>>
vars == <<services, currentServices, dataFrom, dataTo, ClientPeerMapping,
          SyncQueue, wpc, call, body, retryCnt, queryCount, stray, snapshot>>

Pairs == {cp \in Node \X Node : cp[2] \in NodePeerMapping[cp[1]]}

WorkerPlace == {"start", "auth", "full", "applyFull", "poll", "inc", "applyInc"}
CallState   == {"idle", "sent", "checked", "ok", "fail"}
StrayKind   == {"auth", "full", "fullChecked", "inc", "incChecked"}

TypeOK ==
    /\ services          \in [Node -> Services]
    /\ currentServices   \in [Node -> Services]
    /\ dataFrom          \in [Node -> [Node -> Services \cup {Absent}]]
    /\ dataTo            \in [Node -> [Node -> Changes \cup {Absent}]]
    /\ ClientPeerMapping \in [Node -> [Node -> {"none", "fresh", "stale"}]]
    /\ SyncQueue         \in [Node -> Seq(Node)]
    /\ wpc               \in [Node -> [Node -> WorkerPlace]]
    /\ call              \in [Node -> [Node -> CallState]]
    /\ body              \in [Node -> [Node -> Services \cup Changes \cup {Absent}]]
    /\ retryCnt          \in [Node -> [Node -> 0..MaxRetry]]
    /\ queryCount        \in [Node -> [Node -> 0..(FullMin + FullJitter - 1)]]
    /\ stray             \in [Node -> [Node -> SUBSET StrayKind]]
    /\ snapshot          \in [Node -> [Node -> Services \cup {Absent}]]

Const2(v) == [c \in Node |-> [p \in Node |-> v]]

Init ==
    /\ services          = [n \in Node |-> NoServices]
    /\ currentServices   = [n \in Node |-> NoServices]
    /\ dataFrom          = Const2(Absent)
    /\ dataTo            = Const2(Absent)
    /\ ClientPeerMapping = Const2("none")
    /\ SyncQueue         = [n \in Node |-> << >>]
    /\ wpc               = Const2("start")
    /\ call              = Const2("idle")
    /\ body              = Const2(Absent)
    /\ retryCnt          = Const2(0)
    /\ queryCount        = Const2(0)
    /\ stray             = Const2({})
    /\ snapshot          = Const2(Absent)

-----------------------------------------------------------------------------
(***************************************************************************)
(* The store: registrations that arrive at node n.                         *)
(***************************************************************************)

\* What changes in every watching peer's pending list when item k is
\* registered or removed at n.
PendAt(n, P(_)) ==
    dataTo' = [dataTo EXCEPT ![n] =
                  [c \in Node |-> IF dataTo[n][c] = Absent THEN Absent
                                  ELSE P(dataTo[n][c])]]

PublishService(n, k, a) ==
    /\ n \in Publisher
    /\ services' = [services EXCEPT ![n] = SetItem(services[n], k, a)]
    /\ currentServices' = [currentServices EXCEPT ![n] = SetItem(currentServices[n], k, a)]
    /\ PendAt(n, LAMBDA ch : PendPublish(ch, k, a))
    /\ UNCHANGED <<dataFrom, ClientPeerMapping, SyncQueue, workerVars, stray, snapshot>>

DeleteService(n, k) ==
    /\ n \in Publisher
    /\ services' = [services EXCEPT ![n] = DropItem(services[n], k)]
    /\ currentServices' = [currentServices EXCEPT ![n] = DropItem(currentServices[n], k)]
    /\ PendAt(n, LAMBDA ch : PendDelete(ch, k))
    /\ UNCHANGED <<dataFrom, ClientPeerMapping, SyncQueue, workerVars, stray, snapshot>>

\* buildMemData at n once its mirrors are `from'.
Rebuild(n, from) ==
    \E m \in Services :
        /\ IsBuiltFrom(m, currentServices[n], from)
        /\ services' = [services EXCEPT ![n] = m]

-----------------------------------------------------------------------------
(***************************************************************************)
(* Node p as a server.                                                     *)
(***************************************************************************)

\* A bug to catch: one matching credential is enough.
EitherMatches(c, p) == ClusterName[c] = ClusterName[p] \/ ClusterSecret[c] = ClusterSecret[p]

\* The handlers compare the credentials in the headers with the node's own.
SameCluster(c, p) == ClusterName[c] = ClusterName[p] /\ ClusterSecret[c] = ClusterSecret[p]

\* updateClientTime: LastUpdate becomes the current time.
UpdateClientTime(p, c) ==
    ClientPeerMapping' = [ClientPeerMapping EXCEPT ![p][c] = "fresh"]

\* FetchFullAndWatch: an existing watch keeps its pending changes.
Watch(p, c) ==
    dataTo' = [dataTo EXCEPT ![p][c] = IF @ = Absent THEN NoChanges ELSE @]

\* A bug to catch: the fetch removes the watch with the changes.
TakeChangesUnwatches(p, c) == dataTo' = [dataTo EXCEPT ![p][c] = Absent]

\* FetchChangesForPeerNodeRequest hands the pending changes out once.
TakeChanges(p, c) ==
    dataTo' = [dataTo EXCEPT ![p][c] = IF @ = Absent THEN Absent ELSE NoChanges]

Reply(c, p, state, data) ==
    /\ call' = [call EXCEPT ![c][p] = state]
    /\ body' = [body EXCEPT ![c][p] = data]

\* httpClusterAuth
HttpClusterAuth(c, p) ==
    /\ wpc[c][p] = "auth" /\ call[c][p] = "sent"
    /\ UpdateClientTime(p, c)
    /\ Reply(c, p, IF SameCluster(c, p) THEN "ok" ELSE "fail", Absent)
    /\ UNCHANGED <<storeVars, SyncQueue, wpc, retryCnt, queryCount, stray, snapshot>>

\* httpClusterFull up to the credential check.  The store is locked later.
HttpClusterFullCheck(c, p) ==
    /\ wpc[c][p] = "full" /\ call[c][p] = "sent"
    /\ UpdateClientTime(p, c)
    /\ Reply(c, p, IF SameCluster(c, p) THEN "checked" ELSE "fail", Absent)
    /\ UNCHANGED <<storeVars, SyncQueue, wpc, retryCnt, queryCount, stray, snapshot>>

\* httpClusterFull from FetchFullAndWatch on.
HttpClusterFull(c, p) ==
    /\ wpc[c][p] = "full" /\ call[c][p] = "checked"
    /\ Watch(p, c)
    /\ Reply(c, p, "ok", currentServices[p])
    /\ snapshot' = [snapshot EXCEPT ![c][p] = currentServices[p]]
    /\ UNCHANGED <<services, currentServices, dataFrom, ClientPeerMapping, SyncQueue,
                   wpc, retryCnt, queryCount, stray>>

\* httpClusterIncremental up to the credential check; a client the server does
\* not know is refused.
HttpClusterIncrementalCheck(c, p) ==
    /\ wpc[c][p] = "inc" /\ call[c][p] = "sent"
    /\ IF ClientPeerMapping[p][c] = "none"
       THEN /\ Reply(c, p, "fail", Absent)
            /\ UNCHANGED ClientPeerMapping
       ELSE /\ UpdateClientTime(p, c)
            /\ Reply(c, p, IF SameCluster(c, p) THEN "checked" ELSE "fail", Absent)
    /\ UNCHANGED <<storeVars, SyncQueue, wpc, retryCnt, queryCount, stray, snapshot>>

\* httpClusterIncremental from FetchChangesForPeerNodeRequest on.
HttpClusterIncremental(c, p) ==
    /\ wpc[c][p] = "inc" /\ call[c][p] = "checked"
    /\ TakeChanges(p, c)
    /\ Reply(c, p, IF dataTo[p][c] = Absent THEN "fail" ELSE "ok", dataTo[p][c])
    /\ snapshot' = [snapshot EXCEPT ![c][p] = IF @ = Absent THEN @ ELSE currentServices[p]]
    /\ UNCHANGED <<services, currentServices, dataFrom, ClientPeerMapping, SyncQueue,
                   wpc, retryCnt, queryCount, stray>>

\* CheckPeerHealth: the clients that were silent for too long lose their watch.
CheckPeerHealth(p) ==
    LET rlist == {c \in Node : ClientPeerMapping[p][c] = "stale"}
    IN  /\ rlist # {}
        /\ dataTo' = [dataTo EXCEPT ![p] =
                         [c \in Node |-> IF c \in rlist THEN Absent ELSE dataTo[p][c]]]
        /\ ClientPeerMapping' = [ClientPeerMapping EXCEPT ![p] =
                         [c \in Node |-> IF c \in rlist THEN "none" ELSE @[c]]]
        /\ snapshot' = [c \in Node |-> IF c \in rlist THEN [snapshot[c] EXCEPT ![p] = Absent]
                                       ELSE snapshot[c]]
        /\ UNCHANGED <<services, currentServices, dataFrom, SyncQueue, workerVars, stray>>

-----------------------------------------------------------------------------
(***************************************************************************)
(* Node c as a client: PeerSyncWorker(p) and ProcessSyncWorker.            *)
(***************************************************************************)

Send(c, p, request) ==
    /\ wpc'  = [wpc EXCEPT ![c][p] = request]
    /\ call' = [call EXCEPT ![c][p] = "sent"]
    /\ body' = [body EXCEPT ![c][p] = Absent]

\* The worker is at `place' and has no request under way.
Continue(c, p, place) ==
    /\ wpc'  = [wpc EXCEPT ![c][p] = place]
    /\ call' = [call EXCEPT ![c][p] = "idle"]

\* A bug to catch: Abandon drops the mirror and leaves the merged view alone.
StartSyncingNoRebuild(c, p) ==
    /\ p \in NodePeerMapping[c]
    /\ wpc[c][p] = "start"
    /\ dataFrom' = [dataFrom EXCEPT ![c][p] = Absent]
    /\ Send(c, p, "auth")
    /\ snapshot' = [snapshot EXCEPT ![c][p] = Absent]
    /\ retryCnt' = [retryCnt EXCEPT ![c][p] = 0]
    /\ queryCount' = [queryCount EXCEPT ![c][p] = 0]
    /\ UNCHANGED <<services, currentServices, serverVars, SyncQueue, stray>>

\* MainLoop: Abandon(peerNodeId), then connectRemote.
StartSyncing(c, p) ==
    /\ p \in NodePeerMapping[c]
    /\ wpc[c][p] = "start"
    /\ dataFrom' = [dataFrom EXCEPT ![c][p] = Absent]
    /\ IF dataFrom[c][p] = Absent THEN UNCHANGED services
                                  ELSE Rebuild(c, [dataFrom[c] EXCEPT ![p] = Absent])
    /\ Send(c, p, "auth")
    /\ snapshot' = [snapshot EXCEPT ![c][p] = Absent]
    /\ retryCnt' = [retryCnt EXCEPT ![c][p] = 0]
    /\ queryCount' = [queryCount EXCEPT ![c][p] = 0]
    /\ UNCHANGED <<currentServices, serverVars, SyncQueue, stray>>

\* connectRemote returns.
OnAuth(c, p) ==
    /\ wpc[c][p] = "auth"
    /\ \/ call[c][p] = "ok"   /\ Send(c, p, "full")
       \/ call[c][p] = "fail" /\ Continue(c, p, "start") /\ UNCHANGED body
    /\ UNCHANGED <<storeVars, ClientPeerMapping, SyncQueue, retryCnt, queryCount, stray, snapshot>>

\* A bug to catch: the worker goes on without waiting for fullReq.Err.
OnFullNoWait(c, p) ==
    /\ wpc[c][p] = "full"
    /\ \/ /\ call[c][p] = "ok"
          /\ Continue(c, p, "poll")
          /\ SyncQueue' = [SyncQueue EXCEPT ![c] = Append(@, p)]
       \/ /\ call[c][p] = "fail"
          /\ Continue(c, p, "start")
          /\ UNCHANGED SyncQueue
    /\ UNCHANGED <<storeVars, ClientPeerMapping, body, retryCnt, queryCount, stray, snapshot>>

\* queryFullDataSet returns; the data goes to the ProcessSyncWorker.
OnFull(c, p) ==
    /\ wpc[c][p] = "full"
    /\ \/ /\ call[c][p] = "ok"
          /\ Continue(c, p, "applyFull")
          /\ SyncQueue' = [SyncQueue EXCEPT ![c] = Append(@, p)]
       \/ /\ call[c][p] = "fail"
          /\ Continue(c, p, "start")
          /\ UNCHANGED SyncQueue
    /\ UNCHANGED <<storeVars, ClientPeerMapping, body, retryCnt, queryCount, stray, snapshot>>

\* A bug to catch: the retries are counted and never limited.
OnIncrementalNoLimit(c, p) ==
    /\ wpc[c][p] = "inc" /\ call[c][p] = "fail"
    /\ Continue(c, p, "poll")
    /\ retryCnt' = [retryCnt EXCEPT ![c][p] = @ + 1]
    /\ UNCHANGED <<storeVars, ClientPeerMapping, SyncQueue, body, queryCount, stray, snapshot>>

\* queryIncrementalData returns.
OnIncremental(c, p) ==
    /\ wpc[c][p] = "inc"
    /\ \/ /\ call[c][p] = "ok"
          /\ Continue(c, p, "applyInc")
          /\ SyncQueue' = [SyncQueue EXCEPT ![c] = Append(@, p)]
          /\ retryCnt' = [retryCnt EXCEPT ![c][p] = 0]
       \/ /\ call[c][p] = "fail" /\ retryCnt[c][p] < MaxRetry
          /\ Continue(c, p, "poll")
          /\ retryCnt' = [retryCnt EXCEPT ![c][p] = @ + 1]
          /\ UNCHANGED SyncQueue
       \/ /\ call[c][p] = "fail" /\ retryCnt[c][p] = MaxRetry
          /\ Continue(c, p, "start")
          /\ UNCHANGED <<SyncQueue, retryCnt>>
    /\ UNCHANGED <<storeVars, ClientPeerMapping, body, queryCount, stray, snapshot>>

\* A bug to catch: when a full fetch is due, the changes are fetched as always.
PollNeverFull(c, p) ==
    /\ wpc[c][p] = "poll"
    /\ Send(c, p, "inc")
    /\ queryCount' = [queryCount EXCEPT ![c][p] = IF @ < FullMin THEN @ ELSE 0]
    /\ UNCHANGED <<storeVars, ClientPeerMapping, SyncQueue, retryCnt, stray, snapshot>>

\* NextTrigger: queryCount < rand.Intn(20)+590 decides what is fetched next.
Poll(c, p) ==
    /\ wpc[c][p] = "poll"
    /\ \/ queryCount[c][p] < FullMin + FullJitter - 1 /\ Send(c, p, "inc")
       \/ queryCount[c][p] >= FullMin                 /\ Send(c, p, "full")
    /\ UNCHANGED <<storeVars, ClientPeerMapping, SyncQueue, retryCnt, queryCount, stray, snapshot>>

\* A bug to catch: the data is stored and req.Err never answered.
StoreMirrorNoAnswer(c, p, data, count) ==
    /\ dataFrom' = [dataFrom EXCEPT ![c][p] = data]
    /\ Rebuild(c, [dataFrom[c] EXCEPT ![p] = data])
    /\ UNCHANGED <<queryCount, wpc>>

\* ProcessSyncWorker takes one request, stores its data with FullFrom or
\* SyncFrom, and answers the PeerSyncWorker that waits for it.
StoreMirror(c, p, data, count) ==
    /\ dataFrom' = [dataFrom EXCEPT ![c][p] = data]
    /\ Rebuild(c, [dataFrom[c] EXCEPT ![p] = data])
    /\ queryCount' = [queryCount EXCEPT ![c][p] = count]
    /\ wpc' = [wpc EXCEPT ![c][p] = "poll"]

\* Two paths of it are left out because no answer of a node that runs this code
\* leads there: a request with neither Full nor Add nor Del, which nobody would
\* answer, and data that FullFrom or SyncFrom cannot decode, which is answered
\* with an error.  FetchFullAndWatch and FetchChangesForPeerNodeRequest always
\* return maps with the default key, and a body that is cut off fails in
\* json.Unmarshal, before anything is queued.
ProcessSyncWorker(c) ==
    /\ SyncQueue[c] # << >>
    /\ SyncQueue' = [SyncQueue EXCEPT ![c] = Tail(@)]
    /\ LET p == Head(SyncQueue[c])
       IN  /\ IF wpc[c][p] = "applyFull"
              THEN StoreMirror(c, p, body[c][p], 0)
              ELSE IF dataFrom[c][p] # Absent
              THEN StoreMirror(c, p, ApplyChanges(body[c][p], dataFrom[c][p]),
                               queryCount[c][p] + 1)
              ELSE \* "node not exist"
                   /\ wpc' = [wpc EXCEPT ![c][p] = "start"]
                   /\ UNCHANGED <<services, dataFrom, queryCount>>
           /\ body' = [body EXCEPT ![c][p] = Absent]
    /\ UNCHANGED <<currentServices, serverVars, call, retryCnt, stray, snapshot>>

-----------------------------------------------------------------------------
(***************************************************************************)
(* The environment: time, the network and crashes.                         *)
(***************************************************************************)

\* 20 seconds go by without a request of client c.
Age(p, c) ==
    /\ ClientPeerMapping[p][c] = "fresh"
    /\ ClientPeerMapping' = [ClientPeerMapping EXCEPT ![p][c] = "stale"]
    /\ UNCHANGED <<storeVars, SyncQueue, workerVars, stray, snapshot>>

\* The request the worker waits for as a stray one: where the server is with it.
AsStray(c, p) ==
    IF call[c][p] # "checked" THEN wpc[c][p]
    ELSE IF wpc[c][p] = "full" THEN "fullChecked" ELSE "incChecked"

\* The stray requests of c at p after c stopped waiting for its request: one
\* the server has begun with runs to its end, one on its way may get lost.
StrayAfterGivingUp(c, p, delivered) ==
    stray[c][p] \cup
    IF call[c][p] = "checked" \/ (call[c][p] = "sent" /\ delivered) THEN {AsStray(c, p)} ELSE {}

Waiting(c, p) == call[c][p] \in {"sent", "checked", "ok"}

\* An incremental answer that does not reach the worker takes its changes along.
DropsChanges(c, p) ==
    wpc[c][p] = "inc" /\ call[c][p] = "ok" /\ body[c][p] # NoChanges

\* The worker loses the connection it waits on.
GiveUp(c, p) ==
    /\ \E delivered \in BOOLEAN :
          /\ Cardinality(StrayAfterGivingUp(c, p, delivered)) <= MaxStray
          /\ stray' = [stray EXCEPT ![c][p] = StrayAfterGivingUp(c, p, delivered)]
    /\ snapshot' = [snapshot EXCEPT ![c][p] = IF DropsChanges(c, p) THEN Absent ELSE @]

\* The connection breaks while the worker waits for the answer or reads it.
Disconnect(c, p) ==
    /\ Waiting(c, p)
    /\ GiveUp(c, p)
    /\ Reply(c, p, "fail", Absent)
    /\ UNCHANGED <<storeVars, ClientPeerMapping, SyncQueue, wpc, retryCnt, queryCount>>

\* The HTTP transport sends a GET again when a kept-alive connection is closed
\* before the first byte of the answer.
TransportRetry(c, p) ==
    /\ Waiting(c, p) /\ wpc[c][p] \in {"full", "inc"}
    /\ GiveUp(c, p)
    /\ Reply(c, p, "sent", Absent)
    /\ UNCHANGED <<storeVars, ClientPeerMapping, SyncQueue, wpc, retryCnt, queryCount>>

\* The server works on a stray request: the handlers above, nobody to answer.
\* The set stands for any number of requests of each kind, so one may remain.
StrayMoves(c, p, from, to) ==
    /\ from \in stray[c][p]
    /\ \E rest \in {stray[c][p], stray[c][p] \ {from}} :
          /\ Cardinality(rest \cup to) <= MaxStray
          /\ stray' = [stray EXCEPT ![c][p] = rest \cup to]
    /\ UNCHANGED <<services, currentServices, dataFrom, SyncQueue, workerVars>>

StrayAuth(c, p) ==
    /\ StrayMoves(c, p, "auth", {})
    /\ UpdateClientTime(p, c)
    /\ UNCHANGED <<dataTo, snapshot>>

StrayFullCheck(c, p) ==
    /\ StrayMoves(c, p, "full", IF SameCluster(c, p) THEN {"fullChecked"} ELSE {})
    /\ UpdateClientTime(p, c)
    /\ UNCHANGED <<dataTo, snapshot>>

StrayFull(c, p) ==
    /\ StrayMoves(c, p, "fullChecked", {})
    /\ Watch(p, c)
    /\ UNCHANGED <<ClientPeerMapping, snapshot>>

StrayIncrementalCheck(c, p) ==
    /\ IF ClientPeerMapping[p][c] = "none"
       THEN StrayMoves(c, p, "inc", {}) /\ UNCHANGED ClientPeerMapping
       ELSE /\ StrayMoves(c, p, "inc", IF SameCluster(c, p) THEN {"incChecked"} ELSE {})
            /\ UpdateClientTime(p, c)
    /\ UNCHANGED <<dataTo, snapshot>>

StrayIncremental(c, p) ==
    /\ StrayMoves(c, p, "incChecked", {})
    /\ TakeChanges(p, c)
    /\ snapshot' = [snapshot EXCEPT ![c][p] =
                       IF dataTo[p][c] \in {Absent, NoChanges} THEN @ ELSE Absent]
    /\ UNCHANGED ClientPeerMapping

\* Node n crashes and starts again with nothing: NewMemStore, NewHaModule.
CrashRestart(n) ==
    /\ services'          = [services EXCEPT ![n] = NoServices]
    /\ currentServices'   = [currentServices EXCEPT ![n] = NoServices]
    /\ dataFrom'          = [dataFrom EXCEPT ![n] = [p \in Node |-> Absent]]
    /\ dataTo'            = [dataTo EXCEPT ![n] = [c \in Node |-> Absent]]
    /\ ClientPeerMapping' = [ClientPeerMapping EXCEPT ![n] = [c \in Node |-> "none"]]
    /\ SyncQueue'         = [SyncQueue EXCEPT ![n] = << >>]
    /\ wpc'               = [wpc EXCEPT ![n] = [p \in Node |-> "start"]]
    /\ body'              = [body EXCEPT ![n] = [p \in Node |-> Absent]]
    /\ retryCnt'          = [retryCnt EXCEPT ![n] = [p \in Node |-> 0]]
    /\ queryCount'        = [queryCount EXCEPT ![n] = [p \in Node |-> 0]]
    \* the requests n was working on break off, those n had sent become stray
    /\ call' = [c \in Node |-> [p \in Node |->
                   IF c = n THEN "idle"
                   ELSE IF p = n /\ call[c][p] = "checked" THEN "fail"
                   ELSE call[c][p]]]
    /\ \E delivered \in SUBSET {p \in Node : call[n][p] = "sent"} :
          LET s == [p \in Node |-> StrayAfterGivingUp(n, p, p \in delivered)]
          IN  /\ \A p \in Node : Cardinality(s[p]) <= MaxStray
              /\ stray' = [c \in Node |-> IF c = n THEN s ELSE [stray[c] EXCEPT ![n] = {}]]
    /\ snapshot' = [c \in Node |-> [p \in Node |->
                       IF n \in {c, p} THEN Absent ELSE snapshot[c][p]]]

-----------------------------------------------------------------------------
\* What the code does by itself once it is started.
Worker(c, p) ==
    \/ StartSyncing(c, p) \/ OnAuth(c, p) \/ OnFull(c, p) \/ OnIncremental(c, p)
    \/ Poll(c, p)

Handler(c, p) ==
    \/ HttpClusterAuth(c, p)
    \/ HttpClusterFullCheck(c, p) \/ HttpClusterFull(c, p)
    \/ HttpClusterIncrementalCheck(c, p) \/ HttpClusterIncremental(c, p)

System ==
    \/ \E cp \in Pairs : Worker(cp[1], cp[2]) \/ Handler(cp[1], cp[2])
    \/ \E n \in Node : ProcessSyncWorker(n) \/ CheckPeerHealth(n)

Registrations ==
    \E n \in Node, k \in Key : DeleteService(n, k) \/ \E a \in Addr : PublishService(n, k, a)

Stray(c, p) ==
    \/ StrayAuth(c, p)
    \/ StrayFullCheck(c, p) \/ StrayFull(c, p)
    \/ StrayIncrementalCheck(c, p) \/ StrayIncremental(c, p)

NetworkFaults ==
    \E cp \in Pairs :
        \/ Age(cp[2], cp[1]) \/ Disconnect(cp[1], cp[2]) \/ TransportRetry(cp[1], cp[2])
        \/ Stray(cp[1], cp[2])

Faults == NetworkFaults \/ \E n \in Node : CrashRestart(n)

Next == System \/ Registrations \/ Faults

Spec == Init /\ [][Next]_vars

Fairness ==
    /\ \A cp \in Pairs : WF_vars(Worker(cp[1], cp[2])) /\ WF_vars(Handler(cp[1], cp[2]))
    /\ \A n \in Node : WF_vars(ProcessSyncWorker(n)) /\ WF_vars(CheckPeerHealth(n))

FairSpec == Spec /\ Fairness
-----------------------------------------------------------------------------
(***************************************************************************)
(* Properties.                                                             *)
(***************************************************************************)

\* The worker has stored a full data set and polls for changes.
Mirroring(c, p) == wpc[c][p] \in {"poll", "inc", "applyInc"}

\* What the mirror of p at c will be once the answer c has received is stored.
Base(c, p) ==
    IF wpc[c][p] \in {"full", "applyFull"} THEN body[c][p]
    ELSE IF body[c][p] # Absent THEN ApplyChanges(body[c][p], dataFrom[c][p])
    ELSE dataFrom[c][p]

\* c has, or is about to have, a mirror of p that changes are applied to.
InChain(c, p) ==
    \/ Mirroring(c, p)
    \/ wpc[c][p] = "applyFull"
    \/ wpc[c][p] = "full" /\ call[c][p] = "ok"

\* Whatever is pending for a watching peer repeats what the node has now:
\* handing it out after a full fetch, which keeps an old pending list
\* (FetchFullAndWatch), never undoes newer registrations.
PendingAgrees ==
    \A p, c \in Node : dataTo[p][c] # Absent =>
        ApplyChanges(dataTo[p][c], currentServices[p]) = currentServices[p]

\* No registration or removal is skipped and none is half applied, however
\* publishing, fetching and storing interleave: the mirror (with the answer
\* under way) is exactly what the peer had when it last answered, and the
\* changes pending for it lead from there to what the peer has now; unless an
\* answer was dropped, a stray request took the changes, or the watch was
\* removed since.
MirrorChain ==
    \A c, p \in Node : InChain(c, p) /\ snapshot[c][p] # Absent =>
        /\ Base(c, p) = snapshot[c][p]
        /\ dataTo[p][c] # Absent
        /\ ApplyChanges(dataTo[p][c], snapshot[c][p]) = currentServices[p]

\* SyncFrom finds the mirror it is to change: a polling worker always has one,
\* so "node not exist" (storage.mem.go) never restarts the worker.
SyncNeverOrphaned ==
    \A c, p \in Node : Mirroring(c, p) => dataFrom[c][p] # Absent

\* Every worker that waits for ProcessSyncWorker has exactly one request in the
\* queue and every request has its worker waiting: no answer is sent to the
\* wrong worker, none waits for ever, and the queue holds at most one request
\* per peer, far below its capacity.
QueueMatchesWaiting ==
    \A c \in Node :
        /\ {p \in Node : wpc[c][p] \in {"applyFull", "applyInc"}} = Range(SyncQueue[c])
        /\ Len(SyncQueue[c]) = Cardinality(Range(SyncQueue[c]))
        /\ Len(SyncQueue[c]) <= Cardinality(NodePeerMapping[c])

\* Queries are answered with registrations that are in force somewhere the node
\* knows of: an address shown for an item is the one registered at the node
\* itself or the one of a peer's mirror, never one of a mirror abandoned.
NoPhantomService ==
    \A n \in Node, k \in Key : services[n][k] # NoAddr =>
        \/ services[n][k] = currentServices[n][k]
        \/ \E p \in Node : dataFrom[n][p] # Absent /\ services[n][k] = dataFrom[n][p][k]

\* Registrations only travel between nodes of the same cluster name and secret,
\* whatever requests are retried, delayed or abandoned half way.
OnlySameCluster ==
    \A c, p \in Node : dataFrom[c][p] # Absent \/ dataTo[p][c] # Absent =>
        ClusterName[c] = ClusterName[p] /\ ClusterSecret[c] = ClusterSecret[p]

\* "only the latest registration will be effect" (README): a registration in
\* effect at the node it was made at stays so until it is changed there or a
\* peer's mirror brings something new for the item.
LatestRegistrationStays ==
    [][\A n \in Node, k \in Key :
          /\ services[n][k] = currentServices[n][k] /\ services[n][k] # NoAddr
          /\ currentServices'[n][k] = currentServices[n][k]
          /\ dataFrom'[n] = dataFrom[n]
          => services'[n][k] = services[n][k]]_vars

\* After the last fault and the last registration the mirrors catch up.
Quiet == <>[][System]_vars

Holders(n, k) ==
    {currentServices[n][k]} \cup
    {currentServices[p][k] : p \in {q \in NodePeerMapping[n] : SameCluster(n, q)}}

Caught(n) ==
    /\ \A p \in NodePeerMapping[n] :
          dataFrom[n][p] = IF SameCluster(n, p) THEN currentServices[p] ELSE Absent
    /\ \A k \in Key : IF Holders(n, k) = {NoAddr} THEN services[n][k] = NoAddr
                       ELSE services[n][k] \in Holders(n, k) \ {NoAddr}

\* Convergence: once registrations and faults cease, every node's mirrors
\* become and stay what its peers have, and its queries are answered from all
\* of them, whatever was lost on the way: the full fetch after FullMin polls,
\* or the restart after MaxRetry failures, repairs it.
Convergence == Quiet => \A n \in Node : NodePeerMapping[n] # {} => <>[]Caught(n)
=============================================================================

----------------------- MODULE PeerSyncClusterProofs -----------------------
(***************************************************************************)
(* What queries show, who may mirror whom and who waits for the            *)
(* ProcessSyncWorker, for every cluster: any number of peers per node, any *)
(* credentials.  All rest on the inductive invariant of PeerSyncProofs.    *)
(***************************************************************************)
EXTENDS PeerSyncProofs, FiniteSetTheorems

(***************************************************************************)
(* NoPhantomService is inductive by itself: the view changes only together *)
(* with the node's own services, or is rebuilt from them and the mirrors.  *)
(***************************************************************************)

\* The address shown for item k at n has a holder.
Shown(n, k) ==
    services[n][k] # NoAddr =>
        \/ services[n][k] = currentServices[n][k]
        \/ \E p \in Node : dataFrom[n][p] # Absent /\ services[n][k] = dataFrom[n][p][k]

\* A view that was built from the node's services and mirrors shows nothing
\* else (buildMemData).
LEMMA BuiltShows ==
    ASSUME NEW m \in Services, NEW cur \in Services,
           NEW from \in [Node -> Services \cup {Absent}],
           IsBuiltFrom(m, cur, from), NEW k \in Key
    PROVE  \/ m[k] = cur[k]
           \/ \E p \in Node : from[p] # Absent /\ m[k] = from[p][k]
<1>. DEFINE Sources == {p \in DOMAIN from : from[p] # Absent}
            Having == {p \in Sources : from[p][k] # NoAddr}
<1>1. IF Having = {} THEN m[k] = cur[k] ELSE \E p \in Having : m[k] = from[p][k]
  BY Zenon DEF IsBuiltFrom
<1>. QED
  BY <1>1

\* Storing or dropping a mirror rebuilds the view.
LEMMA RebuildShows ==
    ASSUME TypeOK, TypeOK', NoPhantomService, NEW c \in Node,
           currentServices' = currentServices,
           \A x \in Node : x # c => dataFrom'[x] = dataFrom[x],
           Rebuild(c, dataFrom'[c])
    PROVE  NoPhantomService'
<1>1. PICK m \in Services :
         /\ IsBuiltFrom(m, currentServices[c], dataFrom'[c])
         /\ services' = [services EXCEPT ![c] = m]
  BY DEF Rebuild
<1>2. /\ currentServices[c] \in Services
      /\ dataFrom'[c] \in [Node -> Services \cup {Absent}]
      /\ services'[c] = m /\ \A x \in Node : x # c => services'[x] = services[x]
  BY <1>1 DEF TypeOK
<1>3. ASSUME NEW x \in Node, NEW k \in Key PROVE Shown(x, k)'
  <2>1. CASE x = c
    BY <1>1, <1>2, <2>1, BuiltShows DEF Shown
  <2>2. CASE x # c
    BY <1>2, <2>2 DEF Shown, NoPhantomService
  <2>. QED
    BY <2>1, <2>2
<1>. QED
  BY <1>3 DEF Shown, NoPhantomService

\* A registration or a removal changes the view and the node's own services
\* alike.
LEMMA RegistrationShows ==
    ASSUME TypeOK, NoPhantomService, NEW n \in Node, NEW k \in Key,
           DeleteService(n, k) \/ \E a \in Addr : PublishService(n, k, a)
    PROVE  NoPhantomService'
<1>1. PICK a \in AddrOrNone :
         /\ services' = [services EXCEPT ![n] = [services[n] EXCEPT ![k] = a]]
         /\ currentServices' = [currentServices EXCEPT ![n] = [currentServices[n] EXCEPT ![k] = a]]
         /\ dataFrom' = dataFrom
  BY DEF DeleteService, PublishService, SetItem, DropItem, AddrOrNone
<1>2. ASSUME NEW x \in Node, NEW j \in Key PROVE Shown(x, j)'
  <2>1. Shown(x, j) /\ services[x] \in Services /\ currentServices[x] \in Services
    BY DEF TypeOK, NoPhantomService, Shown
  <2>2. CASE x = n /\ j = k
    BY <1>1, <2>1, <2>2 DEF TypeOK, Services, Shown
  <2>3. CASE ~(x = n /\ j = k)
    <3>1. services'[x][j] = services[x][j] /\ currentServices'[x][j] = currentServices[x][j]
      BY <1>1, <2>1, <2>3 DEF TypeOK, Services
    <3>. QED
      BY <1>1, <2>1, <3>1 DEF Shown
  <2>. QED
    BY <2>2, <2>3
<1>. QED
  BY <1>2 DEF Shown, NoPhantomService

LEMMA PhantomStep == IndInv /\ IndInv' /\ NoPhantomService /\ [Next]_vars => NoPhantomService'
<1>. SUFFICES ASSUME IndInv, IndInv', NoPhantomService, [Next]_vars PROVE NoPhantomService'
  OBVIOUS
<1>0. TypeOK /\ TypeOK'
  BY DEF IndInv
<1>1. CASE UNCHANGED <<services, currentServices, dataFrom>>
  BY <1>1 DEF NoPhantomService
<1>2. ASSUME NEW c \in Node, NEW p \in Node, StartSyncing(c, p) PROVE NoPhantomService'
  <2>1. currentServices' = currentServices /\ dataFrom' = [dataFrom EXCEPT ![c][p] = Absent]
    BY <1>2 DEF StartSyncing
  <2>2. CASE dataFrom[c][p] = Absent
    <3>1. services' = services
      BY <1>2, <2>2 DEF StartSyncing
    <3>2. dataFrom' = dataFrom
      BY <1>0, <2>1, <2>2 DEF TypeOK
    <3>. QED
      BY <1>1, <2>1, <3>1, <3>2
  <2>3. CASE dataFrom[c][p] # Absent
    <3>1. Rebuild(c, dataFrom'[c])
      <4>1. dataFrom'[c] = [dataFrom[c] EXCEPT ![p] = Absent]
        BY <1>0, <2>1 DEF TypeOK
      <4>. QED
        BY <1>2, <2>3, <4>1 DEF StartSyncing
    <3>2. \A x \in Node : x # c => dataFrom'[x] = dataFrom[x]
      BY <1>0, <2>1 DEF TypeOK
    <3>. QED
      BY <1>0, <2>1, <3>1, <3>2, RebuildShows
  <2>. QED
    BY <2>2, <2>3
<1>3. ASSUME NEW c \in Node, ProcessSyncWorker(c) PROVE NoPhantomService'
  <2>. DEFINE p == Head(SyncQueue[c])
  <2>1. p \in Node /\ currentServices' = currentServices
    BY <1>0, <1>3 DEF TypeOK, ProcessSyncWorker
  <2>. HIDE DEF p
  <2>2. \/ UNCHANGED <<services, dataFrom>>
        \/ \E data, count : StoreMirror(c, p, data, count)
    BY <1>3 DEF ProcessSyncWorker, p
  <2>3. ASSUME NEW data, NEW count, StoreMirror(c, p, data, count) PROVE NoPhantomService'
    <3>1. dataFrom' = [dataFrom EXCEPT ![c][p] = data]
      BY <2>3 DEF StoreMirror
    <3>2. dataFrom'[c] = [dataFrom[c] EXCEPT ![p] = data]
          /\ \A x \in Node : x # c => dataFrom'[x] = dataFrom[x]
      BY <1>0, <2>1, <3>1 DEF TypeOK
    <3>3. Rebuild(c, dataFrom'[c])
      BY <2>3, <3>2 DEF StoreMirror
    <3>. QED
      BY <1>0, <2>1, <3>2, <3>3, RebuildShows
  <2>. QED
    BY <1>1, <2>1, <2>2, <2>3
<1>4. ASSUME NEW n \in Node, CrashRestart(n) PROVE NoPhantomService'
  <2>1. \A k \in Key : services'[n][k] = NoAddr
    BY <1>0, <1>4 DEF CrashRestart, TypeOK, NoServices
  <2>2. \A x \in Node : x # n => services'[x] = services[x] /\ dataFrom'[x] = dataFrom[x]
                                 /\ currentServices'[x] = currentServices[x]
    BY <1>0, <1>4 DEF CrashRestart, TypeOK
  <2>. QED
    BY <2>1, <2>2 DEF NoPhantomService
<1>5. ASSUME NEW c \in Node, NEW p \in Node, Worker(c, p) PROVE NoPhantomService'
  BY <1>1, <1>2, <1>5 DEF Worker, OnAuth, OnFull, OnIncremental, Poll, storeVars
<1>6. ASSUME NEW c \in Node, NEW p \in Node, Handler(c, p) PROVE NoPhantomService'
  BY <1>1, <1>6 DEF Handler, HttpClusterAuth, HttpClusterFullCheck, HttpClusterFull,
        HttpClusterIncrementalCheck, HttpClusterIncremental, storeVars
<1>7. CASE NetworkFaults
  BY <1>1, <1>7 DEF NetworkFaults, Age, Disconnect, TransportRetry, Stray, StrayAuth,
        StrayFullCheck, StrayFull, StrayIncrementalCheck, StrayIncremental, StrayMoves,
        storeVars
<1>8. CASE System
  <2>1. CASE \E cp \in Pairs : Worker(cp[1], cp[2]) \/ Handler(cp[1], cp[2])
    BY <1>5, <1>6, <2>1 DEF Pairs
  <2>2. CASE \E n \in Node : ProcessSyncWorker(n) \/ CheckPeerHealth(n)
    BY <1>1, <1>3, <2>2 DEF CheckPeerHealth
  <2>. QED
    BY <1>8, <2>1, <2>2 DEF System
<1>9. CASE Registrations
  BY <1>0, <1>9, RegistrationShows DEF Registrations
<1>. QED
  BY <1>1, <1>4, <1>7, <1>8, <1>9 DEF Next, Faults, vars

\* Queries never show an address that neither the node nor a mirror it holds
\* has, for any number of peers mirrored at the same time.
THEOREM PhantomHolds == Spec => []NoPhantomService
<1>1. Init => NoPhantomService
  BY DEF Init, NoPhantomService, NoServices
<1>. QED
  BY <1>1, PhantomStep, InvariantHolds, PTL DEF Spec

-----------------------------------------------------------------------------
(***************************************************************************)
(* OnlySameCluster needs the places where a check has been passed: beyond  *)
(* the authentication, and past the credential check of a handler, the two *)
(* nodes have the same name and secret.                                    *)
(***************************************************************************)

Trust(c, p) ==
    /\ wpc[c][p] \notin {"start", "auth"} => SameCluster(c, p)
    /\ call[c][p] \in {"checked", "ok"} => SameCluster(c, p)
    /\ "fullChecked" \in stray[c][p] \/ "incChecked" \in stray[c][p] => SameCluster(c, p)
    /\ dataFrom[c][p] # Absent \/ dataTo[p][c] # Absent => SameCluster(c, p)

Trusted == \A c, p \in Node : Trust(c, p)

\* Nothing of the pair (x, y) moves.
Still(x, y) ==
    /\ wpc'[x][y] = wpc[x][y] /\ call'[x][y] = call[x][y] /\ stray'[x][y] = stray[x][y]
    /\ dataFrom'[x][y] = dataFrom[x][y] /\ dataTo'[y][x] = dataTo[y][x]

\* A step of one pair concerns the trust of that pair only.
LEMMA TrustFrame ==
    ASSUME Trusted, NEW c \in Node, NEW p \in Node,
           \A x, y \in Node : x # c \/ y # p => Still(x, y),
           Trust(c, p)'
    PROVE  Trusted'
<1>1. ASSUME NEW x \in Node, NEW y \in Node PROVE Trust(x, y)'
  <2>1. CASE x # c \/ y # p
    BY <2>1 DEF Trusted, Trust, Still, SameCluster
  <2>2. CASE x = c /\ y = p
    BY <2>2
  <2>. QED
    BY <2>1, <2>2
<1>. QED
  BY <1>1 DEF Trusted

\* A pair that is trusted already stays so, whatever happens to it.
LEMMA TrustKept ==
    ASSUME Trusted, NEW c \in Node, NEW p \in Node,
           \A x, y \in Node : x # c \/ y # p => Still(x, y),
           SameCluster(c, p)
    PROVE  Trusted'
BY TrustFrame DEF Trust, SameCluster

\* The server's changes to a watch concern one client.
LEMMA WatchType ==
    ASSUME TypeOK, NEW c \in Node, NEW p \in Node, Watch(p, c) \/ TakeChanges(p, c)
    PROVE  \A x, y \in Node : x # c \/ y # p => dataTo'[y][x] = dataTo[y][x]
<1>1. PICK v : dataTo' = [dataTo EXCEPT ![p][c] = v]
  BY DEF Watch, TakeChanges
<1>. QED
  BY <1>1 DEF TypeOK

\* The handlers: a request is passed on only when the credentials match.
LEMMA HandlerTrust ==
    ASSUME TypeOK, Trusted, NEW c \in Node, NEW p \in Node, Handler(c, p)
    PROVE  Trusted'
<1>0. Trust(c, p)
  BY DEF Trusted
<1>1. \A x, y \in Node : x # c \/ y # p => Still(x, y)
  <2>1. /\ UNCHANGED <<wpc, dataFrom, stray>>
        /\ \E s, d : Reply(c, p, s, d)
        /\ UNCHANGED dataTo \/ Watch(p, c) \/ TakeChanges(p, c)
    BY DEF Handler, HttpClusterAuth, HttpClusterFullCheck, HttpClusterFull,
           HttpClusterIncrementalCheck, HttpClusterIncremental, storeVars
  <2>2. \A x, y \in Node : x # c \/ y # p => call'[x][y] = call[x][y]
    BY <2>1 DEF Reply, TypeOK
  <2>. QED
    BY <2>1, <2>2, WatchType DEF Still
<1>2. CASE SameCluster(c, p)
  BY <1>1, <1>2, TrustKept
<1>3. CASE ~SameCluster(c, p)
  <2>1. /\ Reply(c, p, "fail", Absent)
        /\ UNCHANGED <<wpc, dataFrom, dataTo, stray>>
    BY <1>0, <1>3 DEF Handler, HttpClusterAuth, HttpClusterFullCheck, HttpClusterFull,
           HttpClusterIncrementalCheck, HttpClusterIncremental, storeVars, Trust
  <2>2. call'[c][p] = "fail"
    BY <2>1 DEF Reply, TypeOK
  <2>. QED
    BY <1>0, <1>1, <2>1, <2>2, TrustFrame DEF Trust, SameCluster
<1>. QED
  BY <1>2, <1>3

\* The workers: only a request that was granted leads beyond the authentication.
LEMMA WorkerTrust ==
    ASSUME IndInv, Trusted, NEW c \in Node, NEW p \in Node, Worker(c, p)
    PROVE  Trusted'
<1>0. TypeOK /\ Trust(c, p)
  BY DEF IndInv, Trusted
<1>1. \A x, y \in Node : x # c \/ y # p => Still(x, y)
  <2>1. /\ UNCHANGED <<dataTo, stray>>
        /\ UNCHANGED dataFrom \/ dataFrom' = [dataFrom EXCEPT ![c][p] = Absent]
        /\ \/ \E r \in {"auth", "full", "inc"} : Send(c, p, r)
           \/ \E w \in WorkerPlace : Continue(c, p, w)
    BY DEF Worker, StartSyncing, OnAuth, OnFull, OnIncremental, Poll, storeVars, serverVars,
           WorkerPlace
  <2>2. \A x, y \in Node : x # c \/ y # p => dataFrom'[x][y] = dataFrom[x][y]
    <3>1. dataFrom \in [Node -> [Node -> Services \cup {Absent}]]
      BY <1>0 DEF TypeOK
    <3>2. CASE dataFrom' = [dataFrom EXCEPT ![c][p] = Absent]
      BY <3>1, <3>2
    <3>. QED
      BY <2>1, <3>2
  <2>. QED
    BY <1>0, <2>1, <2>2, SendType, ContinueType DEF Still
<1>2. CASE SameCluster(c, p)
  BY <1>1, <1>2, TrustKept
<1>3. CASE ~SameCluster(c, p)
  <2>1. /\ UNCHANGED <<dataTo, stray>>
        /\ dataFrom'[c][p] = Absent
    BY <1>0, <1>3 DEF Worker, StartSyncing, OnAuth, OnFull, OnIncremental, Poll, storeVars,
           serverVars, Trust, TypeOK
  <2>2. \/ wpc'[c][p] = "auth" /\ call'[c][p] = "sent"
        \/ wpc'[c][p] = "start" /\ call'[c][p] = "idle"
    <3>1. Send(c, p, "auth") \/ Continue(c, p, "start")
      BY <1>0, <1>3 DEF Worker, StartSyncing, OnAuth, OnFull, OnIncremental, Poll, Trust
    <3>. QED
      BY <1>0, <3>1, SendType, ContinueType DEF WorkerPlace
  <2>3. Trust(c, p)'
    BY <1>0, <2>1, <2>2 DEF Trust, SameCluster
  <2>. QED
    BY <1>1, <2>3, TrustFrame
<1>. QED
  BY <1>2, <1>3

\* ProcessSyncWorker stores for a worker that is past the authentication.
LEMMA ProcessTrust ==
    ASSUME IndInv, Trusted, NEW c \in Node, ProcessSyncWorker(c)
    PROVE  Trusted'
<1>. DEFINE p == Head(SyncQueue[c])
<1>0. TypeOK
  BY DEF IndInv
<1>1. p \in Node /\ p = SyncQueue[c][1] /\ 1 \in 1..Len(SyncQueue[c])
  <2>1. SyncQueue[c] \in Seq(Node) /\ SyncQueue[c] # << >>
    BY <1>0 DEF TypeOK, ProcessSyncWorker
  <2>. QED
    BY <2>1
<1>2. wpc[c][p] \in {"applyFull", "applyInc"}
  BY <1>1 DEF IndInv, QueueLink
<1>. HIDE DEF p
<1>3. SameCluster(c, p)
  BY <1>1, <1>2 DEF Trusted, Trust
<1>4. UNCHANGED <<call, stray, dataTo>>
  BY DEF ProcessSyncWorker, serverVars
<1>5. \A x, y \in Node : x # c \/ y # p =>
         wpc'[x][y] = wpc[x][y] /\ dataFrom'[x][y] = dataFrom[x][y]
  <2>1. \/ wpc' = [wpc EXCEPT ![c][p] = "start"] /\ UNCHANGED dataFrom
        \/ \E data : dataFrom' = [dataFrom EXCEPT ![c][p] = data]
                     /\ wpc' = [wpc EXCEPT ![c][p] = "poll"]
    BY DEF ProcessSyncWorker, StoreMirror, p
  <2>2. CASE wpc' = [wpc EXCEPT ![c][p] = "start"] /\ UNCHANGED dataFrom
    BY <1>0, <1>1, <2>2 DEF TypeOK
  <2>3. ASSUME NEW data, dataFrom' = [dataFrom EXCEPT ![c][p] = data],
               wpc' = [wpc EXCEPT ![c][p] = "poll"]
        PROVE  \A x, y \in Node : x # c \/ y # p =>
                  wpc'[x][y] = wpc[x][y] /\ dataFrom'[x][y] = dataFrom[x][y]
    BY <1>0, <1>1, <2>3 DEF TypeOK
  <2>. QED
    BY <2>1, <2>2, <2>3
<1>. QED
  BY <1>1, <1>3, <1>4, <1>5, TrustKept DEF Still

\* A connection that breaks leaves a stray request at the place the handler
\* had reached.
LEMMA GiveUpTrust ==
    ASSUME IndInv, Trusted, NEW c \in Node, NEW p \in Node,
           Disconnect(c, p) \/ TransportRetry(c, p)
    PROVE  Trusted'
<1>0. TypeOK /\ Trust(c, p)
  BY DEF IndInv, Trusted
<1>1. PICK s \in {"fail", "sent"}, delivered \in BOOLEAN :
         /\ Reply(c, p, s, Absent)
         /\ stray' = [stray EXCEPT ![c][p] = StrayAfterGivingUp(c, p, delivered)]
         /\ UNCHANGED <<wpc, dataFrom, dataTo>>
  BY DEF Disconnect, TransportRetry, GiveUp, storeVars
<1>2. /\ \A x, y \in Node : x # c \/ y # p => Still(x, y)
      /\ call'[c][p] = s /\ stray'[c][p] = StrayAfterGivingUp(c, p, delivered)
  BY <1>0, <1>1 DEF TypeOK, Reply, Still
<1>3. CASE SameCluster(c, p)
  BY <1>2, <1>3, TrustKept
<1>4. CASE ~SameCluster(c, p)
  <2>1. call[c][p] # "checked" /\ wpc[c][p] \in {"start", "auth"}
    BY <1>0, <1>4 DEF Trust
  <2>2. StrayAfterGivingUp(c, p, delivered) \subseteq stray[c][p] \cup {"start", "auth"}
    BY <2>1 DEF StrayAfterGivingUp, AsStray
  <2>3. Trust(c, p)'
    BY <1>0, <1>1, <1>2, <1>4, <2>2 DEF Trust, SameCluster
  <2>. QED
    BY <1>2, <2>3, TrustFrame
<1>. QED
  BY <1>3, <1>4

\* A stray request passes the same checks.
LEMMA StrayTrust ==
    ASSUME TypeOK, Trusted, NEW c \in Node, NEW p \in Node, Stray(c, p)
    PROVE  Trusted'
<1>0. Trust(c, p)
  BY DEF Trusted
<1>1. /\ UNCHANGED <<wpc, call, dataFrom>>
      /\ \E s \in SUBSET StrayKind : stray' = [stray EXCEPT ![c][p] = s]
  <2>1. PICK from \in StrayKind, to \in SUBSET StrayKind : StrayMoves(c, p, from, to)
    BY DEF Stray, StrayAuth, StrayFullCheck, StrayFull, StrayIncrementalCheck,
           StrayIncremental, StrayKind
  <2>2. stray[c][p] \in SUBSET StrayKind
    BY DEF TypeOK
  <2>. QED
    BY <2>1, <2>2 DEF StrayMoves, workerVars
<1>2. \A x, y \in Node : x # c \/ y # p => Still(x, y)
  <2>1. \A x, y \in Node : x # c \/ y # p => dataTo'[y][x] = dataTo[y][x]
    <3>1. UNCHANGED dataTo \/ Watch(p, c) \/ TakeChanges(p, c)
      BY DEF Stray, StrayAuth, StrayFullCheck, StrayFull, StrayIncrementalCheck,
             StrayIncremental
    <3>. QED
      BY <3>1, WatchType
  <2>2. \A x, y \in Node : x # c \/ y # p => stray'[x][y] = stray[x][y]
    BY <1>1 DEF TypeOK
  <2>. QED
    BY <1>1, <2>1, <2>2 DEF Still
<1>3. CASE SameCluster(c, p)
  BY <1>2, <1>3, TrustKept
<1>4. CASE ~SameCluster(c, p)
  <2>1. StrayAuth(c, p) \/ StrayFullCheck(c, p) \/ StrayIncrementalCheck(c, p)
    BY <1>0, <1>4 DEF Stray, StrayFull, StrayIncremental, StrayMoves, Trust
  <2>2. dataTo' = dataTo /\ \E from \in StrayKind : StrayMoves(c, p, from, {})
    BY <1>4, <2>1 DEF StrayAuth, StrayFullCheck, StrayIncrementalCheck, StrayKind
  <2>3. stray'[c][p] \subseteq stray[c][p]
    BY <2>2 DEF StrayMoves, TypeOK
  <2>4. Trust(c, p)'
    BY <1>0, <1>1, <2>2, <2>3 DEF Trust, SameCluster
  <2>. QED
    BY <1>2, <2>4, TrustFrame
<1>. QED
  BY <1>3, <1>4

\* A crash: what the node held is gone, and its requests become stray ones.
LEMMA CrashTrust ==
    ASSUME TypeOK, Trusted, NEW n \in Node, CrashRestart(n)
    PROVE  Trusted'
<1>1. /\ dataFrom' = [dataFrom EXCEPT ![n] = [p \in Node |-> Absent]]
      /\ dataTo' = [dataTo EXCEPT ![n] = [c \in Node |-> Absent]]
      /\ wpc' = [wpc EXCEPT ![n] = [p \in Node |-> "start"]]
      /\ call' = [c \in Node |-> [p \in Node |->
                   IF c = n THEN "idle"
                   ELSE IF p = n /\ call[c][p] = "checked" THEN "fail"
                   ELSE call[c][p]]]
  BY DEF CrashRestart
<1>2. PICK delivered \in SUBSET Node :
         stray' = [c \in Node |->
                     IF c = n THEN [p \in Node |-> StrayAfterGivingUp(n, p, p \in delivered)]
                     ELSE [stray[c] EXCEPT ![n] = {}]]
  BY DEF CrashRestart
<1>3. ASSUME NEW c \in Node, NEW p \in Node PROVE Trust(c, p)'
  <2>0. Trust(c, p)
    BY DEF Trusted
  <2>1. CASE SameCluster(c, p)
    BY <2>1 DEF Trust, SameCluster
  <2>2. CASE ~SameCluster(c, p)
    <3>1. /\ call[c][p] \notin {"checked", "ok"} /\ wpc[c][p] \in {"start", "auth"}
          /\ "fullChecked" \notin stray[c][p] /\ "incChecked" \notin stray[c][p]
          /\ dataFrom[c][p] = Absent /\ dataTo[p][c] = Absent
      BY <2>0, <2>2 DEF Trust
    <3>2. wpc'[c][p] \in {"start", "auth"} /\ dataFrom'[c][p] = Absent /\ dataTo'[p][c] = Absent
      BY <1>1, <3>1 DEF TypeOK
    <3>3. call'[c][p] \notin {"checked", "ok"}
      BY <1>1, <3>1 DEF TypeOK
    <3>4. "fullChecked" \notin stray'[c][p] /\ "incChecked" \notin stray'[c][p]
      <4>1. CASE c = n
        <5>1. stray'[c][p] = StrayAfterGivingUp(c, p, p \in delivered)
          BY <1>2, <4>1
        <5>. QED
          BY <3>1, <5>1 DEF StrayAfterGivingUp, AsStray
      <4>2. CASE c # n
        BY <1>2, <3>1, <4>2 DEF TypeOK
      <4>. QED
        BY <4>1, <4>2
    <3>. QED
      BY <3>2, <3>3, <3>4 DEF Trust
  <2>. QED
    BY <2>1, <2>2
<1>. QED
  BY <1>3 DEF Trusted

LEMMA TrustStep == IndInv /\ Trusted /\ [Next]_vars => Trusted'
<1>. SUFFICES ASSUME IndInv, Trusted, [Next]_vars PROVE Trusted'
  OBVIOUS
<1>0. TypeOK
  BY DEF IndInv
<1>1. CASE /\ UNCHANGED <<wpc, call, stray, dataFrom>>
           /\ \A x, y \in Node : dataTo'[y][x] \in {Absent, dataTo[y][x]}
              \/ dataTo[y][x] # Absent
  BY <1>1 DEF Trusted, Trust, SameCluster
<1>2. CASE System
  <2>1. CASE \E cp \in Pairs : Worker(cp[1], cp[2]) \/ Handler(cp[1], cp[2])
    BY <1>0, <2>1, WorkerTrust, HandlerTrust DEF Pairs
  <2>2. ASSUME NEW n \in Node, CheckPeerHealth(n) PROVE Trusted'
    <3>1. \A x, y \in Node : dataTo'[y][x] \in {Absent, dataTo[y][x]}
      BY <1>0, <2>2 DEF CheckPeerHealth, TypeOK
    <3>. QED
      BY <1>1, <2>2, <3>1 DEF CheckPeerHealth, workerVars
  <2>. QED
    BY <1>2, <2>1, <2>2, ProcessTrust DEF System
<1>3. CASE Registrations
  <2>1. PICK n \in Node, k \in Key :
           DeleteService(n, k) \/ \E a \in Addr : PublishService(n, k, a)
    BY <1>3 DEF Registrations
  <2>2. \A x, y \in Node : dataTo[y][x] = Absent => dataTo'[y][x] = Absent
    <3>1. \A y, x \in Node : y # n \/ dataTo[y][x] = Absent => dataTo'[y][x] = dataTo[y][x]
      <4>1. CASE DeleteService(n, k)
        BY <1>0, <4>1 DEF DeleteService, PendAt, TypeOK
      <4>2. ASSUME NEW a \in Addr, PublishService(n, k, a)
            PROVE  \A y, x \in Node : y # n \/ dataTo[y][x] = Absent =>
                      dataTo'[y][x] = dataTo[y][x]
        BY <1>0, <4>2 DEF PublishService, PendAt, TypeOK
      <4>. QED
        BY <2>1, <4>1, <4>2
    <3>. QED
      BY <3>1
  <2>. QED
    BY <1>1, <2>1, <2>2 DEF DeleteService, PublishService, workerVars
<1>4. CASE NetworkFaults
  <2>1. PICK c \in Node, p \in Node :
           Age(p, c) \/ Disconnect(c, p) \/ TransportRetry(c, p) \/ Stray(c, p)
    BY <1>4 DEF NetworkFaults, Pairs
  <2>2. CASE Age(p, c)
    BY <1>1, <2>2 DEF Age, storeVars, workerVars
  <2>. QED
    BY <1>0, <2>1, <2>2, GiveUpTrust, StrayTrust
<1>5. CASE UNCHANGED vars
  BY <1>1, <1>5 DEF vars
<1>. QED
  BY <1>0, <1>2, <1>3, <1>4, <1>5, CrashTrust DEF Next, Faults

\* Whatever is retried, delayed or abandoned half way, registrations travel
\* only between nodes of the same name and secret: every path to a mirror or to
\* a watch leads through a handler's check.
THEOREM SameClusterHolds == Spec => []OnlySameCluster
<1>1. Init => Trusted
  BY DEF Init, Const2, Trusted, Trust
<1>2. Trusted => OnlySameCluster
  BY DEF Trusted, Trust, OnlySameCluster, SameCluster
<1>. QED
  BY <1>1, <1>2, TrustStep, InvariantHolds, PTL DEF Spec

-----------------------------------------------------------------------------
(***************************************************************************)
(* QueueMatchesWaiting needs, beyond QueueLink, that a waiting worker is   *)
(* in the queue and that only configured peers have a running worker.      *)
(***************************************************************************)

Queued(c, p) ==
    /\ wpc[c][p] # "start" => p \in NodePeerMapping[c]
    /\ wpc[c][p] \in {"applyFull", "applyInc"} =>
          \E i \in 1..Len(SyncQueue[c]) : SyncQueue[c][i] = p

AllQueued == \A c, p \in Node : Queued(c, p)

\* A worker moves on by itself: it joins the queue exactly when it begins to wait.
LEMMA WorkerQueued ==
    ASSUME TypeOK, AllQueued, NEW c \in Node, NEW p \in NodePeerMapping[c], Worker(c, p)
    PROVE  AllQueued'
<1>1. p \in Node /\ SyncQueue \in [Node -> Seq(Node)]
  BY ConfigAssumption DEF TypeOK
<1>2. \/ /\ SyncQueue' = SyncQueue
         /\ \/ \E r \in {"auth", "full", "inc"} : Send(c, p, r)
            \/ \E w \in {"start", "poll"} : Continue(c, p, w)
      \/ /\ SyncQueue' = [SyncQueue EXCEPT ![c] = Append(@, p)]
         /\ \E w \in {"applyFull", "applyInc"} : Continue(c, p, w)
  BY DEF Worker, StartSyncing, OnAuth, OnFull, OnIncremental, Poll
<1>3. \A x, y \in Node : x # c \/ y # p => wpc'[x][y] = wpc[x][y]
  BY <1>1, <1>2, SendType, ContinueType DEF WorkerPlace
<1>4. ASSUME NEW x \in Node, NEW y \in Node PROVE Queued(x, y)'
  <2>0. Queued(x, y)
    BY DEF AllQueued
  <2>1. CASE /\ SyncQueue' = SyncQueue
             /\ \/ \E r \in {"auth", "full", "inc"} : Send(c, p, r)
                \/ \E w \in {"start", "poll"} : Continue(c, p, w)
    <3>1. wpc'[c][p] \notin {"applyFull", "applyInc"}
      BY <1>1, <2>1, SendType, ContinueType DEF WorkerPlace
    <3>. QED
      BY <1>3, <2>0, <2>1, <3>1 DEF Queued
  <2>2. CASE SyncQueue' = [SyncQueue EXCEPT ![c] = Append(@, p)]
    <3>1. /\ SyncQueue'[c][Len(SyncQueue[c]) + 1] = p
          /\ Len(SyncQueue[c]) + 1 \in 1..Len(SyncQueue'[c])
          /\ \A i \in 1..Len(SyncQueue[c]) :
                i \in 1..Len(SyncQueue'[c]) /\ SyncQueue'[c][i] = SyncQueue[c][i]
          /\ \A z \in Node : z # c => SyncQueue'[z] = SyncQueue[z]
      BY <1>1, <2>2
    <3>2. CASE x = c /\ y = p
      BY <3>1, <3>2 DEF Queued
    <3>3. CASE x # c \/ y # p
      BY <1>3, <2>0, <3>1, <3>3 DEF Queued
    <3>. QED
      BY <3>2, <3>3
  <2>. QED
    BY <1>2, <2>1, <2>2
<1>. QED
  BY <1>4 DEF AllQueued

\* ProcessSyncWorker takes the first request and lets its worker go on.
LEMMA ProcessQueued ==
    ASSUME IndInv, AllQueued, NEW c \in Node, ProcessSyncWorker(c)
    PROVE  AllQueued'
<1>. DEFINE p == Head(SyncQueue[c])
<1>0. TypeOK /\ SyncQueue \in [Node -> Seq(Node)] /\ SyncQueue[c] # << >>
  BY DEF IndInv, TypeOK, ProcessSyncWorker
<1>1. p \in Node /\ p = SyncQueue[c][1] /\ 1 \in 1..Len(SyncQueue[c])
  BY <1>0
<1>2. p \in NodePeerMapping[c]
  <2>1. wpc[c][p] \in {"applyFull", "applyInc"}
    BY <1>1 DEF IndInv, QueueLink
  <2>. QED
    BY <1>1, <2>1 DEF AllQueued, Queued
<1>3. /\ Len(SyncQueue'[c]) = Len(SyncQueue[c]) - 1
      /\ \A i \in 1..Len(SyncQueue[c]) : i # 1 =>
            i - 1 \in 1..Len(SyncQueue'[c]) /\ SyncQueue'[c][i - 1] = SyncQueue[c][i]
      /\ \A z \in Node : z # c => SyncQueue'[z] = SyncQueue[z]
  <2>1. SyncQueue' = [SyncQueue EXCEPT ![c] = Tail(@)]
    BY DEF ProcessSyncWorker
  <2>. QED
    BY <1>0, <2>1
<1>4. wpc' = [wpc EXCEPT ![c][p] = "start"] \/ wpc' = [wpc EXCEPT ![c][p] = "poll"]
  BY DEF ProcessSyncWorker, StoreMirror
<1>. HIDE DEF p
<1>5. /\ wpc'[c][p] \in {"start", "poll"}
      /\ \A x, y \in Node : x # c \/ y # p => wpc'[x][y] = wpc[x][y]
  <2>1. PICK w \in {"start", "poll"} : wpc' = [wpc EXCEPT ![c][p] = w]
    BY <1>4
  <2>2. wpc \in [Node -> [Node -> WorkerPlace]]
    BY <1>0 DEF TypeOK
  <2>. QED
    BY <1>1, <2>1, <2>2
<1>6. ASSUME NEW x \in Node, NEW y \in Node PROVE Queued(x, y)'
  <2>0. Queued(x, y)
    BY DEF AllQueued
  <2>1. CASE x = c /\ y = p
    BY <1>2, <1>5, <2>1 DEF Queued
  <2>2. CASE x = c /\ y # p
    <3>1. ASSUME wpc'[c][y] \in {"applyFull", "applyInc"}
          PROVE  \E i \in 1..Len(SyncQueue'[c]) : SyncQueue'[c][i] = y
      <4>1. PICK i \in 1..Len(SyncQueue[c]) : SyncQueue[c][i] = y
        BY <1>5, <2>0, <2>2, <3>1 DEF Queued
      <4>. QED
        BY <1>1, <1>3, <2>2, <4>1
    <3>. QED
      BY <1>5, <2>0, <2>2, <3>1 DEF Queued
  <2>3. CASE x # c
    BY <1>3, <1>5, <2>0, <2>3 DEF Queued
  <2>. QED
    BY <2>1, <2>2, <2>3
<1>. QED
  BY <1>6 DEF AllQueued

LEMMA QueuedStep == IndInv /\ AllQueued /\ [Next]_vars => AllQueued'
<1>. SUFFICES ASSUME IndInv, AllQueued, [Next]_vars PROVE AllQueued'
  OBVIOUS
<1>0. TypeOK
  BY DEF IndInv
<1>1. CASE UNCHANGED <<wpc, SyncQueue>>
  BY <1>1 DEF AllQueued, Queued
<1>2. ASSUME NEW c \in Node, NEW p \in Node, Handler(c, p) PROVE AllQueued'
  BY <1>1, <1>2 DEF Handler, HttpClusterAuth, HttpClusterFullCheck, HttpClusterFull,
        HttpClusterIncrementalCheck, HttpClusterIncremental
<1>3. CASE System
  <2>1. CASE \E cp \in Pairs : Worker(cp[1], cp[2]) \/ Handler(cp[1], cp[2])
    <3>1. PICK c \in Node, p \in Node :
             p \in NodePeerMapping[c] /\ (Worker(c, p) \/ Handler(c, p))
      BY <2>1 DEF Pairs
    <3>. QED
      BY <1>0, <1>2, <3>1, WorkerQueued
  <2>2. CASE \E n \in Node : CheckPeerHealth(n)
    BY <1>1, <2>2 DEF CheckPeerHealth, workerVars
  <2>. QED
    BY <1>3, <2>1, <2>2, ProcessQueued DEF System
<1>4. CASE Registrations
  BY <1>1, <1>4 DEF Registrations, DeleteService, PublishService, workerVars
<1>5. CASE NetworkFaults
  BY <1>1, <1>5 DEF NetworkFaults, Age, Disconnect, TransportRetry, Stray, StrayAuth,
        StrayFullCheck, StrayFull, StrayIncrementalCheck, StrayIncremental, StrayMoves,
        workerVars
<1>6. ASSUME NEW n \in Node, CrashRestart(n) PROVE AllQueued'
  <2>1. \A x, y \in Node : wpc'[x][y] = "start" \/
           (x # n /\ wpc'[x][y] = wpc[x][y] /\ SyncQueue'[x] = SyncQueue[x])
    BY <1>0, <1>6 DEF CrashRestart, TypeOK
  <2>. QED
    BY <2>1 DEF AllQueued, Queued
<1>7. CASE UNCHANGED vars
  BY <1>1, <1>7 DEF vars
<1>. QED
  BY <1>3, <1>4, <1>5, <1>6, <1>7 DEF Next, Faults

\* The queue as a function: one place per waiting worker.
LEMMA QueueCounts ==
    ASSUME IndInv, AllQueued, NEW c \in Node
    PROVE  /\ {p \in Node : wpc[c][p] \in {"applyFull", "applyInc"}} = Range(SyncQueue[c])
           /\ Len(SyncQueue[c]) = Cardinality(Range(SyncQueue[c]))
           /\ Len(SyncQueue[c]) <= Cardinality(NodePeerMapping[c])
<1>. DEFINE q == SyncQueue[c]
            R == Range(q)
            W == {p \in Node : wpc[c][p] \in {"applyFull", "applyInc"}}
<1>1. q \in Seq(Node) /\ Len(q) \in Nat /\ DOMAIN q = 1..Len(q)
  BY DEF IndInv, TypeOK
<1>2. /\ \A i \in 1..Len(q) : wpc[c][q[i]] \in {"applyFull", "applyInc"} /\ q[i] \in Node
      /\ \A i, j \in 1..Len(q) : q[i] = q[j] => i = j
  BY <1>1 DEF IndInv, QueueLink
<1>3. \A p \in W : p \in NodePeerMapping[c] /\ \E i \in 1..Len(q) : q[i] = p
  BY DEF AllQueued, Queued
<1>. HIDE DEF q
<1>4. W = R
  BY <1>1, <1>2, <1>3 DEF Range
<1>5. q \in [1..Len(q) -> R]
  BY <1>1 DEF Range
<1>6. q \in Bijection(1..Len(q), R)
  BY <1>1, <1>2, <1>5 DEF Bijection, Injection, Surjection, IsInjective, Range
<1>7. Cardinality(R) = Len(q)
  BY <1>1, <1>6, FS_CountingElements DEF ExistsBijection
<1>8. R \in SUBSET NodePeerMapping[c]
  BY <1>3, <1>4
<1>9. Cardinality(R) <= Cardinality(NodePeerMapping[c])
  BY <1>8, ConfigAssumption, FS_Subset
<1>. QED
  BY <1>4, <1>7, <1>9 DEF q

\* Every waiting worker has its one request in the queue, for any number of
\* peers: ProcessSyncWorker answers the right one and the queue never holds
\* more requests than the node has peers.
THEOREM QueueHolds == Spec => []QueueMatchesWaiting
<1>1. Init => AllQueued
  BY DEF Init, Const2, AllQueued, Queued
<1>2. IndInv /\ AllQueued => QueueMatchesWaiting
  BY QueueCounts DEF QueueMatchesWaiting
<1>. QED
  BY <1>1, <1>2, QueuedStep, InvariantHolds, PTL DEF Spec
=============================================================================

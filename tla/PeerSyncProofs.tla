--------------------------- MODULE PeerSyncProofs ---------------------------
(***************************************************************************)
(* Proofs about PeerSync for every cluster: any nodes, peers, credentials, *)
(* items, addresses and limits.                                            *)
(*                                                                         *)
(* The invariants of one mirror depend on the place of its worker, on the  *)
(* request it waits for and on what the request brought; Link collects     *)
(* them for one client c and one peer p, and IndInv is their conjunction   *)
(* with the types and with what is known of the queue.                     *)
(***************************************************************************)
EXTENDS PeerSync, TLAPS

\* The worker has a full data set in hand.
HasFull(c, p) == wpc[c][p] = "applyFull" \/ (wpc[c][p] = "full" /\ call[c][p] = "ok")

\* The worker has changes in hand.
HasChanges(c, p) == wpc[c][p] = "applyInc" \/ (wpc[c][p] = "inc" /\ call[c][p] = "ok")

\* A worker waits for an answer exactly at the three places it sends from.
CallLink(c, p) ==
    /\ call[c][p] = "idle" <=> wpc[c][p] \in {"start", "applyFull", "poll", "applyInc"}
    /\ call[c][p] = "checked" => wpc[c][p] \in {"full", "inc"}

BodyLink(c, p) ==
    /\ HasFull(c, p) => body[c][p] \in Services
    /\ HasChanges(c, p) => body[c][p] \in Changes
    /\ ~HasFull(c, p) /\ ~HasChanges(c, p) => body[c][p] = Absent

CountLink(c, p) ==
    wpc[c][p] \in {"inc", "applyInc"} => queryCount[c][p] < FullMin + FullJitter - 1

PendingLink(c, p) ==
    dataTo[p][c] # Absent => ApplyChanges(dataTo[p][c], currentServices[p]) = currentServices[p]

MirrorLink(c, p) == Mirroring(c, p) => dataFrom[c][p] # Absent

ChainLink(c, p) ==
    InChain(c, p) /\ snapshot[c][p] # Absent =>
        /\ Base(c, p) = snapshot[c][p]
        /\ dataTo[p][c] # Absent
        /\ ApplyChanges(dataTo[p][c], snapshot[c][p]) = currentServices[p]

Link(c, p) ==
    /\ CallLink(c, p) /\ BodyLink(c, p) /\ CountLink(c, p)
    /\ PendingLink(c, p) /\ MirrorLink(c, p) /\ ChainLink(c, p)

\* The queue holds waiting workers, each of them once.
QueueLink ==
    \A c \in Node :
        /\ \A i \in 1..Len(SyncQueue[c]) :
              wpc[c][SyncQueue[c][i]] \in {"applyFull", "applyInc"}
        /\ \A i, j \in 1..Len(SyncQueue[c]) :
              SyncQueue[c][i] = SyncQueue[c][j] => i = j

IndInv == TypeOK /\ QueueLink /\ \A c, p \in Node : Link(c, p)

-----------------------------------------------------------------------------
(***************************************************************************)
(* The operators of ServiceMap.                                            *)
(***************************************************************************)

\* Applying changes to a service map gives a service map (SyncFrom).
LEMMA ApplyType ==
    ASSUME NEW ch \in Changes, NEW m \in Services
    PROVE  ApplyChanges(ch, m) \in Services
BY DEF ApplyChanges, Changes, Services, AddrOrNone

\* An emptied pending list changes nothing (FetchChangesForPeerNodeRequest).
LEMMA ApplyNothing ==
    ASSUME NEW m \in Services
    PROVE  NoChanges \in Changes /\ ApplyChanges(NoChanges, m) = m
BY DEF ApplyChanges, Changes, Services, NoChanges, NoServices, AddrOrNone

\* What PublishService leaves pending, applied to any mirror, is what was
\* pending before with the registration on top.
LEMMA ApplyPublish ==
    ASSUME NEW ch \in Changes, NEW m \in Services, NEW k \in Key, NEW a \in Addr
    PROVE  /\ PendPublish(ch, k, a) \in Changes
           /\ SetItem(m, k, a) \in Services
           /\ ApplyChanges(PendPublish(ch, k, a), m) = SetItem(ApplyChanges(ch, m), k, a)
BY SentinelAssumption
   DEF ApplyChanges, PendPublish, SetItem, Changes, Services, AddrOrNone

\* What DeleteService leaves pending, applied to any mirror, is what was
\* pending before with the item taken away.
LEMMA ApplyDelete ==
    ASSUME NEW ch \in Changes, NEW m \in Services, NEW k \in Key
    PROVE  /\ PendDelete(ch, k) \in Changes
           /\ DropItem(m, k) \in Services
           /\ ApplyChanges(PendDelete(ch, k), m) = DropItem(ApplyChanges(ch, m), k)
BY SentinelAssumption
   DEF ApplyChanges, PendDelete, DropItem, Changes, Services, AddrOrNone

\* A pending list that agrees with the node's services still does after a
\* registration and the list's own update.
LEMMA AgreesPublish ==
    ASSUME NEW ch \in Changes, NEW m \in Services, NEW k \in Key, NEW a \in Addr,
           ApplyChanges(ch, m) = m
    PROVE  ApplyChanges(PendPublish(ch, k, a), SetItem(m, k, a)) = SetItem(m, k, a)
<1>1. \A j \in Key : ApplyChanges(ch, m)[j] = m[j]
  OBVIOUS
<1>2. \A j \in Key : j # k => ApplyChanges(PendPublish(ch, k, a), SetItem(m, k, a))[j] = m[j]
  BY <1>1, SentinelAssumption
     DEF ApplyChanges, PendPublish, SetItem, Changes, Services, AddrOrNone
<1>3. ApplyChanges(PendPublish(ch, k, a), SetItem(m, k, a))[k] = a
  BY SentinelAssumption
     DEF ApplyChanges, PendPublish, SetItem, Changes, Services, AddrOrNone
<1>4. ApplyChanges(PendPublish(ch, k, a), SetItem(m, k, a)) \in Services
  BY ApplyPublish, ApplyType
<1>. QED
  BY <1>2, <1>3, <1>4, ApplyPublish DEF SetItem, Services

\* The same for a removal.
LEMMA AgreesDelete ==
    ASSUME NEW ch \in Changes, NEW m \in Services, NEW k \in Key,
           ApplyChanges(ch, m) = m
    PROVE  ApplyChanges(PendDelete(ch, k), DropItem(m, k)) = DropItem(m, k)
<1>1. \A j \in Key : ApplyChanges(ch, m)[j] = m[j]
  OBVIOUS
<1>2. \A j \in Key : j # k => ApplyChanges(PendDelete(ch, k), DropItem(m, k))[j] = m[j]
  BY <1>1, SentinelAssumption
     DEF ApplyChanges, PendDelete, DropItem, Changes, Services, AddrOrNone
<1>3. ApplyChanges(PendDelete(ch, k), DropItem(m, k))[k] = NoAddr
  BY SentinelAssumption
     DEF ApplyChanges, PendDelete, DropItem, Changes, Services, AddrOrNone
<1>4. ApplyChanges(PendDelete(ch, k), DropItem(m, k)) \in Services
  BY ApplyDelete, ApplyType
<1>. QED
  BY <1>2, <1>3, <1>4, ApplyDelete DEF DropItem, Services

\* NewMemStore's maps.
LEMMA EmptyTypes == NoServices \in Services /\ NoChanges \in Changes
BY DEF NoServices, NoChanges, Services, Changes, AddrOrNone
-----------------------------------------------------------------------------
(***************************************************************************)
(* The inductive invariant.                                                *)
(***************************************************************************)

\* A mirror none of whose parts a step touches keeps its invariants.
LEMMA LinkFrame ==
    ASSUME NEW c \in Node, NEW p \in Node, Link(c, p),
           wpc'[c][p] = wpc[c][p], call'[c][p] = call[c][p], body'[c][p] = body[c][p],
           queryCount'[c][p] = queryCount[c][p], dataFrom'[c][p] = dataFrom[c][p],
           dataTo'[p][c] = dataTo[p][c], currentServices'[p] = currentServices[p],
           snapshot'[c][p] = snapshot[c][p]
    PROVE  Link(c, p)'
BY DEF Link, CallLink, BodyLink, CountLink, PendingLink, MirrorLink, ChainLink,
       HasFull, HasChanges, Mirroring, InChain, Base

\* The program starts in a state that satisfies the invariant.
LEMMA InitInv == Init => IndInv
<1>. SUFFICES ASSUME Init PROVE IndInv
  OBVIOUS
<1>1. TypeOK
  BY EmptyTypes, ConfigAssumption
     DEF Init, Const2, TypeOK, WorkerPlace, CallState, StrayKind
<1>2. QueueLink
  BY DEF Init, QueueLink
<1>3. \A c, p \in Node : Link(c, p)
  BY DEF Init, Const2, Link, CallLink, BodyLink, CountLink, PendingLink, MirrorLink,
         ChainLink, HasFull, HasChanges, Mirroring, InChain
<1>. QED
  BY <1>1, <1>2, <1>3 DEF IndInv

\* PublishService: every pending list gets the registration, every mirror's
\* chain ends in the new services.
LEMMA PublishStep ==
    ASSUME IndInv, NEW n \in Node, NEW k \in Key, NEW a \in Addr, PublishService(n, k, a)
    PROVE  IndInv'
<1>. USE DEF PublishService, workerVars
<1>1. \A c \in Node : dataTo'[n][c] = IF dataTo[n][c] = Absent THEN Absent
                                      ELSE PendPublish(dataTo[n][c], k, a)
  BY DEF PendAt, IndInv, TypeOK
<1>2. \A p, c \in Node : p # n => dataTo'[p] = dataTo[p] /\ currentServices'[p] = currentServices[p]
  BY DEF PendAt, IndInv, TypeOK
<1>3. currentServices'[n] = SetItem(currentServices[n], k, a)
  BY DEF IndInv, TypeOK
<1>4. TypeOK'
  <2>1. \A m \in Services : SetItem(m, k, a) \in Services
    BY DEF SetItem, Services, AddrOrNone
  <2>2. \A ch \in Changes : PendPublish(ch, k, a) \in Changes
    BY ApplyPublish, EmptyTypes
  <2>. QED
    BY <2>1, <2>2 DEF IndInv, TypeOK, PendAt
<1>5. QueueLink'
  BY DEF IndInv, QueueLink
<1>6. ASSUME NEW c \in Node, NEW p \in Node PROVE Link(c, p)'
  <2>1. CASE p # n
    <3>1. Link(c, p)
      BY DEF IndInv
    <3>. QED
      BY <1>2, <2>1, <3>1, LinkFrame
  <2>2. CASE p = n
    <3>1. /\ Link(c, p) /\ currentServices[p] \in Services
          /\ dataTo[p][c] \in Changes \cup {Absent}
          /\ snapshot[c][p] \in Services \cup {Absent}
      BY DEF IndInv, TypeOK
    <3>2. dataTo[p][c] # Absent => PendPublish(dataTo[p][c], k, a) # Absent
      BY <3>1, ApplyPublish, SentinelAssumption
    <3>3. PendingLink(c, p)'
      BY <1>1, <1>3, <2>2, <3>1, AgreesPublish DEF Link, PendingLink
    <3>4. ChainLink(c, p)'
      <4>. SUFFICES ASSUME InChain(c, p), snapshot[c][p] # Absent
                    PROVE  /\ dataTo'[p][c] # Absent
                           /\ ApplyChanges(dataTo'[p][c], snapshot[c][p]) = currentServices'[p]
        BY <3>1 DEF Link, ChainLink, InChain, Base, Mirroring
      <4>1. /\ dataTo[p][c] # Absent
            /\ ApplyChanges(dataTo[p][c], snapshot[c][p]) = currentServices[p]
        BY <3>1 DEF Link, ChainLink
      <4>. QED
        BY <1>1, <1>3, <2>2, <3>1, <3>2, <4>1, ApplyPublish
    <3>5. (CallLink(c, p) /\ BodyLink(c, p) /\ CountLink(c, p) /\ MirrorLink(c, p))'
      BY <3>1 DEF Link, CallLink, BodyLink, CountLink, MirrorLink, HasFull, HasChanges, Mirroring
    <3>. QED
      BY <3>3, <3>4, <3>5 DEF Link
  <2>. QED
    BY <2>1, <2>2
<1>. QED
  BY <1>4, <1>5, <1>6 DEF IndInv

\* DeleteService: the same with the removal.
LEMMA DeleteStep ==
    ASSUME IndInv, NEW n \in Node, NEW k \in Key, DeleteService(n, k)
    PROVE  IndInv'
<1>. USE DEF DeleteService, workerVars
<1>1. \A c \in Node : dataTo'[n][c] = IF dataTo[n][c] = Absent THEN Absent
                                      ELSE PendDelete(dataTo[n][c], k)
  BY DEF PendAt, IndInv, TypeOK
<1>2. \A p, c \in Node : p # n => dataTo'[p] = dataTo[p] /\ currentServices'[p] = currentServices[p]
  BY DEF PendAt, IndInv, TypeOK
<1>3. currentServices'[n] = DropItem(currentServices[n], k)
  BY DEF IndInv, TypeOK
<1>4. TypeOK'
  <2>1. \A m \in Services : DropItem(m, k) \in Services
    BY DEF DropItem, Services, AddrOrNone
  <2>2. \A ch \in Changes : PendDelete(ch, k) \in Changes
    BY ApplyDelete, EmptyTypes
  <2>. QED
    BY <2>1, <2>2 DEF IndInv, TypeOK, PendAt
<1>5. QueueLink'
  BY DEF IndInv, QueueLink
<1>6. ASSUME NEW c \in Node, NEW p \in Node PROVE Link(c, p)'
  <2>1. CASE p # n
    <3>1. Link(c, p)
      BY DEF IndInv
    <3>. QED
      BY <1>2, <2>1, <3>1, LinkFrame
  <2>2. CASE p = n
    <3>1. /\ Link(c, p) /\ currentServices[p] \in Services
          /\ dataTo[p][c] \in Changes \cup {Absent}
          /\ snapshot[c][p] \in Services \cup {Absent}
      BY DEF IndInv, TypeOK
    <3>2. dataTo[p][c] # Absent => PendDelete(dataTo[p][c], k) # Absent
      BY <3>1, ApplyDelete, SentinelAssumption
    <3>3. PendingLink(c, p)'
      BY <1>1, <1>3, <2>2, <3>1, AgreesDelete DEF Link, PendingLink
    <3>4. ChainLink(c, p)'
      <4>. SUFFICES ASSUME InChain(c, p), snapshot[c][p] # Absent
                    PROVE  /\ dataTo'[p][c] # Absent
                           /\ ApplyChanges(dataTo'[p][c], snapshot[c][p]) = currentServices'[p]
        BY <3>1 DEF Link, ChainLink, InChain, Base, Mirroring
      <4>1. /\ dataTo[p][c] # Absent
            /\ ApplyChanges(dataTo[p][c], snapshot[c][p]) = currentServices[p]
        BY <3>1 DEF Link, ChainLink
      <4>. QED
        BY <1>1, <1>3, <2>2, <3>1, <3>2, <4>1, ApplyDelete
    <3>5. (CallLink(c, p) /\ BodyLink(c, p) /\ CountLink(c, p) /\ MirrorLink(c, p))'
      BY <3>1 DEF Link, CallLink, BodyLink, CountLink, MirrorLink, HasFull, HasChanges, Mirroring
    <3>. QED
      BY <3>3, <3>4, <3>5 DEF Link
  <2>. QED
    BY <2>1, <2>2
<1>. QED
  BY <1>4, <1>5, <1>6 DEF IndInv

\* Types are kept when a worker of c for p receives an answer.
LEMMA ReplyType ==
    ASSUME TypeOK, NEW c \in Node, NEW p \in Node, NEW s \in CallState,
           NEW d \in Services \cup Changes \cup {Absent}, Reply(c, p, s, d)
    PROVE  /\ call' \in [Node -> [Node -> CallState]]
           /\ body' \in [Node -> [Node -> Services \cup Changes \cup {Absent}]]
           /\ call'[c][p] = s /\ body'[c][p] = d
           /\ \A x, y \in Node : x # c \/ y # p =>
                 call'[x][y] = call[x][y] /\ body'[x][y] = body[x][y]
BY DEF TypeOK, Reply

\* The steps of the handlers that do not reach the store only answer.
LEMMA CheckStep ==
    ASSUME IndInv, NEW c \in Node, NEW p \in Node,
           \/ HttpClusterAuth(c, p)
           \/ HttpClusterFullCheck(c, p)
           \/ HttpClusterIncrementalCheck(c, p)
    PROVE  IndInv'
<1>. USE DEF storeVars
<1>1. PICK s \in {"ok", "checked", "fail"} :
         /\ Reply(c, p, s, Absent)
         /\ s = "ok" => wpc[c][p] = "auth"
         /\ s = "checked" => wpc[c][p] \in {"full", "inc"}
  BY DEF HttpClusterAuth, HttpClusterFullCheck, HttpClusterIncrementalCheck
<1>2. /\ wpc[c][p] \in {"auth", "full", "inc"}
      /\ UNCHANGED <<services, currentServices, dataFrom, dataTo, SyncQueue, wpc,
                     retryCnt, queryCount, stray, snapshot>>
  BY DEF HttpClusterAuth, HttpClusterFullCheck, HttpClusterIncrementalCheck
<1>3. ClientPeerMapping' \in [Node -> [Node -> {"none", "fresh", "stale"}]]
  <2>1. UpdateClientTime(p, c) \/ UNCHANGED ClientPeerMapping
    BY DEF HttpClusterAuth, HttpClusterFullCheck, HttpClusterIncrementalCheck
  <2>2. ClientPeerMapping \in [Node -> [Node -> {"none", "fresh", "stale"}]]
    BY DEF IndInv, TypeOK
  <2>3. CASE UpdateClientTime(p, c)
    BY <2>2, <2>3 DEF UpdateClientTime
  <2>. QED
    BY <2>1, <2>2, <2>3
<1>4. /\ call' \in [Node -> [Node -> CallState]]
      /\ body' \in [Node -> [Node -> Services \cup Changes \cup {Absent}]]
      /\ call'[c][p] = s /\ body'[c][p] = Absent
      /\ \A x, y \in Node : x # c \/ y # p =>
            call'[x][y] = call[x][y] /\ body'[x][y] = body[x][y]
  BY <1>1, ReplyType DEF IndInv, CallState
<1>5. TypeOK'
  BY <1>2, <1>3, <1>4 DEF IndInv, TypeOK
<1>6. QueueLink'
  BY <1>2 DEF IndInv, QueueLink
<1>7. ASSUME NEW x \in Node, NEW y \in Node PROVE Link(x, y)'
  <2>1. CASE x # c \/ y # p
    <3>1. Link(x, y)
      BY DEF IndInv
    <3>. QED
      BY <1>2, <1>4, <2>1, <3>1, LinkFrame
  <2>2. CASE x = c /\ y = p
    <3>1. Link(c, p) /\ call[c][p] = "sent" /\ body[c][p] = Absent
      BY DEF IndInv, Link, BodyLink, HasFull, HasChanges, HttpClusterAuth,
             HttpClusterFullCheck, HttpClusterIncrementalCheck
    <3>. QED
      BY <1>1, <1>2, <1>4, <2>2, <3>1
         DEF Link, CallLink, BodyLink, CountLink, PendingLink, MirrorLink, ChainLink,
             HasFull, HasChanges, Mirroring, InChain, Base
  <2>. QED
    BY <2>1, <2>2
<1>. QED
  BY <1>5, <1>6, <1>7 DEF IndInv

\* httpClusterFull: the answer, the snapshot and the watch start the chain.
LEMMA FullStep ==
    ASSUME IndInv, NEW c \in Node, NEW p \in Node, HttpClusterFull(c, p)
    PROVE  IndInv'
<1>. USE DEF HttpClusterFull
<1>0. TypeOK /\ Link(c, p) /\ currentServices[p] \in Services
      /\ dataTo[p][c] \in Changes \cup {Absent}
  BY DEF IndInv, TypeOK
<1>1. /\ call' \in [Node -> [Node -> CallState]]
      /\ body' \in [Node -> [Node -> Services \cup Changes \cup {Absent}]]
      /\ call'[c][p] = "ok" /\ body'[c][p] = currentServices[p]
      /\ \A x, y \in Node : x # c \/ y # p =>
            call'[x][y] = call[x][y] /\ body'[x][y] = body[x][y]
  BY <1>0, ReplyType DEF CallState
<1>2. /\ dataTo' \in [Node -> [Node -> Changes \cup {Absent}]]
      /\ dataTo'[p][c] = IF dataTo[p][c] = Absent THEN NoChanges ELSE dataTo[p][c]
      /\ \A x, y \in Node : x # c \/ y # p => dataTo'[y][x] = dataTo[y][x]
  BY <1>0, EmptyTypes DEF Watch, TypeOK
<1>3. /\ snapshot' \in [Node -> [Node -> Services \cup {Absent}]]
      /\ snapshot'[c][p] = currentServices[p]
      /\ \A x, y \in Node : x # c \/ y # p => snapshot'[x][y] = snapshot[x][y]
  BY <1>0 DEF TypeOK
<1>4. TypeOK'
  BY <1>0, <1>1, <1>2, <1>3 DEF TypeOK
<1>5. QueueLink'
  BY DEF IndInv, QueueLink
<1>6. ASSUME NEW x \in Node, NEW y \in Node PROVE Link(x, y)'
  <2>1. CASE x # c \/ y # p
    <3>1. Link(x, y)
      BY DEF IndInv
    <3>. QED
      BY <1>1, <1>2, <1>3, <2>1, <3>1, LinkFrame
  <2>2. CASE x = c /\ y = p
    <3>1. PendingLink(c, p)' /\ dataTo'[p][c] # Absent
      BY <1>0, <1>2, ApplyNothing, SentinelAssumption DEF Link, PendingLink
    <3>2. ChainLink(c, p)'
      BY <1>1, <1>3, <3>1 DEF ChainLink, PendingLink, Base
    <3>3. (CallLink(c, p) /\ BodyLink(c, p) /\ CountLink(c, p) /\ MirrorLink(c, p))'
      BY <1>0, <1>1 DEF Link, CallLink, BodyLink, CountLink, MirrorLink,
                        HasFull, HasChanges, Mirroring
    <3>. QED
      BY <2>2, <3>1, <3>2, <3>3 DEF Link
  <2>. QED
    BY <2>1, <2>2
<1>. QED
  BY <1>4, <1>5, <1>6 DEF IndInv

\* httpClusterIncremental: what was pending becomes the answer, and the
\* snapshot moves on to the services of the peer at this moment.
LEMMA IncrementalStep ==
    ASSUME IndInv, NEW c \in Node, NEW p \in Node, HttpClusterIncremental(c, p)
    PROVE  IndInv'
<1>. USE DEF HttpClusterIncremental
<1>0. /\ TypeOK /\ Link(c, p) /\ currentServices[p] \in Services
      /\ dataTo[p][c] \in Changes \cup {Absent}
      /\ snapshot[c][p] \in Services \cup {Absent}
      /\ body[c][p] = Absent
  <2>1. TypeOK /\ Link(c, p)
    BY DEF IndInv
  <2>2. /\ currentServices[p] \in Services
        /\ dataTo[p][c] \in Changes \cup {Absent}
        /\ snapshot[c][p] \in Services \cup {Absent}
    BY <2>1 DEF TypeOK
  <2>3. body[c][p] = Absent
    BY <2>1 DEF Link, BodyLink, HasFull, HasChanges
  <2>. QED
    BY <2>1, <2>2, <2>3
<1>1. /\ call' \in [Node -> [Node -> CallState]]
      /\ body' \in [Node -> [Node -> Services \cup Changes \cup {Absent}]]
      /\ call'[c][p] = IF dataTo[p][c] = Absent THEN "fail" ELSE "ok"
      /\ body'[c][p] = dataTo[p][c]
      /\ \A x, y \in Node : x # c \/ y # p =>
            call'[x][y] = call[x][y] /\ body'[x][y] = body[x][y]
  BY <1>0, ReplyType DEF CallState
<1>2. /\ dataTo' \in [Node -> [Node -> Changes \cup {Absent}]]
      /\ dataTo'[p][c] = IF dataTo[p][c] = Absent THEN Absent ELSE NoChanges
      /\ \A x, y \in Node : x # c \/ y # p => dataTo'[y][x] = dataTo[y][x]
  BY <1>0, EmptyTypes DEF TakeChanges, TypeOK
<1>3. /\ snapshot' \in [Node -> [Node -> Services \cup {Absent}]]
      /\ snapshot'[c][p] = IF snapshot[c][p] = Absent THEN Absent ELSE currentServices[p]
      /\ \A x, y \in Node : x # c \/ y # p => snapshot'[x][y] = snapshot[x][y]
  BY <1>0 DEF TypeOK
<1>4. TypeOK'
  BY <1>0, <1>1, <1>2, <1>3 DEF TypeOK
<1>5. QueueLink'
  BY DEF IndInv, QueueLink
<1>6. ASSUME NEW x \in Node, NEW y \in Node PROVE Link(x, y)'
  <2>1. CASE x # c \/ y # p
    <3>1. Link(x, y)
      BY DEF IndInv
    <3>. QED
      BY <1>1, <1>2, <1>3, <2>1, <3>1, LinkFrame
  <2>2. CASE x = c /\ y = p
    <3>1. PendingLink(c, p)'
      BY <1>0, <1>2, ApplyNothing DEF PendingLink
    <3>2. ChainLink(c, p)'
      <4>. SUFFICES ASSUME snapshot[c][p] # Absent
                    PROVE  /\ Base(c, p)' = currentServices[p]
                           /\ dataTo'[p][c] # Absent
                           /\ ApplyChanges(dataTo'[p][c], currentServices[p]) = currentServices[p]
        BY <1>3 DEF ChainLink
      <4>1. /\ dataFrom[c][p] = snapshot[c][p] /\ dataTo[p][c] # Absent
            /\ ApplyChanges(dataTo[p][c], snapshot[c][p]) = currentServices[p]
        BY <1>0 DEF Link, ChainLink, InChain, Mirroring, Base
      <4>. QED
        BY <1>0, <1>1, <1>2, <4>1, ApplyNothing, SentinelAssumption DEF Base
    <3>3. (CallLink(c, p) /\ BodyLink(c, p) /\ CountLink(c, p) /\ MirrorLink(c, p))'
      BY <1>0, <1>1 DEF Link, CallLink, BodyLink, CountLink, MirrorLink,
                        HasFull, HasChanges, Mirroring
    <3>. QED
      BY <2>2, <3>1, <3>2, <3>3 DEF Link
  <2>. QED
    BY <2>1, <2>2
<1>. QED
  BY <1>4, <1>5, <1>6 DEF IndInv

\* Losing changes or a watch is recorded: any step that leaves the workers
\* alone and at every mirror either changes nothing, or forgets the snapshot
\* together with whatever it does to an agreeing pending list.
LEMMA ServerOnlyStep ==
    ASSUME IndInv, TypeOK',
           UNCHANGED <<currentServices, dataFrom, SyncQueue, wpc, call, body, queryCount>>,
           \A c, p \in Node :
              \/ dataTo'[p][c] = dataTo[p][c] /\ snapshot'[c][p] = snapshot[c][p]
              \/ dataTo'[p][c] \in {Absent, NoChanges} /\ snapshot'[c][p] = Absent
              \/ dataTo[p][c] = Absent /\ dataTo'[p][c] \in {Absent, NoChanges}
                 /\ snapshot'[c][p] = snapshot[c][p]
              \/ dataTo[p][c] = NoChanges /\ dataTo'[p][c] = NoChanges
                 /\ snapshot'[c][p] = snapshot[c][p]
    PROVE  IndInv'
<1>1. QueueLink'
  BY DEF IndInv, QueueLink
<1>2. ASSUME NEW c \in Node, NEW p \in Node PROVE Link(c, p)'
  <2>1. Link(c, p) /\ currentServices[p] \in Services
    BY DEF IndInv, TypeOK
  <2>2. PendingLink(c, p)'
    BY <2>1, ApplyNothing DEF Link, PendingLink
  <2>3. ChainLink(c, p)'
    BY <2>1 DEF Link, ChainLink, InChain, Base, Mirroring
  <2>4. (CallLink(c, p) /\ BodyLink(c, p) /\ CountLink(c, p) /\ MirrorLink(c, p))'
    BY <2>1 DEF Link, CallLink, BodyLink, CountLink, MirrorLink,
                HasFull, HasChanges, Mirroring
  <2>. QED
    BY <2>2, <2>3, <2>4 DEF Link
<1>. QED
  BY <1>1, <1>2 DEF IndInv

\* CheckPeerHealth removes watches.
LEMMA HealthStep ==
    ASSUME IndInv, NEW n \in Node, CheckPeerHealth(n)
    PROVE  IndInv'
<1>. DEFINE rlist == {c \in Node : ClientPeerMapping[n][c] = "stale"}
<1>1. /\ dataTo' = [dataTo EXCEPT ![n] =
                       [c \in Node |-> IF c \in rlist THEN Absent ELSE dataTo[n][c]]]
      /\ ClientPeerMapping' = [ClientPeerMapping EXCEPT ![n] =
                       [c \in Node |-> IF c \in rlist THEN "none" ELSE ClientPeerMapping[n][c]]]
      /\ snapshot' = [c \in Node |-> IF c \in rlist THEN [snapshot[c] EXCEPT ![n] = Absent]
                                     ELSE snapshot[c]]
      /\ UNCHANGED <<services, currentServices, dataFrom, SyncQueue, wpc, call, body,
                     retryCnt, queryCount, stray>>
  BY DEF CheckPeerHealth, workerVars, IndInv, TypeOK
<1>2. TypeOK
  BY DEF IndInv
<1>. HIDE DEF rlist
<1>3. /\ dataTo' \in [Node -> [Node -> Changes \cup {Absent}]]
      /\ ClientPeerMapping' \in [Node -> [Node -> {"none", "fresh", "stale"}]]
      /\ snapshot' \in [Node -> [Node -> Services \cup {Absent}]]
  BY <1>1, <1>2 DEF TypeOK
<1>4. TypeOK'
  BY <1>1, <1>2, <1>3 DEF TypeOK
<1>5. \A c, p \in Node :
         \/ dataTo'[p][c] = dataTo[p][c] /\ snapshot'[c][p] = snapshot[c][p]
         \/ dataTo'[p][c] = Absent /\ snapshot'[c][p] = Absent
  BY <1>1, <1>2 DEF TypeOK
<1>. QED
  BY <1>1, <1>4, <1>5, ServerOnlyStep

\* Time passing touches nothing the invariant is about.
LEMMA AgeStep ==
    ASSUME IndInv, NEW c \in Node, NEW p \in Node, Age(p, c)
    PROVE  IndInv'
<1>1. TypeOK'
  BY DEF Age, IndInv, TypeOK, storeVars, workerVars
<1>. QED
  BY <1>1, ServerOnlyStep DEF Age, storeVars, workerVars

\* Stray requests: the snapshot is forgotten when changes are taken.
LEMMA StrayStep ==
    ASSUME IndInv, NEW c \in Node, NEW p \in Node, Stray(c, p)
    PROVE  IndInv'
<1>. DEFINE Forgetting == [snapshot EXCEPT ![c][p] =
                              IF dataTo[p][c] \in {Absent, NoChanges} THEN @ ELSE Absent]
<1>0. TypeOK
  BY DEF IndInv
<1>1. /\ UNCHANGED <<services, currentServices, dataFrom, SyncQueue, wpc, call, body,
                     retryCnt, queryCount>>
      /\ stray' \in [Node -> [Node -> SUBSET StrayKind]]
  <2>1. PICK from \in StrayKind, to \in SUBSET StrayKind : StrayMoves(c, p, from, to)
    BY DEF Stray, StrayAuth, StrayFullCheck, StrayFull, StrayIncrementalCheck,
           StrayIncremental, StrayKind
  <2>2. stray[c][p] \in SUBSET StrayKind
    BY <1>0 DEF TypeOK
  <2>3. PICK rest \in SUBSET StrayKind : stray' = [stray EXCEPT ![c][p] = rest]
    BY <2>1, <2>2 DEF StrayMoves
  <2>. QED
    BY <1>0, <2>1, <2>3 DEF StrayMoves, workerVars, TypeOK
<1>2. ClientPeerMapping' \in [Node -> [Node -> {"none", "fresh", "stale"}]]
  <2>1. UpdateClientTime(p, c) \/ UNCHANGED ClientPeerMapping
    BY DEF Stray, StrayAuth, StrayFullCheck, StrayFull, StrayIncrementalCheck,
           StrayIncremental
  <2>2. ClientPeerMapping \in [Node -> [Node -> {"none", "fresh", "stale"}]]
    BY <1>0 DEF TypeOK
  <2>3. CASE UpdateClientTime(p, c)
    BY <2>2, <2>3 DEF UpdateClientTime
  <2>. QED
    BY <2>1, <2>2, <2>3
<1>3. \/ UNCHANGED <<dataTo, snapshot>>
      \/ Watch(p, c) /\ UNCHANGED snapshot
      \/ TakeChanges(p, c) /\ snapshot' = Forgetting
  BY DEF Stray, StrayAuth, StrayFullCheck, StrayFull, StrayIncrementalCheck,
         StrayIncremental
<1>4. /\ dataTo' \in [Node -> [Node -> Changes \cup {Absent}]]
      /\ snapshot' \in [Node -> [Node -> Services \cup {Absent}]]
  <2>1. CASE UNCHANGED <<dataTo, snapshot>>
    BY <1>0, <2>1 DEF TypeOK
  <2>2. CASE Watch(p, c) /\ UNCHANGED snapshot
    BY <1>0, <2>2, EmptyTypes DEF Watch, TypeOK
  <2>3. CASE TakeChanges(p, c) /\ snapshot' = Forgetting
    BY <1>0, <2>3, EmptyTypes DEF TakeChanges, TypeOK
  <2>. QED
    BY <1>3, <2>1, <2>2, <2>3
<1>5. TypeOK'
  BY <1>0, <1>1, <1>2, <1>4 DEF TypeOK
<1>6. ASSUME NEW x \in Node, NEW y \in Node
      PROVE  \/ dataTo'[y][x] = dataTo[y][x] /\ snapshot'[x][y] = snapshot[x][y]
             \/ dataTo'[y][x] \in {Absent, NoChanges} /\ snapshot'[x][y] = Absent
             \/ dataTo[y][x] = Absent /\ dataTo'[y][x] \in {Absent, NoChanges}
                /\ snapshot'[x][y] = snapshot[x][y]
             \/ dataTo[y][x] = NoChanges /\ dataTo'[y][x] = NoChanges
                /\ snapshot'[x][y] = snapshot[x][y]
  <2>1. CASE UNCHANGED <<dataTo, snapshot>>
    BY <2>1
  <2>2. CASE Watch(p, c) /\ UNCHANGED snapshot
    BY <1>0, <2>2 DEF Watch, TypeOK
  <2>3. CASE TakeChanges(p, c) /\ snapshot' = Forgetting
    BY <1>0, <2>3 DEF TakeChanges, TypeOK
  <2>. QED
    BY <1>3, <2>1, <2>2, <2>3
<1>. QED
  BY <1>1, <1>5, <1>6, ServerOnlyStep

\* A worker that is not waiting for ProcessSyncWorker may move: the queue does
\* not name it.
LEMMA QueueFrame ==
    ASSUME IndInv, NEW c \in Node, NEW p \in Node,
           wpc[c][p] \notin {"applyFull", "applyInc"},
           UNCHANGED SyncQueue,
           \A x, y \in Node : x # c \/ y # p => wpc'[x][y] = wpc[x][y]
    PROVE  QueueLink'
<1>1. SyncQueue \in [Node -> Seq(Node)]
  BY DEF IndInv, TypeOK
<1>2. \A x \in Node : \A i \in 1..Len(SyncQueue[x]) : SyncQueue[x][i] \in Node
  BY <1>1
<1>3. ASSUME NEW x \in Node, NEW i \in 1..Len(SyncQueue[x])
      PROVE  wpc'[x][SyncQueue[x][i]] \in {"applyFull", "applyInc"}
  <2>1. /\ wpc[x][SyncQueue[x][i]] \in {"applyFull", "applyInc"}
        /\ SyncQueue[x][i] \in Node
    BY <1>2 DEF IndInv, QueueLink
  <2>. QED
    BY <2>1
<1>. QED
  BY <1>3 DEF IndInv, QueueLink

\* A worker that has its answer joins the end of the queue.
LEMMA QueueJoin ==
    ASSUME IndInv, NEW c \in Node, NEW p \in Node,
           wpc[c][p] \notin {"applyFull", "applyInc"},
           wpc'[c][p] \in {"applyFull", "applyInc"},
           SyncQueue' = [SyncQueue EXCEPT ![c] = Append(@, p)],
           \A x, y \in Node : x # c \/ y # p => wpc'[x][y] = wpc[x][y]
    PROVE  QueueLink' /\ SyncQueue' \in [Node -> Seq(Node)]
<1>1. SyncQueue \in [Node -> Seq(Node)]
  BY DEF IndInv, TypeOK
<1>2. \A x \in Node : \A i \in 1..Len(SyncQueue[x]) : SyncQueue[x][i] \in Node
  BY <1>1
<1>3. SyncQueue' \in [Node -> Seq(Node)]
  BY <1>1
<1>4. ASSUME NEW x \in Node
      PROVE  /\ \A i \in 1..Len(SyncQueue'[x]) :
                   wpc'[x][SyncQueue'[x][i]] \in {"applyFull", "applyInc"}
             /\ \A i, j \in 1..Len(SyncQueue'[x]) :
                   SyncQueue'[x][i] = SyncQueue'[x][j] => i = j
  <2>1. CASE x # c
    <3>1. SyncQueue'[x] = SyncQueue[x]
      BY <1>1, <2>1
    <3>2. /\ \A i \in 1..Len(SyncQueue[x]) :
                wpc[x][SyncQueue[x][i]] \in {"applyFull", "applyInc"}
          /\ \A i, j \in 1..Len(SyncQueue[x]) :
                SyncQueue[x][i] = SyncQueue[x][j] => i = j
      BY DEF IndInv, QueueLink
    <3>. QED
      BY <1>2, <2>1, <3>1, <3>2
  <2>2. CASE x = c
    <3>1. /\ Len(SyncQueue'[c]) = Len(SyncQueue[c]) + 1
          /\ SyncQueue'[c][Len(SyncQueue[c]) + 1] = p
          /\ \A i \in 1..Len(SyncQueue[c]) : SyncQueue'[c][i] = SyncQueue[c][i]
          /\ Len(SyncQueue[c]) \in Nat
      BY <1>1
    <3>2. \A i \in 1..Len(SyncQueue[c]) : SyncQueue[c][i] # p
      BY DEF IndInv, QueueLink
    <3>. QED
      BY <1>2, <2>2, <3>1, <3>2 DEF IndInv, QueueLink
  <2>. QED
    BY <2>1, <2>2
<1>. QED
  BY <1>3, <1>4 DEF QueueLink

\* Types and effect of sending a request.
LEMMA SendType ==
    ASSUME TypeOK, NEW c \in Node, NEW p \in Node, NEW r \in {"auth", "full", "inc"},
           Send(c, p, r)
    PROVE  /\ wpc' \in [Node -> [Node -> WorkerPlace]]
           /\ call' \in [Node -> [Node -> CallState]]
           /\ body' \in [Node -> [Node -> Services \cup Changes \cup {Absent}]]
           /\ wpc'[c][p] = r /\ call'[c][p] = "sent" /\ body'[c][p] = Absent
           /\ \A x, y \in Node : x # c \/ y # p =>
                 /\ wpc'[x][y] = wpc[x][y]
                 /\ call'[x][y] = call[x][y] /\ body'[x][y] = body[x][y]
<1>1. "sent" \in CallState /\ r \in WorkerPlace
  BY DEF CallState, WorkerPlace
<1>. QED
  BY <1>1 DEF TypeOK, Send

\* Types and effect of moving on without one.
LEMMA ContinueType ==
    ASSUME TypeOK, NEW c \in Node, NEW p \in Node, NEW w \in WorkerPlace,
           Continue(c, p, w)
    PROVE  /\ wpc' \in [Node -> [Node -> WorkerPlace]]
           /\ call' \in [Node -> [Node -> CallState]]
           /\ wpc'[c][p] = w /\ call'[c][p] = "idle"
           /\ \A x, y \in Node : x # c \/ y # p =>
                 wpc'[x][y] = wpc[x][y] /\ call'[x][y] = call[x][y]
<1>1. "idle" \in CallState
  BY DEF CallState
<1>. QED
  BY <1>1 DEF TypeOK, Continue

\* StartSyncing: the mirror goes, and with it the chain.
LEMMA StartStep ==
    ASSUME IndInv, NEW c \in Node, NEW p \in Node, StartSyncing(c, p)
    PROVE  IndInv'
<1>. USE DEF StartSyncing, serverVars
<1>0. TypeOK /\ Link(c, p)
  BY DEF IndInv
<1>1. /\ wpc' \in [Node -> [Node -> WorkerPlace]]
      /\ call' \in [Node -> [Node -> CallState]]
      /\ body' \in [Node -> [Node -> Services \cup Changes \cup {Absent}]]
      /\ wpc'[c][p] = "auth" /\ call'[c][p] = "sent" /\ body'[c][p] = Absent
      /\ \A x, y \in Node : x # c \/ y # p =>
            /\ wpc'[x][y] = wpc[x][y]
            /\ call'[x][y] = call[x][y] /\ body'[x][y] = body[x][y]
  BY <1>0, SendType
<1>2. /\ dataFrom' \in [Node -> [Node -> Services \cup {Absent}]]
      /\ snapshot' \in [Node -> [Node -> Services \cup {Absent}]]
      /\ retryCnt' \in [Node -> [Node -> 0..MaxRetry]]
      /\ queryCount' \in [Node -> [Node -> 0..(FullMin + FullJitter - 1)]]
      /\ \A x, y \in Node : x # c \/ y # p =>
            /\ dataFrom'[x][y] = dataFrom[x][y]
            /\ snapshot'[x][y] = snapshot[x][y]
            /\ queryCount'[x][y] = queryCount[x][y]
      /\ snapshot'[c][p] = Absent
  <2>1. 0 \in 0..MaxRetry /\ 0 \in 0..(FullMin + FullJitter - 1)
    BY ConfigAssumption
  <2>. QED
    BY <1>0, <2>1 DEF TypeOK
<1>3. services' \in [Node -> Services]
  <2>1. UNCHANGED services \/ \E m \in Services : services' = [services EXCEPT ![c] = m]
    BY DEF Rebuild
  <2>2. CASE \E m \in Services : services' = [services EXCEPT ![c] = m]
    BY <1>0, <2>2 DEF TypeOK
  <2>. QED
    BY <1>0, <2>1, <2>2 DEF TypeOK
<1>4. TypeOK'
  BY <1>0, <1>1, <1>2, <1>3 DEF TypeOK
<1>5. QueueLink'
  <2>1. /\ wpc[c][p] \notin {"applyFull", "applyInc"}
        /\ UNCHANGED SyncQueue
        /\ \A x, y \in Node : x # c \/ y # p => wpc'[x][y] = wpc[x][y]
    BY <1>1
  <2>. QED
    BY <2>1, QueueFrame
<1>6. ASSUME NEW x \in Node, NEW y \in Node PROVE Link(x, y)'
  <2>1. CASE x # c \/ y # p
    <3>1. Link(x, y)
      BY DEF IndInv
    <3>. QED
      BY <1>1, <1>2, <2>1, <3>1, LinkFrame
  <2>2. CASE x = c /\ y = p
    BY <1>0, <1>1, <1>2, <2>2
       DEF Link, CallLink, BodyLink, CountLink, PendingLink, MirrorLink, ChainLink,
           HasFull, HasChanges, Mirroring, InChain
  <2>. QED
    BY <2>1, <2>2
<1>. QED
  BY <1>4, <1>5, <1>6 DEF IndInv

\* A worker that sends its next request.
LEMMA SendStep ==
    ASSUME IndInv, NEW c \in Node, NEW p \in Node, NEW r \in {"full", "inc"},
           Send(c, p, r),
           wpc[c][p] \in {"auth", "poll"},
           r = "inc" => wpc[c][p] = "poll" /\ queryCount[c][p] < FullMin + FullJitter - 1,
           UNCHANGED <<services, currentServices, dataFrom, dataTo, ClientPeerMapping,
                       SyncQueue, retryCnt, queryCount, stray, snapshot>>
    PROVE  IndInv'
<1>0. TypeOK /\ Link(c, p)
  BY DEF IndInv
<1>1. /\ wpc' \in [Node -> [Node -> WorkerPlace]]
      /\ call' \in [Node -> [Node -> CallState]]
      /\ body' \in [Node -> [Node -> Services \cup Changes \cup {Absent}]]
      /\ wpc'[c][p] = r /\ call'[c][p] = "sent" /\ body'[c][p] = Absent
      /\ \A x, y \in Node : x # c \/ y # p =>
            /\ wpc'[x][y] = wpc[x][y]
            /\ call'[x][y] = call[x][y] /\ body'[x][y] = body[x][y]
  BY <1>0, SendType
<1>2. TypeOK'
  BY <1>0, <1>1 DEF TypeOK
<1>3. QueueLink'
  <2>1. /\ wpc[c][p] \notin {"applyFull", "applyInc"}
        /\ UNCHANGED SyncQueue
        /\ \A x, y \in Node : x # c \/ y # p => wpc'[x][y] = wpc[x][y]
    BY <1>1
  <2>. QED
    BY <2>1, QueueFrame
<1>4. ASSUME NEW x \in Node, NEW y \in Node PROVE Link(x, y)'
  <2>1. CASE x # c \/ y # p
    <3>1. Link(x, y)
      BY DEF IndInv
    <3>. QED
      BY <1>1, <2>1, <3>1, LinkFrame
  <2>2. CASE x = c /\ y = p
    <3>1. body[c][p] = Absent
      BY <1>0 DEF Link, BodyLink, HasFull, HasChanges
    <3>. QED
      BY <1>0, <1>1, <2>2, <3>1
         DEF Link, CallLink, BodyLink, CountLink, PendingLink, MirrorLink, ChainLink,
             HasFull, HasChanges, Mirroring, InChain, Base
  <2>. QED
    BY <2>1, <2>2
<1>. QED
  BY <1>2, <1>3, <1>4 DEF IndInv

\* A worker that goes back to its main loop or its timer without an answer.
LEMMA BackStep ==
    ASSUME IndInv, NEW c \in Node, NEW p \in Node, NEW w \in {"start", "poll"},
           Continue(c, p, w),
           wpc[c][p] \in {"auth", "full", "inc"}, call[c][p] = "fail",
           w = "poll" => wpc[c][p] = "inc",
           retryCnt' \in [Node -> [Node -> 0..MaxRetry]],
           UNCHANGED <<services, currentServices, dataFrom, dataTo, ClientPeerMapping,
                       SyncQueue, body, queryCount, stray, snapshot>>
    PROVE  IndInv'
<1>0. TypeOK /\ Link(c, p) /\ w \in WorkerPlace
  BY DEF IndInv, WorkerPlace
<1>1. /\ wpc' \in [Node -> [Node -> WorkerPlace]]
      /\ call' \in [Node -> [Node -> CallState]]
      /\ wpc'[c][p] = w /\ call'[c][p] = "idle"
      /\ \A x, y \in Node : x # c \/ y # p =>
            wpc'[x][y] = wpc[x][y] /\ call'[x][y] = call[x][y]
  BY <1>0, ContinueType
<1>2. TypeOK'
  BY <1>0, <1>1 DEF TypeOK
<1>3. QueueLink'
  <2>1. /\ wpc[c][p] \notin {"applyFull", "applyInc"}
        /\ UNCHANGED SyncQueue
        /\ \A x, y \in Node : x # c \/ y # p => wpc'[x][y] = wpc[x][y]
    BY <1>1
  <2>. QED
    BY <2>1, QueueFrame
<1>4. ASSUME NEW x \in Node, NEW y \in Node PROVE Link(x, y)'
  <2>1. CASE x # c \/ y # p
    <3>1. Link(x, y)
      BY DEF IndInv
    <3>. QED
      BY <1>1, <2>1, <3>1, LinkFrame
  <2>2. CASE x = c /\ y = p
    BY <1>0, <1>1, <2>2
       DEF Link, CallLink, BodyLink, CountLink, PendingLink, MirrorLink, ChainLink,
           HasFull, HasChanges, Mirroring, InChain, Base
  <2>. QED
    BY <2>1, <2>2
<1>. QED
  BY <1>2, <1>3, <1>4 DEF IndInv

\* A worker that hands its answer to ProcessSyncWorker.
LEMMA EnqueueStep ==
    ASSUME IndInv, NEW c \in Node, NEW p \in Node, NEW w \in {"applyFull", "applyInc"},
           Continue(c, p, w),
           call[c][p] = "ok",
           wpc[c][p] = IF w = "applyFull" THEN "full" ELSE "inc",
           SyncQueue' = [SyncQueue EXCEPT ![c] = Append(@, p)],
           retryCnt' \in [Node -> [Node -> 0..MaxRetry]],
           UNCHANGED <<services, currentServices, dataFrom, dataTo, ClientPeerMapping,
                       body, queryCount, stray, snapshot>>
    PROVE  IndInv'
<1>0. TypeOK /\ Link(c, p) /\ w \in WorkerPlace
  BY DEF IndInv, WorkerPlace
<1>1. /\ wpc' \in [Node -> [Node -> WorkerPlace]]
      /\ call' \in [Node -> [Node -> CallState]]
      /\ wpc'[c][p] = w /\ call'[c][p] = "idle"
      /\ \A x, y \in Node : x # c \/ y # p =>
            wpc'[x][y] = wpc[x][y] /\ call'[x][y] = call[x][y]
  BY <1>0, ContinueType
<1>2. QueueLink' /\ SyncQueue' \in [Node -> Seq(Node)]
  <2>1. /\ wpc[c][p] \notin {"applyFull", "applyInc"}
        /\ wpc'[c][p] \in {"applyFull", "applyInc"}
        /\ \A x, y \in Node : x # c \/ y # p => wpc'[x][y] = wpc[x][y]
    BY <1>1
  <2>. QED
    BY <2>1, QueueJoin
<1>3. TypeOK'
  BY <1>0, <1>1, <1>2 DEF TypeOK
<1>4. ASSUME NEW x \in Node, NEW y \in Node PROVE Link(x, y)'
  <2>1. CASE x # c \/ y # p
    <3>1. Link(x, y)
      BY DEF IndInv
    <3>. QED
      BY <1>1, <2>1, <3>1, LinkFrame
  <2>2. CASE x = c /\ y = p
    BY <1>0, <1>1, <2>2
       DEF Link, CallLink, BodyLink, CountLink, PendingLink, MirrorLink, ChainLink,
           HasFull, HasChanges, Mirroring, InChain, Base
  <2>. QED
    BY <2>1, <2>2
<1>. QED
  BY <1>2, <1>3, <1>4 DEF IndInv

\* PeerSyncWorker: each of its steps is one of the above.
LEMMA WorkerStep ==
    ASSUME IndInv, NEW c \in Node, NEW p \in Node, Worker(c, p)
    PROVE  IndInv'
<1>0. TypeOK
  BY DEF IndInv
<1>1. CASE StartSyncing(c, p)
  BY <1>1, StartStep
<1>2. CASE OnAuth(c, p)
  <2>1. /\ wpc[c][p] = "auth"
        /\ UNCHANGED <<services, currentServices, dataFrom, dataTo, ClientPeerMapping,
                       SyncQueue, retryCnt, queryCount, stray, snapshot>>
    BY <1>2 DEF OnAuth, storeVars
  <2>2. CASE Send(c, p, "full")
    BY <2>1, <2>2, SendStep
  <2>3. CASE call[c][p] = "fail" /\ Continue(c, p, "start") /\ UNCHANGED body
    <3>1. retryCnt' \in [Node -> [Node -> 0..MaxRetry]]
      BY <1>0, <2>1 DEF TypeOK
    <3>. QED
      BY <2>1, <2>3, <3>1, BackStep
  <2>. QED
    BY <1>2, <2>2, <2>3 DEF OnAuth
<1>3. CASE OnFull(c, p)
  <2>1. /\ wpc[c][p] = "full"
        /\ UNCHANGED <<services, currentServices, dataFrom, dataTo, ClientPeerMapping,
                       body, retryCnt, queryCount, stray, snapshot>>
    BY <1>3 DEF OnFull, storeVars
  <2>2. retryCnt' \in [Node -> [Node -> 0..MaxRetry]]
    BY <1>0, <2>1 DEF TypeOK
  <2>3. CASE /\ call[c][p] = "ok" /\ Continue(c, p, "applyFull")
             /\ SyncQueue' = [SyncQueue EXCEPT ![c] = Append(@, p)]
    BY <2>1, <2>2, <2>3, EnqueueStep
  <2>4. CASE call[c][p] = "fail" /\ Continue(c, p, "start") /\ UNCHANGED SyncQueue
    BY <2>1, <2>2, <2>4, BackStep
  <2>. QED
    BY <1>3, <2>3, <2>4 DEF OnFull
<1>4. CASE OnIncremental(c, p)
  <2>1. /\ wpc[c][p] = "inc"
        /\ UNCHANGED <<services, currentServices, dataFrom, dataTo, ClientPeerMapping,
                       body, queryCount, stray, snapshot>>
    BY <1>4 DEF OnIncremental, storeVars
  <2>2. retryCnt[c][p] \in 0..MaxRetry /\ MaxRetry \in Nat
    BY <1>0, ConfigAssumption DEF TypeOK
  <2>3. CASE /\ call[c][p] = "ok" /\ Continue(c, p, "applyInc")
             /\ SyncQueue' = [SyncQueue EXCEPT ![c] = Append(@, p)]
             /\ retryCnt' = [retryCnt EXCEPT ![c][p] = 0]
    <3>1. 0 \in 0..MaxRetry
      BY <2>2
    <3>2. retryCnt' \in [Node -> [Node -> 0..MaxRetry]]
      BY <1>0, <2>3, <3>1 DEF TypeOK
    <3>. QED
      BY <2>1, <2>3, <3>2, EnqueueStep
  <2>4. CASE /\ call[c][p] = "fail" /\ retryCnt[c][p] < MaxRetry
             /\ Continue(c, p, "poll")
             /\ retryCnt' = [retryCnt EXCEPT ![c][p] = @ + 1]
             /\ UNCHANGED SyncQueue
    <3>1. retryCnt[c][p] + 1 \in 0..MaxRetry
      BY <2>2, <2>4
    <3>2. retryCnt' \in [Node -> [Node -> 0..MaxRetry]]
      BY <1>0, <2>4, <3>1 DEF TypeOK
    <3>. QED
      BY <2>1, <2>4, <3>2, BackStep
  <2>5. CASE call[c][p] = "fail" /\ Continue(c, p, "start") /\ UNCHANGED <<SyncQueue, retryCnt>>
    <3>1. retryCnt' \in [Node -> [Node -> 0..MaxRetry]]
      BY <1>0, <2>5 DEF TypeOK
    <3>. QED
      BY <2>1, <2>5, <3>1, BackStep
  <2>. QED
    BY <1>4, <2>3, <2>4, <2>5 DEF OnIncremental
<1>5. CASE Poll(c, p)
  <2>1. /\ wpc[c][p] = "poll"
        /\ UNCHANGED <<services, currentServices, dataFrom, dataTo, ClientPeerMapping,
                       SyncQueue, retryCnt, queryCount, stray, snapshot>>
    BY <1>5 DEF Poll, storeVars
  <2>2. CASE queryCount[c][p] < FullMin + FullJitter - 1 /\ Send(c, p, "inc")
    BY <2>1, <2>2, SendStep
  <2>3. CASE Send(c, p, "full")
    BY <2>1, <2>3, SendStep
  <2>. QED
    BY <1>5, <2>2, <2>3 DEF Poll
<1>. QED
  BY <1>1, <1>2, <1>3, <1>4, <1>5 DEF Worker

\* The head of the queue leaves it: the others still wait, each of them once.
LEMMA QueueLeave ==
    ASSUME IndInv, NEW c \in Node, SyncQueue[c] # << >>,
           SyncQueue' = [SyncQueue EXCEPT ![c] = Tail(@)],
           \A x, y \in Node : x # c \/ y # Head(SyncQueue[c]) => wpc'[x][y] = wpc[x][y]
    PROVE  QueueLink' /\ SyncQueue' \in [Node -> Seq(Node)]
<1>1. SyncQueue \in [Node -> Seq(Node)]
  BY DEF IndInv, TypeOK
<1>2. \A x \in Node : \A i \in 1..Len(SyncQueue[x]) : SyncQueue[x][i] \in Node
  BY <1>1
<1>3. SyncQueue' \in [Node -> Seq(Node)]
  BY <1>1
<1>4. ASSUME NEW x \in Node
      PROVE  /\ \A i \in 1..Len(SyncQueue'[x]) :
                   wpc'[x][SyncQueue'[x][i]] \in {"applyFull", "applyInc"}
             /\ \A i, j \in 1..Len(SyncQueue'[x]) :
                   SyncQueue'[x][i] = SyncQueue'[x][j] => i = j
  <2>0. /\ \A i \in 1..Len(SyncQueue[x]) :
              wpc[x][SyncQueue[x][i]] \in {"applyFull", "applyInc"}
        /\ \A i, j \in 1..Len(SyncQueue[x]) :
              SyncQueue[x][i] = SyncQueue[x][j] => i = j
    BY DEF IndInv, QueueLink
  <2>1. CASE x # c
    <3>1. SyncQueue'[x] = SyncQueue[x]
      BY <1>1, <2>1
    <3>. QED
      BY <1>2, <2>0, <2>1, <3>1
  <2>2. CASE x = c
    <3>1. /\ Len(SyncQueue'[c]) = Len(SyncQueue[c]) - 1
          /\ \A i \in 1..Len(SyncQueue'[c]) : SyncQueue'[c][i] = SyncQueue[c][i + 1]
          /\ Len(SyncQueue[c]) \in Nat \ {0}
          /\ Head(SyncQueue[c]) = SyncQueue[c][1]
      BY <1>1
    <3>2. \A i \in 1..Len(SyncQueue'[c]) :
             i + 1 \in 1..Len(SyncQueue[c]) /\ SyncQueue[c][i + 1] # Head(SyncQueue[c])
      BY <2>0, <2>2, <3>1
    <3>. QED
      BY <1>2, <2>0, <2>2, <3>1, <3>2
  <2>. QED
    BY <2>1, <2>2
<1>. QED
  BY <1>3, <1>4 DEF QueueLink

\* ProcessSyncWorker: the mirror becomes what the chain says it will be.
LEMMA ProcessStep ==
    ASSUME IndInv, NEW c \in Node, ProcessSyncWorker(c)
    PROVE  IndInv'
<1>0. TypeOK /\ SyncQueue[c] \in Seq(Node) /\ SyncQueue[c] # << >>
  BY DEF IndInv, TypeOK, ProcessSyncWorker
<1>1. PICK p \in Node : p = Head(SyncQueue[c]) /\ wpc[c][p] \in {"applyFull", "applyInc"}
  <2>1. /\ Head(SyncQueue[c]) = SyncQueue[c][1] /\ 1 \in 1..Len(SyncQueue[c])
        /\ Head(SyncQueue[c]) \in Node
    BY <1>0
  <2>. QED
    BY <2>1 DEF IndInv, QueueLink
<1>2. Link(c, p)
  BY <1>1 DEF IndInv
<1>3. /\ SyncQueue' = [SyncQueue EXCEPT ![c] = Tail(@)]
      /\ body' = [body EXCEPT ![c][p] = Absent]
      /\ UNCHANGED <<currentServices, dataTo, ClientPeerMapping, call, retryCnt, stray, snapshot>>
  BY <1>1 DEF ProcessSyncWorker, serverVars
<1>4. PICK data \in Services, count \in 0..(FullMin + FullJitter - 1) :
         /\ StoreMirror(c, p, data, count)
         /\ InChain(c, p) /\ data = Base(c, p)
  <2>1. CASE wpc[c][p] = "applyFull"
    <3>1. body[c][p] \in Services
      BY <1>2, <2>1 DEF Link, BodyLink, HasFull
    <3>2. StoreMirror(c, p, body[c][p], 0)
      BY <1>1, <2>1 DEF ProcessSyncWorker
    <3>3. InChain(c, p) /\ body[c][p] = Base(c, p) /\ 0 \in 0..(FullMin + FullJitter - 1)
      BY <2>1, ConfigAssumption DEF InChain, Base
    <3>. QED
      BY <3>1, <3>2, <3>3
  <2>2. CASE wpc[c][p] = "applyInc"
    <3>1. body[c][p] \in Changes /\ dataFrom[c][p] # Absent
      BY <1>2, <2>2 DEF Link, BodyLink, HasChanges, MirrorLink, Mirroring
    <3>2. dataFrom[c][p] \in Services /\ body[c][p] # Absent
      <4>1. dataFrom[c][p] \in Services \cup {Absent}
        BY <1>0 DEF TypeOK
      <4>. QED
        BY <3>1, <4>1, SentinelAssumption
    <3>3. ApplyChanges(body[c][p], dataFrom[c][p]) \in Services
      BY <3>1, <3>2, ApplyType
    <3>4. queryCount[c][p] + 1 \in 0..(FullMin + FullJitter - 1)
      <4>1. queryCount[c][p] \in 0..(FullMin + FullJitter - 1)
        BY <1>0 DEF TypeOK
      <4>2. queryCount[c][p] < FullMin + FullJitter - 1
        BY <1>2, <2>2 DEF Link, CountLink
      <4>. QED
        BY <4>1, <4>2, ConfigAssumption
    <3>5. StoreMirror(c, p, ApplyChanges(body[c][p], dataFrom[c][p]), queryCount[c][p] + 1)
      BY <1>1, <2>2, <3>1 DEF ProcessSyncWorker
    <3>6. InChain(c, p) /\ ApplyChanges(body[c][p], dataFrom[c][p]) = Base(c, p)
      BY <2>2, <3>2 DEF InChain, Mirroring, Base
    <3>. QED
      BY <3>3, <3>4, <3>5, <3>6
  <2>. QED
    BY <1>1, <2>1, <2>2
<1>5. /\ dataFrom' \in [Node -> [Node -> Services \cup {Absent}]]
      /\ queryCount' \in [Node -> [Node -> 0..(FullMin + FullJitter - 1)]]
      /\ wpc' \in [Node -> [Node -> WorkerPlace]]
      /\ body' \in [Node -> [Node -> Services \cup Changes \cup {Absent}]]
      /\ dataFrom'[c][p] = data /\ wpc'[c][p] = "poll" /\ body'[c][p] = Absent
      /\ \A x, y \in Node : x # c \/ y # p =>
            /\ dataFrom'[x][y] = dataFrom[x][y] /\ queryCount'[x][y] = queryCount[x][y]
            /\ wpc'[x][y] = wpc[x][y] /\ body'[x][y] = body[x][y]
  <2>1. "poll" \in WorkerPlace
    BY DEF WorkerPlace
  <2>. QED
    BY <1>0, <1>1, <1>3, <1>4, <2>1 DEF TypeOK, StoreMirror
<1>6. services' \in [Node -> Services]
  <2>1. PICK m \in Services : services' = [services EXCEPT ![c] = m]
    BY <1>4 DEF StoreMirror, Rebuild
  <2>. QED
    BY <1>0, <2>1 DEF TypeOK
<1>7. QueueLink' /\ SyncQueue' \in [Node -> Seq(Node)]
  <2>1. \A x, y \in Node : x # c \/ y # Head(SyncQueue[c]) => wpc'[x][y] = wpc[x][y]
    BY <1>1, <1>5
  <2>. QED
    BY <1>0, <1>3, <2>1, QueueLeave
<1>8. TypeOK'
  BY <1>0, <1>3, <1>5, <1>6, <1>7 DEF TypeOK
<1>9. ASSUME NEW x \in Node, NEW y \in Node PROVE Link(x, y)'
  <2>1. CASE x # c \/ y # p
    <3>1. Link(x, y)
      BY DEF IndInv
    <3>2. /\ dataFrom'[x][y] = dataFrom[x][y] /\ queryCount'[x][y] = queryCount[x][y]
          /\ wpc'[x][y] = wpc[x][y] /\ body'[x][y] = body[x][y]
      BY <1>5, <2>1
    <3>3. /\ call'[x][y] = call[x][y] /\ dataTo'[y][x] = dataTo[y][x]
          /\ currentServices'[y] = currentServices[y] /\ snapshot'[x][y] = snapshot[x][y]
      BY <1>3
    <3>. QED
      BY <3>1, <3>2, <3>3, LinkFrame
  <2>2. CASE x = c /\ y = p
    <3>1. ChainLink(c, p)'
      BY <1>2, <1>3, <1>4, <1>5 DEF Link, ChainLink, Base
    <3>2. MirrorLink(c, p)'
      BY <1>4, <1>5, SentinelAssumption DEF MirrorLink
    <3>3. (CallLink(c, p) /\ BodyLink(c, p) /\ CountLink(c, p) /\ PendingLink(c, p))'
      BY <1>1, <1>2, <1>3, <1>5 DEF Link, CallLink, BodyLink, CountLink, PendingLink,
                                    HasFull, HasChanges
    <3>. QED
      BY <2>2, <3>1, <3>2, <3>3 DEF Link
  <2>. QED
    BY <2>1, <2>2
<1>. QED
  BY <1>7, <1>8, <1>9 DEF IndInv

\* A broken connection: changes in a dropped answer are recorded as lost.
LEMMA GiveUpStep ==
    ASSUME IndInv, NEW c \in Node, NEW p \in Node, NEW s \in {"fail", "sent"},
           Waiting(c, p), GiveUp(c, p), Reply(c, p, s, Absent),
           UNCHANGED <<services, currentServices, dataFrom, dataTo, ClientPeerMapping,
                       SyncQueue, wpc, retryCnt, queryCount>>
    PROVE  IndInv'
<1>0. /\ TypeOK /\ Link(c, p) /\ s \in CallState
      /\ dataFrom[c][p] \in Services \cup {Absent}
      /\ stray[c][p] \in SUBSET StrayKind
  <2>1. TypeOK /\ Link(c, p)
    BY DEF IndInv
  <2>2. s \in CallState
    BY DEF CallState
  <2>3. dataFrom[c][p] \in Services \cup {Absent}
    BY <2>1 DEF TypeOK
  <2>4. stray[c][p] \in SUBSET StrayKind
    BY <2>1 DEF TypeOK
  <2>. QED
    BY <2>1, <2>2, <2>3, <2>4
<1>1. wpc[c][p] \in {"auth", "full", "inc"} /\ AsStray(c, p) \in StrayKind
  <2>1. wpc[c][p] \in WorkerPlace
    BY <1>0 DEF TypeOK
  <2>2. wpc[c][p] \in {"auth", "full", "inc"}
    BY <1>0, <2>1 DEF Link, CallLink, Waiting, WorkerPlace
  <2>. QED
    BY <1>0, <2>2 DEF AsStray, StrayKind, Link, CallLink
<1>2. /\ call' \in [Node -> [Node -> CallState]]
      /\ body' \in [Node -> [Node -> Services \cup Changes \cup {Absent}]]
      /\ call'[c][p] = s /\ body'[c][p] = Absent
      /\ \A x, y \in Node : x # c \/ y # p =>
            call'[x][y] = call[x][y] /\ body'[x][y] = body[x][y]
  BY <1>0, ReplyType
<1>3. stray' \in [Node -> [Node -> SUBSET StrayKind]]
  <2>1. \A d \in BOOLEAN : StrayAfterGivingUp(c, p, d) \in SUBSET StrayKind
    BY <1>0, <1>1 DEF StrayAfterGivingUp
  <2>2. PICK r \in SUBSET StrayKind : stray' = [stray EXCEPT ![c][p] = r]
    BY <2>1 DEF GiveUp
  <2>. QED
    BY <1>0, <2>2 DEF TypeOK
<1>4. /\ snapshot' \in [Node -> [Node -> Services \cup {Absent}]]
      /\ snapshot'[c][p] = IF DropsChanges(c, p) THEN Absent ELSE snapshot[c][p]
      /\ \A x, y \in Node : x # c \/ y # p => snapshot'[x][y] = snapshot[x][y]
  BY <1>0 DEF GiveUp, TypeOK
<1>5. TypeOK'
  BY <1>0, <1>2, <1>3, <1>4 DEF TypeOK
<1>6. QueueLink'
  BY DEF IndInv, QueueLink
<1>7. ASSUME NEW x \in Node, NEW y \in Node PROVE Link(x, y)'
  <2>1. CASE x # c \/ y # p
    <3>1. Link(x, y)
      BY DEF IndInv
    <3>. QED
      BY <1>2, <1>4, <2>1, <3>1, LinkFrame
  <2>2. CASE x = c /\ y = p
    <3>1. ChainLink(c, p)'
      <4>. SUFFICES ASSUME InChain(c, p)', snapshot'[c][p] # Absent
                    PROVE  /\ Base(c, p)' = snapshot[c][p]
                           /\ dataTo[p][c] # Absent
                           /\ ApplyChanges(dataTo[p][c], snapshot[c][p]) = currentServices[p]
        BY <1>4 DEF ChainLink
      <4>1. wpc[c][p] = "inc" /\ InChain(c, p) /\ snapshot[c][p] # Absent /\ ~DropsChanges(c, p)
        BY <1>1, <1>2, <1>4 DEF InChain, Mirroring
      <4>2. Base(c, p)' = dataFrom[c][p]
        BY <1>2, <4>1 DEF Base
      <4>3. body[c][p] \in {Absent, NoChanges}
        BY <1>0, <4>1 DEF DropsChanges, Link, BodyLink, HasFull, HasChanges
      <4>4. dataFrom[c][p] \in Services
        BY <1>0, <4>1 DEF Link, MirrorLink, Mirroring
      <4>5. Base(c, p) = dataFrom[c][p]
        BY <4>1, <4>3, <4>4, ApplyNothing DEF Base
      <4>. QED
        BY <1>0, <4>1, <4>2, <4>5 DEF Link, ChainLink
    <3>2. (CallLink(c, p) /\ BodyLink(c, p) /\ CountLink(c, p) /\ PendingLink(c, p)
           /\ MirrorLink(c, p))'
      BY <1>0, <1>1, <1>2 DEF Link, CallLink, BodyLink, CountLink, PendingLink, MirrorLink,
                              HasFull, HasChanges, Mirroring
    <3>. QED
      BY <2>2, <3>1, <3>2 DEF Link
  <2>. QED
    BY <2>1, <2>2
<1>. QED
  BY <1>5, <1>6, <1>7 DEF IndInv

\* A crash of n ends every chain that starts or ends there.
LEMMA CrashStep ==
    ASSUME IndInv, NEW n \in Node, CrashRestart(n)
    PROVE  IndInv'
<1>0. TypeOK
  BY DEF IndInv
<1>1. \A p \in Node : call[n][p] \in {"sent", "checked"} => AsStray(n, p) \in StrayKind
  <2>. SUFFICES ASSUME NEW p \in Node, call[n][p] \in {"sent", "checked"}
                PROVE  AsStray(n, p) \in StrayKind
    OBVIOUS
  <2>1. wpc[n][p] \in WorkerPlace /\ CallLink(n, p)
    BY <1>0 DEF TypeOK, IndInv, Link
  <2>. QED
    BY <2>1 DEF CallLink, WorkerPlace, StrayKind, AsStray
<1>2. stray' \in [Node -> [Node -> SUBSET StrayKind]]
  <2>1. PICK s \in [Node -> SUBSET StrayKind] :
           stray' = [c \in Node |-> IF c = n THEN s ELSE [stray[c] EXCEPT ![n] = {}]]
    <3>1. PICK delivered \in SUBSET {p \in Node : call[n][p] = "sent"} :
             stray' = [c \in Node |-> IF c = n
                          THEN [p \in Node |-> StrayAfterGivingUp(n, p, p \in delivered)]
                          ELSE [stray[c] EXCEPT ![n] = {}]]
      BY DEF CrashRestart
    <3>2. \A p \in Node : StrayAfterGivingUp(n, p, p \in delivered) \in SUBSET StrayKind
      BY <1>0, <1>1 DEF StrayAfterGivingUp, TypeOK
    <3>. QED
      BY <3>1, <3>2
  <2>. QED
    BY <1>0, <2>1 DEF TypeOK
<1>3. /\ services' \in [Node -> Services]
      /\ currentServices' \in [Node -> Services]
      /\ \A p \in Node : p # n => currentServices'[p] = currentServices[p]
  BY <1>0, EmptyTypes DEF CrashRestart, TypeOK
<1>4. /\ dataFrom' \in [Node -> [Node -> Services \cup {Absent}]]
      /\ \A p \in Node : dataFrom'[n][p] = Absent
      /\ \A c, p \in Node : c # n => dataFrom'[c][p] = dataFrom[c][p]
  BY <1>0 DEF CrashRestart, TypeOK
<1>5. /\ dataTo' \in [Node -> [Node -> Changes \cup {Absent}]]
      /\ \A c \in Node : dataTo'[n][c] = Absent
      /\ \A p, c \in Node : p # n => dataTo'[p][c] = dataTo[p][c]
  BY <1>0 DEF CrashRestart, TypeOK
<1>6. /\ ClientPeerMapping' \in [Node -> [Node -> {"none", "fresh", "stale"}]]
      /\ SyncQueue' \in [Node -> Seq(Node)]
      /\ SyncQueue'[n] = << >> /\ \A c \in Node : c # n => SyncQueue'[c] = SyncQueue[c]
  BY <1>0 DEF CrashRestart, TypeOK
<1>7. /\ wpc' \in [Node -> [Node -> WorkerPlace]]
      /\ \A p \in Node : wpc'[n][p] = "start"
      /\ \A c, p \in Node : c # n => wpc'[c][p] = wpc[c][p] /\ wpc'[c] = wpc[c]
  <2>1. "start" \in WorkerPlace
    BY DEF WorkerPlace
  <2>. QED
    BY <1>0, <2>1 DEF CrashRestart, TypeOK
<1>8. /\ body' \in [Node -> [Node -> Services \cup Changes \cup {Absent}]]
      /\ \A p \in Node : body'[n][p] = Absent
      /\ \A c, p \in Node : c # n => body'[c][p] = body[c][p]
  BY <1>0 DEF CrashRestart, TypeOK
<1>9. /\ retryCnt' \in [Node -> [Node -> 0..MaxRetry]]
      /\ queryCount' \in [Node -> [Node -> 0..(FullMin + FullJitter - 1)]]
      /\ \A c, p \in Node : c # n => queryCount'[c][p] = queryCount[c][p]
  <2>1. 0 \in 0..MaxRetry /\ 0 \in 0..(FullMin + FullJitter - 1)
    BY ConfigAssumption
  <2>. QED
    BY <1>0, <2>1 DEF CrashRestart, TypeOK
<1>10. /\ call' \in [Node -> [Node -> CallState]]
       /\ \A p \in Node : call'[n][p] = "idle"
       /\ \A c, p \in Node : c # n /\ p # n => call'[c][p] = call[c][p]
       /\ \A c \in Node : c # n => call'[c][n] = IF call[c][n] = "checked" THEN "fail"
                                                 ELSE call[c][n]
  BY <1>0 DEF CrashRestart, TypeOK, CallState
<1>11. /\ snapshot' \in [Node -> [Node -> Services \cup {Absent}]]
       /\ \A c \in Node : snapshot'[c][n] = Absent /\ snapshot'[n][c] = Absent
       /\ \A c, p \in Node : c # n /\ p # n => snapshot'[c][p] = snapshot[c][p]
  <2>1. snapshot' = [c \in Node |-> [p \in Node |->
                        IF n \in {c, p} THEN Absent ELSE snapshot[c][p]]]
    BY DEF CrashRestart
  <2>2. \A c, p \in Node : snapshot[c][p] \in Services \cup {Absent}
    BY <1>0 DEF TypeOK
  <2>. QED
    BY <2>1, <2>2
<1>12. TypeOK'
  BY <1>2, <1>3, <1>4, <1>5, <1>6, <1>7, <1>8, <1>9, <1>10, <1>11 DEF TypeOK
<1>13. QueueLink'
  <2>1. \A c \in Node : c # n => SyncQueue'[c] = SyncQueue[c] /\ wpc'[c] = wpc[c]
    BY <1>6, <1>7
  <2>2. Len(SyncQueue'[n]) = 0
    BY <1>6
  <2>. QED
    BY <2>1, <2>2 DEF IndInv, QueueLink
<1>14. ASSUME NEW x \in Node, NEW y \in Node PROVE Link(x, y)'
  <2>0. Link(x, y)
    BY DEF IndInv
  <2>1. CASE x # n /\ y # n
    BY <1>3, <1>4, <1>5, <1>7, <1>8, <1>9, <1>10, <1>11, <2>0, <2>1, LinkFrame
  <2>2. CASE x = n
    <3>1. PendingLink(x, y)'
      BY <1>3, <1>5, <2>0 DEF Link, PendingLink
    <3>. QED
      BY <1>7, <1>8, <1>10, <1>11, <2>2, <3>1
         DEF Link, CallLink, BodyLink, CountLink, MirrorLink, ChainLink,
             HasFull, HasChanges, Mirroring, InChain
  <2>3. CASE x # n /\ y = n
    BY <1>4, <1>5, <1>7, <1>8, <1>9, <1>10, <1>11, <2>0, <2>3
       DEF Link, CallLink, BodyLink, CountLink, PendingLink, MirrorLink, ChainLink,
           HasFull, HasChanges, Mirroring
  <2>. QED
    BY <2>1, <2>2, <2>3
<1>. QED
  BY <1>12, <1>13, <1>14 DEF IndInv

\* Every step keeps the invariant.
LEMMA NextInv == IndInv /\ [Next]_vars => IndInv'
<1>. SUFFICES ASSUME IndInv, [Next]_vars PROVE IndInv'
  OBVIOUS
<1>1. ASSUME NEW c \in Node, NEW p \in Node, Handler(c, p) PROVE IndInv'
  BY <1>1, CheckStep, FullStep, IncrementalStep DEF Handler
<1>2. ASSUME NEW c \in Node, NEW p \in Node, Disconnect(c, p) \/ TransportRetry(c, p)
      PROVE  IndInv'
  <2>1. PICK s \in {"fail", "sent"} :
           /\ Waiting(c, p) /\ GiveUp(c, p) /\ Reply(c, p, s, Absent)
           /\ UNCHANGED <<services, currentServices, dataFrom, dataTo, ClientPeerMapping,
                          SyncQueue, wpc, retryCnt, queryCount>>
    BY <1>2 DEF Disconnect, TransportRetry, storeVars
  <2>. QED
    BY <2>1, GiveUpStep
<1>3. CASE System
  <2>1. CASE \E cp \in Pairs : Worker(cp[1], cp[2]) \/ Handler(cp[1], cp[2])
    <3>1. PICK c \in Node, p \in Node : Worker(c, p) \/ Handler(c, p)
      BY <2>1 DEF Pairs
    <3>. QED
      BY <1>1, <3>1, WorkerStep
  <2>2. CASE \E n \in Node : ProcessSyncWorker(n) \/ CheckPeerHealth(n)
    BY <2>2, ProcessStep, HealthStep
  <2>. QED
    BY <1>3, <2>1, <2>2 DEF System
<1>4. CASE Registrations
  BY <1>4, PublishStep, DeleteStep DEF Registrations
<1>5. CASE Faults
  <2>1. CASE NetworkFaults
    <3>1. PICK c \in Node, p \in Node :
             Age(p, c) \/ Disconnect(c, p) \/ TransportRetry(c, p) \/ Stray(c, p)
      BY <2>1 DEF NetworkFaults, Pairs
    <3>. QED
      BY <1>2, <3>1, AgeStep, StrayStep
  <2>2. CASE \E n \in Node : CrashRestart(n)
    BY <2>2, CrashStep
  <2>. QED
    BY <1>5, <2>1, <2>2 DEF Faults
<1>6. CASE UNCHANGED vars
  <2>1. TypeOK'
    BY <1>6 DEF IndInv, TypeOK, vars
  <2>. QED
    BY <1>6, <2>1, ServerOnlyStep DEF vars
<1>. QED
  BY <1>3, <1>4, <1>5, <1>6 DEF Next

-----------------------------------------------------------------------------
\* The inductive invariant holds in every cluster and every behaviour.
THEOREM InvariantHolds == Spec => []IndInv
BY InitInv, NextInv, PTL DEF Spec

\* Types: the worker's place, its request and what it holds stay in step.
THEOREM TypesHold == Spec => []TypeOK
<1>1. IndInv => TypeOK
  BY DEF IndInv
<1>. QED
  BY <1>1, InvariantHolds, PTL

\* A pending list kept across full fetches (FetchFullAndWatch) never undoes
\* newer registrations.
THEOREM PendingHolds == Spec => []PendingAgrees
<1>1. IndInv => PendingAgrees
  BY DEF IndInv, Link, PendingLink, PendingAgrees
<1>. QED
  BY <1>1, InvariantHolds, PTL

\* Mirrors are snapshots of their peer, and what is pending leads to its
\* present, unless the history records a loss.
THEOREM MirrorHolds == Spec => []MirrorChain
<1>1. IndInv => MirrorChain
  BY DEF IndInv, Link, ChainLink, MirrorChain
<1>. QED
  BY <1>1, InvariantHolds, PTL

\* SyncFrom never answers "node not exist" to a worker.
THEOREM OrphanHolds == Spec => []SyncNeverOrphaned
<1>1. IndInv => SyncNeverOrphaned
  BY DEF IndInv, Link, MirrorLink, SyncNeverOrphaned
<1>. QED
  BY <1>1, InvariantHolds, PTL
=============================================================================

------------------------------ MODULE MemStore ------------------------------
(***************************************************************************)
(* The store of one node as storage.mem.go keeps it: maps of maps whose    *)
(* inner maps come and go with their entries, and lists of pending         *)
(* changes that grow with every registration and are filtered by           *)
(* rebuildServiceItemList.  Every operation holds rwlock, so it is one     *)
(* step.  MemStore implements RegistryStore on the flattened maps and      *)
(* lists.                                                                  *)
(***************************************************************************)
EXTENDS Naturals, Sequences, SequencesExt

CONSTANTS
    Service, NodeId, Addr, NoAddr, Absent,
    Source, Watcher,
    Mirrored,     \* bound: the node ids that occur in the data of peers
    MaxPending,   \* bound: length of a pending list
    MaxSync       \* bound: length of the lists a peer sends

VARIABLES services, currentServices, dataFrom, dataTo, out

vars == <<services, currentServices, dataFrom, dataTo, out>>

\* map[string]map[string]struct{Addr string}
Inner(N)  == UNION {[ids -> Addr] : ids \in (SUBSET N) \ {{}}}
Nested(N) == UNION {[names -> Inner(N)] : names \in SUBSET Service}

\* dataTransferNodeData
Entry(N) == [ServiceName : Service, NodeName : N, Addr : Addr]

SeqUpTo(S, n) == UNION {[1..i -> S] : i \in 0..n}

ASSUME StoreAssumption ==
    /\ NoAddr \notin Addr
    /\ Mirrored \subseteq NodeId
    /\ MaxPending \in Nat /\ MaxSync \in Nat

\* Absent is none of the values it stands for the lack of, nested or flat.
ASSUME AbsentAssumption ==
    /\ Absent \notin [full : Nested(NodeId)]
    /\ Absent \notin [changes : [Add : Seq(Entry(NodeId)), Del : Seq(Entry(NodeId))]]
    /\ Absent \notin [Service \X NodeId -> Addr \cup {NoAddr}]
    /\ Absent \notin [Add : [Service \X NodeId -> Addr \cup {NoAddr}],
                      Del : SUBSET (Service \X NodeId)]

EmptyMap == [x \in {} |-> Absent]

Init ==
    /\ services = EmptyMap
    /\ currentServices = EmptyMap
    /\ dataFrom = EmptyMap
    /\ dataTo = EmptyMap
    /\ out = Absent

-----------------------------------------------------------------------------
\* m with key x set to v, and m without key x.
With(m, x, v)  == [y \in DOMAIN m \cup {x} |-> IF y = x THEN v ELSE m[y]]
Without(m, x)  == [y \in DOMAIN m \ {x} |-> m[y]]

\* The inner map is made when it is missing.
PutItem(m, s, n, a) ==
    With(m, s, With(IF s \in DOMAIN m THEN m[s] ELSE EmptyMap, n, a))

\* A bug to catch: the inner map stays when its last entry goes.
RemoveItemKeepsEmpty(m, s, n) ==
    IF s \in DOMAIN m THEN With(m, s, Without(m[s], n)) ELSE m

\* The inner map goes with its last entry.
RemoveItem(m, s, n) ==
    IF s \notin DOMAIN m THEN m
    ELSE IF DOMAIN m[s] \subseteq {n} THEN Without(m, s)
    ELSE With(m, s, Without(m[s], n))

\* A bug to catch: only the first entry of the item is filtered out.
RebuildDropsFirstOnly(list, s, n) ==
    RemoveFirstMatch(list, LAMBDA e : e.ServiceName = s /\ e.NodeName = n)

RebuildServiceItemList(list, s, n) ==
    FoldLeft(LAMBDA newList, v : IF v.ServiceName = s /\ v.NodeName = n THEN newList
                                 ELSE Append(newList, v),
             << >>, list)

\* A bug to catch: what the destination holds already is kept.
CopyMapKeepsDst(src, dst) ==
    [s \in DOMAIN src \cup DOMAIN dst |->
        IF s \notin DOMAIN src THEN dst[s]
        ELSE IF s \notin DOMAIN dst THEN src[s]
        ELSE [n \in DOMAIN src[s] \cup DOMAIN dst[s] |->
                 IF n \in DOMAIN dst[s] THEN dst[s][n] ELSE src[s][n]]]

\* copyMap(src, dst)
CopyMap(src, dst) ==
    [s \in DOMAIN src \cup DOMAIN dst |->
        IF s \notin DOMAIN src THEN dst[s]
        ELSE IF s \notin DOMAIN dst THEN src[s]
        ELSE [n \in DOMAIN src[s] \cup DOMAIN dst[s] |->
                 IF n \in DOMAIN src[s] THEN src[s][n] ELSE dst[s][n]]]

\* buildMemData with the mirrors `from', ranged over in any order.
BuildMemData(from) ==
    \E order \in SetToSeqs(DOMAIN from) :
        services' = FoldLeft(LAMBDA dst, p : CopyMap(from[p], dst), currentServices, order)

-----------------------------------------------------------------------------
PublishService(s, n, a) ==
    /\ \A w \in DOMAIN dataTo : Len(dataTo[w].Add) < MaxPending
    /\ services' = PutItem(services, s, n, a)
    /\ currentServices' = PutItem(currentServices, s, n, a)
    /\ dataTo' = [w \in DOMAIN dataTo |->
          [Add |-> Append(dataTo[w].Add, [ServiceName |-> s, NodeName |-> n, Addr |-> a]),
           Del |-> RebuildServiceItemList(dataTo[w].Del, s, n)]]
    /\ UNCHANGED dataFrom /\ out' = Absent

DeleteService(s, n, a) ==
    /\ \A w \in DOMAIN dataTo : Len(dataTo[w].Del) < MaxPending
    /\ services' = RemoveItem(services, s, n)
    /\ currentServices' = RemoveItem(currentServices, s, n)
    /\ dataTo' = [w \in DOMAIN dataTo |->
          [Add |-> RebuildServiceItemList(dataTo[w].Add, s, n),
           Del |-> Append(dataTo[w].Del, [ServiceName |-> s, NodeName |-> n, Addr |-> a])]]
    /\ UNCHANGED dataFrom /\ out' = Absent

FullFrom(p, data) ==
    /\ dataFrom' = With(dataFrom, p, data)
    /\ BuildMemData(dataFrom')
    /\ out' = [full |-> data]
    /\ UNCHANGED <<currentServices, dataTo>>

\* A bug to catch: the additions are applied before the deletions.
MergedAddFirst(m, add, del) ==
    FoldLeft(LAMBDA x, e : RemoveItem(x, e.ServiceName, e.NodeName),
             FoldLeft(LAMBDA x, e : PutItem(x, e.ServiceName, e.NodeName, e.Addr), m, add),
             del)

\* The mirror after the lists of SyncFrom: all of del, then all of add.
Merged(m, add, del) ==
    FoldLeft(LAMBDA x, e : PutItem(x, e.ServiceName, e.NodeName, e.Addr),
             FoldLeft(LAMBDA x, e : RemoveItem(x, e.ServiceName, e.NodeName), m, del),
             add)

SyncFrom(p, add, del) ==
    /\ IF p \in DOMAIN dataFrom
       THEN /\ dataFrom' = With(dataFrom, p, Merged(dataFrom[p], add, del))
            /\ BuildMemData(dataFrom')
            /\ out' = [changes |-> [Add |-> add, Del |-> del]]
       ELSE out' = Absent /\ UNCHANGED <<services, dataFrom>>   \* "node not exist"
    /\ UNCHANGED <<currentServices, dataTo>>

Abandon(p) ==
    /\ IF p \in DOMAIN dataFrom
       THEN dataFrom' = Without(dataFrom, p) /\ BuildMemData(dataFrom')
       ELSE UNCHANGED <<services, dataFrom>>
    /\ UNCHANGED <<currentServices, dataTo>> /\ out' = Absent

FetchFullAndWatch(w) ==
    /\ dataTo' = IF w \in DOMAIN dataTo THEN dataTo
                 ELSE With(dataTo, w, [Add |-> << >>, Del |-> << >>])
    /\ out' = [full |-> currentServices]
    /\ UNCHANGED <<services, currentServices, dataFrom>>

FetchChangesForPeerNodeRequest(w) ==
    /\ IF w \in DOMAIN dataTo
       THEN /\ out' = [changes |-> dataTo[w]]
            /\ dataTo' = With(dataTo, w, [Add |-> << >>, Del |-> << >>])
       ELSE out' = Absent /\ UNCHANGED dataTo   \* "node not registered"
    /\ UNCHANGED <<services, currentServices, dataFrom>>

Unwatch(w) ==
    /\ dataTo' = Without(dataTo, w)
    /\ UNCHANGED <<services, currentServices, dataFrom>> /\ out' = Absent

Next ==
    \/ \E s \in Service, n \in NodeId, a \in Addr :
          PublishService(s, n, a) \/ DeleteService(s, n, a)
    \/ \E p \in Source :
          \/ \E data \in Nested(Mirrored) : FullFrom(p, data)
          \/ \E add, del \in SeqUpTo(Entry(Mirrored), MaxSync) : SyncFrom(p, add, del)
          \/ Abandon(p)
    \/ \E w \in Watcher :
          FetchFullAndWatch(w) \/ FetchChangesForPeerNodeRequest(w) \/ Unwatch(w)

Spec == Init /\ [][Next]_vars

-----------------------------------------------------------------------------
(***************************************************************************)
(* The refinement: an item is a service name and a node id.                *)
(***************************************************************************)
Item == Service \X NodeId

Flat(m) == [k \in Item |-> IF k[1] \in DOMAIN m /\ k[2] \in DOMAIN m[k[1]]
                           THEN m[k[1]][k[2]] ELSE NoAddr]

\* The last entry of each item.
FlatList(list) ==
    [k \in Item |->
        LET at == {i \in DOMAIN list : list[i].ServiceName = k[1] /\ list[i].NodeName = k[2]}
        IN  IF at = {} THEN NoAddr
            ELSE list[CHOOSE i \in at : \A j \in at : j <= i].Addr]

FlatChanges(ch) ==
    [Add |-> FlatList(ch.Add),
     Del |-> {<<ch.Del[i].ServiceName, ch.Del[i].NodeName>> : i \in DOMAIN ch.Del}]

Registry == INSTANCE RegistryStore WITH
    Key             <- Item,
    services        <- Flat(services),
    currentServices <- Flat(currentServices),
    dataFrom        <- [p \in Source |-> IF p \in DOMAIN dataFrom THEN Flat(dataFrom[p]) ELSE Absent],
    dataTo          <- [w \in Watcher |-> IF w \in DOMAIN dataTo THEN FlatChanges(dataTo[w]) ELSE Absent],
    out             <- IF out = Absent THEN Absent
                       ELSE IF "full" \in DOMAIN out THEN [full |-> Flat(out.full)]
                       ELSE [changes |-> FlatChanges(out.changes)]

-----------------------------------------------------------------------------
\* The maps never keep an inner map without entries (DeleteService and SyncFrom
\* delete it): GetServiceList and the full data set show a service name only
\* while a node offers it.
TypeOK ==
    /\ services \in Nested(NodeId)
    /\ currentServices \in Nested(NodeId)
    /\ DOMAIN dataFrom \subseteq Source /\ \A p \in DOMAIN dataFrom : dataFrom[p] \in Nested(NodeId)
    /\ DOMAIN dataTo \subseteq Watcher
    /\ \A w \in DOMAIN dataTo :
          LET list == SeqUpTo(Entry(NodeId), MaxPending) IN dataTo[w] \in [Add : list, Del : list]

\* No pending list names an item for addition and for deletion, whatever
\* sequence of registrations filled it.
PendingDisjoint ==
    \A w \in DOMAIN dataTo : \A i \in DOMAIN dataTo[w].Add, j \in DOMAIN dataTo[w].Del :
        \/ dataTo[w].Add[i].ServiceName # dataTo[w].Del[j].ServiceName
        \/ dataTo[w].Add[i].NodeName # dataTo[w].Del[j].NodeName

\* The maps of maps and the lists behave like the flat registry: the same
\* queries, the same data handed to peers, operation by operation.
ImplementsRegistry == Registry!Spec
=============================================================================

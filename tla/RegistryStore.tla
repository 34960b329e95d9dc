--------------------------- MODULE RegistryStore ---------------------------
(***************************************************************************)
(* What the Storage interface (storage.shared.go) promises of the          *)
(* registry of one node, stated on flat service maps: the abstract         *)
(* specification of MemStore, built from the same operators that PeerSync  *)
(* uses for the stores of a cluster.                                       *)
(***************************************************************************)
EXTENDS ServiceMap

CONSTANTS
    Source,   \* peers this node mirrors
    Watcher   \* peers that mirror this node

VARIABLES services, currentServices, dataFrom, dataTo,
          out   \* what the last operation was given by, or handed to, a peer

storeVars == <<services, currentServices, dataFrom, dataTo>>
vars == <<services, currentServices, dataFrom, dataTo, out>>

Init ==
    /\ services = NoServices
    /\ currentServices = NoServices
    /\ dataFrom = [p \in Source |-> Absent]
    /\ dataTo = [w \in Watcher |-> Absent]
    /\ out = Absent

PendAll(P(_)) ==
    dataTo' = [w \in Watcher |-> IF dataTo[w] = Absent THEN Absent ELSE P(dataTo[w])]

\* After a registration queries show it.
PublishService(k, a) ==
    /\ services' = SetItem(services, k, a)
    /\ currentServices' = SetItem(currentServices, k, a)
    /\ PendAll(LAMBDA ch : PendPublish(ch, k, a))
    /\ UNCHANGED dataFrom /\ out' = Absent

DeleteService(k) ==
    /\ services' = DropItem(services, k)
    /\ currentServices' = DropItem(currentServices, k)
    /\ PendAll(LAMBDA ch : PendDelete(ch, k))
    /\ UNCHANGED dataFrom /\ out' = Absent

Mirror(p, data) ==
    /\ dataFrom' = [dataFrom EXCEPT ![p] = data]
    /\ services' \in Services
    /\ IsBuiltFrom(services', currentServices, dataFrom')
    /\ UNCHANGED <<currentServices, dataTo>>

FullFrom(p) == \E data \in Services : out' = [full |-> data] /\ Mirror(p, data)

SyncFrom(p) ==
    /\ dataFrom[p] # Absent
    /\ \E ch \in Changes :
          out' = [changes |-> ch] /\ Mirror(p, ApplyChanges(ch, dataFrom[p]))

Abandon(p) == dataFrom[p] # Absent /\ out' = Absent /\ Mirror(p, Absent)

FetchFullAndWatch(w) ==
    /\ dataTo' = [dataTo EXCEPT ![w] = IF @ = Absent THEN NoChanges ELSE @]
    /\ out' = [full |-> currentServices]
    /\ UNCHANGED <<services, currentServices, dataFrom>>

FetchChangesForPeerNodeRequest(w) ==
    /\ dataTo[w] # Absent
    /\ dataTo' = [dataTo EXCEPT ![w] = NoChanges]
    /\ out' = [changes |-> dataTo[w]]
    /\ UNCHANGED <<services, currentServices, dataFrom>>

Unwatch(w) ==
    /\ dataTo' = [dataTo EXCEPT ![w] = Absent]
    /\ UNCHANGED <<services, currentServices, dataFrom>> /\ out' = Absent

\* The operation answers with an error, or has nothing to do.
Nothing == UNCHANGED storeVars /\ out' = Absent

Next ==
    \/ \E k \in Key : DeleteService(k) \/ \E a \in Addr : PublishService(k, a)
    \/ \E p \in Source : FullFrom(p) \/ SyncFrom(p) \/ Abandon(p)
    \/ \E w \in Watcher :
          FetchFullAndWatch(w) \/ FetchChangesForPeerNodeRequest(w) \/ Unwatch(w)
    \/ Nothing

Spec == Init /\ [][Next]_vars
=============================================================================

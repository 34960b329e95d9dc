----------------------------- MODULE ServiceMap -----------------------------
(***************************************************************************)
(* The data of the in-memory registry (storage.mem.go) and the pure        *)
(* functions its operations are made of.                                   *)
(*                                                                         *)
(* A registered item is identified by its service name and the id of the   *)
(* node that registered it, and carries an address.  The Go code nests two *)
(* maps (service -> node id -> address) and drops an inner map when it     *)
(* becomes empty; what a reader of the registry can tell apart is only     *)
(* which (service, node id) pairs have which address, so a service map is  *)
(* a function on such pairs here, with NoAddr where the item is missing.   *)
(* Module MemStore keeps the nested maps and the lists and is checked to   *)
(* implement the flat form.                                                *)
(***************************************************************************)
EXTENDS Naturals, FiniteSets, Functions

CONSTANTS
    Key,     \* identities of registered items: a service name and a node id
    Addr,    \* addresses
    NoAddr,  \* the value of a service map at an item it does not hold
    Absent   \* the value of a Go map at a key it does not hold

AddrOrNone == Addr \cup {NoAddr}

\* map[string]map[string]struct{Addr string}, flattened.
Services == [Key -> AddrOrNone]

\* What is pending for one peer: Add and Del of MemStore.dataTo.  Applying the
\* Add list leaves the last entry of each item in force, so the list is the
\* map of its last entries; the Del list is used for the items it names only.
Changes == [Add : Services, Del : SUBSET Key]

ASSUME SentinelAssumption ==
    /\ NoAddr \notin Addr
    /\ Absent \notin Services
    /\ Absent \notin Changes

NoServices == [k \in Key |-> NoAddr]

\* A watch just added, or just emptied by a fetch.
NoChanges == [Add |-> NoServices, Del |-> {}]

-----------------------------------------------------------------------------
\* p[item.NodeId] = struct{ Addr string }{Addr: item.Addr}
SetItem(m, k, a) == [m EXCEPT ![k] = a]

\* delete(p, item.NodeId), and the inner map with it when it becomes empty
DropItem(m, k) == [m EXCEPT ![k] = NoAddr]

\* PublishService, "update pending list": the item leaves Del and is appended
\* to Add.
PendPublish(ch, k, a) == [Add |-> SetItem(ch.Add, k, a), Del |-> ch.Del \ {k}]

\* A bug to catch: the item that is deleted stays on the Add list.
PendDeleteKeepsAdd(ch, k) == [Add |-> ch.Add, Del |-> ch.Del \cup {k}]

\* DeleteService, "update pending list": the item is appended to Del and
\* leaves Add.
PendDelete(ch, k) == [Add |-> DropItem(ch.Add, k), Del |-> ch.Del \cup {k}]

\* SyncFrom on the mirrored data: all of Del first, then all of Add.
ApplyChanges(ch, m) ==
    [k \in Key |-> IF ch.Add[k] # NoAddr THEN ch.Add[k]
                   ELSE IF k \in ch.Del THEN NoAddr
                   ELSE m[k]]

-----------------------------------------------------------------------------
\* buildMemData: currentServices is copied first and the data of every peer is
\* copied over it in the order in which Go happens to range over dataFrom, so
\* for each item the last peer in that order that holds it decides.
IsBuiltFrom(m, cur, from) ==
    LET Sources == {p \in DOMAIN from : from[p] # Absent}
    IN  \E order \in Injection(Sources, 1..Cardinality(Sources)) :
            \A k \in Key :
                LET Holders == {p \in Sources : from[p][k] # NoAddr}
                IN  IF Holders = {} THEN m[k] = cur[k]
                    ELSE \E p \in Holders :
                            /\ m[k] = from[p][k]
                            /\ \A q \in Holders : order[q] <= order[p]
=============================================================================

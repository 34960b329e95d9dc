---------------------------- MODULE HttpEndpoint ----------------------------
(***************************************************************************)
(* Registration over HTTP and its expiry (endpoint.http.go).               *)
(*                                                                         *)
(* A client registers a service by POSTing it again and again.  A handler  *)
(* writes the registration to the store and then, under the endpoint's own *)
(* lock, notes it in publicClients.  CheckPublishClients holds that lock   *)
(* while it removes the clients that were silent for 10 seconds, but the   *)
(* store is locked for each removal alone: handlers can write to the store *)
(* in between.                                                             *)
(***************************************************************************)
EXTENDS Naturals, FiniteSets

CONSTANTS
    Client,          \* NodeIds that register
    Service,         \* service names
    Addr, NoAddr,    \* addresses, and none
    Absent,          \* no entry in publicClients, no client being removed
    Req,             \* requests the HTTP server handles at a time
    EnableAuth, AccessPassword,
    PasswordOf       \* the X-Access-Password each client sends

ASSUME EndpointAssumption ==
    /\ NoAddr \notin Addr
    /\ Absent \notin Client
    /\ Absent \notin [LastUpdate : {"fresh", "stale"}, Publishment : [Service -> Addr \cup {NoAddr}]]
    /\ EnableAuth \in BOOLEAN

VARIABLES
    registered,     \* what the store holds for each client and service
    publicClients,  \* HttpEndpoint.publicClients
    pc,             \* where each handler is
    form,           \* the client, service and address it handles
    rlist,          \* clients the running CheckPublishClients has still to remove
    victim,         \* the one it is removing, with
    todo            \* the services of it that are still to be deleted

vars == <<registered, publicClients, pc, form, rlist, victim, todo>>
sweepVars == <<rlist, victim, todo>>

AddrOrNone == Addr \cup {NoAddr}
Form == [node : Client, name : Service, address : Addr]
PublicClient == [LastUpdate : {"fresh", "stale"}, Publishment : [Service -> AddrOrNone]]

TypeOK ==
    /\ registered    \in [Client -> [Service -> AddrOrNone]]
    /\ publicClients \in [Client -> PublicClient \cup {Absent}]
    /\ pc            \in [Req -> {"idle", "publish", "track"}]
    /\ form          \in [Req -> Form \cup {Absent}]
    /\ rlist         \in SUBSET Client
    /\ victim        \in Client \cup {Absent}
    /\ todo          \in SUBSET Service

Init ==
    /\ registered    = [c \in Client |-> [s \in Service |-> NoAddr]]
    /\ publicClients = [c \in Client |-> Absent]
    /\ pc            = [r \in Req |-> "idle"]
    /\ form          = [r \in Req |-> Absent]
    /\ rlist         = {}
    /\ victim        = Absent
    /\ todo          = {}

-----------------------------------------------------------------------------
\* this.rwlock: CheckPublishClients holds it from its first to its last step.
Unlocked == rlist = {} /\ victim = Absent

Tracked(c, s) == publicClients[c] # Absent /\ publicClients[c].Publishment[s] # NoAddr

\* publishService up to the password check.
Receive(r, c, s, a) ==
    /\ pc[r] = "idle"
    /\ EnableAuth => PasswordOf[c] = AccessPassword
    /\ pc' = [pc EXCEPT ![r] = "publish"]
    /\ form' = [form EXCEPT ![r] = [node |-> c, name |-> s, address |-> a]]
    /\ UNCHANGED <<registered, publicClients, sweepVars>>

\* Storage.PublishService
PublishService(r) ==
    /\ pc[r] = "publish"
    /\ registered' = [registered EXCEPT ![form[r].node][form[r].name] = form[r].address]
    /\ pc' = [pc EXCEPT ![r] = "track"]
    /\ UNCHANGED <<publicClients, form, sweepVars>>

NoPublishment == [s \in Service |-> NoAddr]

\* A bug to catch: only a client that is new gets its service noted.
TrackNewOnly(r) ==
    /\ pc[r] = "track" /\ Unlocked
    /\ LET c == form[r].node
       IN  publicClients' = [publicClients EXCEPT ![c] =
              [LastUpdate  |-> "fresh",
               Publishment |-> IF @ = Absent
                               THEN [NoPublishment EXCEPT ![form[r].name] = form[r].address]
                               ELSE @.Publishment]]
    /\ pc' = [pc EXCEPT ![r] = "idle"]
    /\ form' = [form EXCEPT ![r] = Absent]
    /\ UNCHANGED <<registered, sweepVars>>

\* A bug to catch: publicClients is updated without the lock.
TrackUnlocked(r) ==
    /\ pc[r] = "track"
    /\ LET c == form[r].node
       IN  publicClients' = [publicClients EXCEPT ![c] =
              [LastUpdate  |-> "fresh",
               Publishment |-> [IF @ = Absent THEN NoPublishment ELSE @.Publishment
                                EXCEPT ![form[r].name] = form[r].address]]]
    /\ pc' = [pc EXCEPT ![r] = "idle"]
    /\ form' = [form EXCEPT ![r] = Absent]
    /\ UNCHANGED <<registered, sweepVars>>

\* The rest of publishService, under the lock.
Track(r) ==
    /\ pc[r] = "track" /\ Unlocked
    /\ LET c == form[r].node
       IN  publicClients' = [publicClients EXCEPT ![c] =
              [LastUpdate  |-> "fresh",
               Publishment |-> [IF @ = Absent THEN NoPublishment ELSE @.Publishment
                                EXCEPT ![form[r].name] = form[r].address]]]
    /\ pc' = [pc EXCEPT ![r] = "idle"]
    /\ form' = [form EXCEPT ![r] = Absent]
    /\ UNCHANGED <<registered, sweepVars>>

\* 10 seconds go by without a registration of client c.
Age(c) ==
    /\ publicClients[c] # Absent /\ publicClients[c].LastUpdate = "fresh"
    /\ publicClients' = [publicClients EXCEPT ![c] =
                            [LastUpdate |-> "stale", Publishment |-> @.Publishment]]
    /\ UNCHANGED <<registered, pc, form, sweepVars>>

-----------------------------------------------------------------------------
Stale == {c \in Client : publicClients[c] # Absent /\ publicClients[c].LastUpdate = "stale"}

\* CheckPublishClients takes the lock and collects who timed out.
SweepStart ==
    /\ Unlocked /\ Stale # {}
    /\ rlist' = Stale
    /\ UNCHANGED <<registered, publicClients, pc, form, victim, todo>>

\* It goes through rlist,
SweepNext(c) ==
    /\ victim = Absent /\ c \in rlist
    /\ victim' = c
    /\ rlist' = rlist \ {c}
    /\ todo' = {s \in Service : Tracked(c, s)}
    /\ UNCHANGED <<registered, publicClients, pc, form>>

\* deletes the client's services from the store one by one,
SweepDelete(s) ==
    /\ victim # Absent /\ s \in todo
    /\ registered' = [registered EXCEPT ![victim][s] = NoAddr]
    /\ todo' = todo \ {s}
    /\ UNCHANGED <<publicClients, pc, form, rlist, victim>>

\* A bug to catch: the client is forgotten after its first service.
SweepForgetEarly ==
    /\ victim # Absent
    /\ publicClients' = [publicClients EXCEPT ![victim] = Absent]
    /\ victim' = Absent
    /\ todo' = {}
    /\ UNCHANGED <<registered, pc, form, rlist>>

\* and forgets the client; the lock is released after the last one.
SweepForget ==
    /\ victim # Absent /\ todo = {}
    /\ publicClients' = [publicClients EXCEPT ![victim] = Absent]
    /\ victim' = Absent
    /\ UNCHANGED <<registered, pc, form, rlist, todo>>

Sweep ==
    SweepStart \/ (\E c \in Client : SweepNext(c)) \/ (\E s \in Service : SweepDelete(s))
    \/ SweepForget

-----------------------------------------------------------------------------
Register(c) == \E r \in Req, s \in Service, a \in Addr : Receive(r, c, s, a)

Next ==
    \/ \E c \in Client : Register(c) \/ Age(c)
    \/ \E r \in Req : PublishService(r) \/ Track(r)
    \/ Sweep

Spec == Init /\ [][Next]_vars

(***************************************************************************)
(* Handlers and the sweep go on; time passes.  A handler that waits for    *)
(* the lock gets it in the end although the sweep takes it again and       *)
(* again: Go's mutexes hand the lock to a waiter that starves.             *)
(***************************************************************************)
Fairness ==
    /\ \A r \in Req : WF_vars(PublishService(r)) /\ SF_vars(Track(r))
    /\ WF_vars(Sweep)
    /\ \A c \in Client : WF_vars(Age(c))

FairSpec == Spec /\ Fairness

-----------------------------------------------------------------------------
(***************************************************************************)
(* Properties.                                                             *)
(***************************************************************************)

InFlight(c, s) == \E r \in Req : pc[r] = "track" /\ form[r].node = c /\ form[r].name = s

\* Nothing is registered for ever: whatever the store holds is noted in
\* publicClients, where its timeout is found, or a handler is about to note it,
\* also when the sweep deletes and a handler writes at the same time.
NoImmortalService ==
    \A c \in Client, s \in Service : registered[c][s] # NoAddr => Tracked(c, s) \/ InFlight(c, s)

\* Registrations are only deleted of a client that has timed out: the sweep keeps
\* the lock from collecting the clients to deleting their services, so no handler
\* can note in between that a client is alive.  (A handler may still renew the
\* registration itself, in the store: LiveServiceStored.)
OnlyTimedOutRemoved ==
    [][\A c \in Client, s \in Service :
          registered[c][s] # NoAddr /\ registered'[c][s] = NoAddr => c \in Stale]_vars

\* A client that stops registering disappears from the store, whatever the
\* other clients do.
Silent(c) == <>[][~Register(c)]_vars

SilentClientExpires ==
    \A c \in Client : Silent(c) => <>[](\A s \in Service : registered[c][s] = NoAddr)

\* "cleanup timeout": a client known to have registered a service within the
\* last 10 seconds has it in the store.
LiveServiceStored ==
    \A c \in Client, s \in Service :
        Tracked(c, s) /\ publicClients[c].LastUpdate = "fresh" => registered[c][s] # NoAddr
=============================================================================

------------------------------ MODULE Registry ------------------------------
(***************************************************************************)
(* A registration from the HTTP request that makes it to the queries that  *)
(* show it: the endpoint of node Home (HttpEndpoint), the store it shares  *)
(* with the HA module, and the peers that mirror that store (PeerSync).    *)
(* main gives both modules the one Storage; what the endpoint's handlers   *)
(* and its sweep write there is what the peers fetch.  A crash of Home     *)
(* takes the endpoint along.                                               *)
(***************************************************************************)
EXTENDS PeerSync

CONSTANTS
    Home,             \* the node whose endpoint is modelled: the only Publisher
    Client, Service,  \* Key = Service \X Client
    Req,
    EnableAuth, AccessPassword, PasswordOf

ASSUME RegistryAssumption == Publisher = {Home} /\ Key = Service \X Client

VARIABLES publicClients, pc, form, rlist, victim, todo

endpointVars == <<publicClients, pc, form, rlist, victim, todo>>
allVars == <<vars, endpointVars>>

\* The endpoint sees the registrations of Home's store.
Endpoint == INSTANCE HttpEndpoint WITH
    registered <- [c \in Client |-> [s \in Service |-> currentServices[Home][<<s, c>>]]]

RegistryInit == Init /\ Endpoint!Init

-----------------------------------------------------------------------------
\* A handler writes the registration to the store.
StoreService(r) ==
    /\ pc[r] = "publish"
    /\ PublishService(Home, <<form[r].name, form[r].node>>, form[r].address)
    /\ Endpoint!PublishService(r)

\* A bug to catch: the sweep forgets the services of the client and leaves
\* them in the store.
ExpireServiceKept(s) ==
    /\ victim # Absent
    /\ UNCHANGED vars
    /\ todo' = todo \ {s}
    /\ UNCHANGED <<publicClients, pc, form, rlist, victim>>

\* The sweep deletes one from it.
ExpireService(s) ==
    /\ victim # Absent
    /\ DeleteService(Home, <<s, victim>>)
    /\ Endpoint!SweepDelete(s)

\* Steps of the endpoint that leave the store alone.
Register(c)   == UNCHANGED vars /\ Endpoint!Register(c)
Track(r)      == UNCHANGED vars /\ Endpoint!Track(r)
AgeClient(c)  == UNCHANGED vars /\ Endpoint!Age(c)
SweepStart    == UNCHANGED vars /\ Endpoint!SweepStart
SweepNext(c)  == UNCHANGED vars /\ Endpoint!SweepNext(c)
SweepForget   == UNCHANGED vars /\ Endpoint!SweepForget

Sweep ==
    \/ SweepStart \/ SweepForget
    \/ (\E c \in Client : SweepNext(c)) \/ (\E s \in Service : ExpireService(s))

\* What goes on by itself: the endpoint and the HA modules of the nodes.
Running ==
    \/ Sweep
    \/ \E c \in Client : AgeClient(c)
    \/ \E r \in Req : StoreService(r) \/ Track(r)
    \/ System /\ UNCHANGED endpointVars

\* The process of node n ends and starts again; Home's endpoint is a part of it.
Crash(n) ==
    /\ CrashRestart(n)
    /\ IF n = Home
       THEN /\ publicClients' = [c \in Client |-> Absent]
            /\ pc' = [r \in Req |-> "idle"]
            /\ form' = [r \in Req |-> Absent]
            /\ rlist' = {} /\ victim' = Absent /\ todo' = {}
       ELSE UNCHANGED endpointVars

RegistryNext ==
    \/ Running
    \/ \E c \in Client : Register(c)
    \/ NetworkFaults /\ UNCHANGED endpointVars
    \/ \E n \in Node : Crash(n)

RegistryFairness ==
    /\ Fairness
    /\ \A r \in Req : WF_allVars(StoreService(r)) /\ SF_allVars(Track(r))
    /\ WF_allVars(Sweep)
    /\ \A c \in Client : WF_allVars(AgeClient(c))

RegistrySpec == RegistryInit /\ [][RegistryNext]_allVars /\ RegistryFairness

-----------------------------------------------------------------------------
\* A client that stops registering disappears everywhere: when crashes and
\* network faults have ceased too, neither the node it registered at nor a peer
\* that mirrors it answers queries with its services for ever, whatever of its
\* removal was lost on the way, and whoever was restarted in between.  Other
\* clients, where there are any, go on (SilentClientExpires is about them).
SilentClientForgotten ==
    \A c \in Client :
        <>[][Running \/ \E d \in Client \ {c} : Register(d)]_allVars =>
            <>[](\A n \in Node, s \in Service : services[n][<<s, c>>] = NoAddr)
=============================================================================

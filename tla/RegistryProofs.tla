--------------------------- MODULE RegistryProofs ---------------------------
(***************************************************************************)
(* The composition of the endpoint and the replication (Registry)          *)
(* implements the replication alone (PeerSync): whatever handlers and the  *)
(* sweep write to the store of Home is a registration or a removal that    *)
(* PeerSync allows, and every other step of the endpoint leaves the store, *)
(* the HA modules and the network alone.  What is proved of PeerSync for   *)
(* registrations that come from nowhere so holds when they come from HTTP  *)
(* requests and timeouts, and when a crash takes the endpoint along.       *)
(***************************************************************************)
EXTENDS Registry, PeerSyncClusterProofs

\* What the endpoint writes to the store, and removes from it, is well formed:
\* a handler that is to write knows what, and only known clients are swept.
EndpointLink ==
    /\ pc   \in [Req -> {"idle", "publish", "track"}]
    /\ form \in [Req -> Endpoint!Form \cup {Absent}]
    /\ \A r \in Req : pc[r] = "publish" => form[r] \in Endpoint!Form
    /\ rlist \in SUBSET Client
    /\ victim \in Client \cup {Absent}

LEMMA EndpointInit == RegistryInit => EndpointLink
BY DEF RegistryInit, Endpoint!Init, EndpointLink

\* Only a handler that has read its request is to write, only the sweep
\* chooses clients, and a crash of Home ends both.
LEMMA EndpointStep == EndpointLink /\ [RegistryNext]_allVars => EndpointLink'
<1>. SUFFICES ASSUME EndpointLink, [RegistryNext]_allVars PROVE EndpointLink'
  OBVIOUS
<1>1. CASE UNCHANGED endpointVars
  BY <1>1 DEF endpointVars, EndpointLink, Endpoint!Form
<1>2. ASSUME NEW c \in Client, Register(c) PROVE EndpointLink'
  <2>1. PICK r \in Req, s \in Service, a \in Addr : Endpoint!Receive(r, c, s, a)
    BY <1>2 DEF Register, Endpoint!Register
  <2>2. [node |-> c, name |-> s, address |-> a] \in Endpoint!Form
    BY DEF Endpoint!Form
  <2>. QED
    BY <2>1, <2>2 DEF EndpointLink, Endpoint!Form, Endpoint!Receive, Endpoint!sweepVars
<1>3. ASSUME NEW r \in Req, StoreService(r) PROVE EndpointLink'
  BY <1>3 DEF StoreService, Endpoint!PublishService, EndpointLink, Endpoint!Form, Endpoint!sweepVars
<1>4. ASSUME NEW r \in Req, Track(r) PROVE EndpointLink'
  BY <1>4 DEF Track, Endpoint!Track, EndpointLink, Endpoint!Form, Endpoint!sweepVars
<1>5. ASSUME NEW c \in Client, AgeClient(c) PROVE EndpointLink'
  BY <1>5 DEF AgeClient, Endpoint!Age, EndpointLink, Endpoint!Form, Endpoint!sweepVars
<1>6. CASE Sweep
  <2>1. CASE SweepStart
    BY <2>1 DEF SweepStart, Endpoint!SweepStart, Endpoint!Stale, EndpointLink, Endpoint!Form
  <2>2. CASE SweepForget
    BY <2>2 DEF SweepForget, Endpoint!SweepForget, EndpointLink, Endpoint!Form
  <2>3. ASSUME NEW c \in Client, SweepNext(c) PROVE EndpointLink'
    BY <2>3 DEF SweepNext, Endpoint!SweepNext, EndpointLink, Endpoint!Form
  <2>4. ASSUME NEW s \in Service, ExpireService(s) PROVE EndpointLink'
    BY <2>4 DEF ExpireService, Endpoint!SweepDelete, EndpointLink, Endpoint!Form
  <2>. QED
    BY <1>6, <2>1, <2>2, <2>3, <2>4 DEF Sweep
<1>7. ASSUME NEW n \in Node, Crash(n) PROVE EndpointLink'
  BY <1>1, <1>7 DEF Crash, EndpointLink, Endpoint!Form
<1>. QED
  BY <1>1, <1>2, <1>3, <1>4, <1>5, <1>6, <1>7 DEF RegistryNext, Running, allVars

-----------------------------------------------------------------------------
\* A write of a handler or of the sweep is one that PeerSync allows, by the one
\* node that registers services.
LEMMA WritesRegister ==
    ASSUME EndpointLink
    PROVE  /\ \A r \in Req : StoreService(r) => Registrations
           /\ \A s \in Service : ExpireService(s) => Registrations
<1>0. Home \in Node
  BY RegistryAssumption, ConfigAssumption
<1>1. ASSUME NEW r \in Req, StoreService(r) PROVE Registrations
  <2>1. form[r] \in Endpoint!Form
    BY <1>1 DEF StoreService, EndpointLink
  <2>2. form[r].name \in Service /\ form[r].node \in Client /\ form[r].address \in Addr
    BY <2>1 DEF Endpoint!Form
  <2>3. <<form[r].name, form[r].node>> \in Key
    BY <2>2, RegistryAssumption
  <2>. QED
    BY <1>0, <1>1, <2>2, <2>3 DEF StoreService, Registrations
<1>2. ASSUME NEW s \in Service, ExpireService(s) PROVE Registrations
  <2>1. victim \in Client
    BY <1>2 DEF ExpireService, EndpointLink
  <2>2. <<s, victim>> \in Key
    BY <2>1, RegistryAssumption
  <2>. QED
    BY <1>0, <1>2, <2>2 DEF ExpireService, Registrations
<1>. QED
  BY <1>1, <1>2

\* Every step of the composition is one of the replication or leaves it alone.
LEMMA StepImplements == EndpointLink /\ [RegistryNext]_allVars => [Next]_vars
<1>. SUFFICES ASSUME EndpointLink, [RegistryNext]_allVars PROVE [Next]_vars
  OBVIOUS
<1>1. CASE UNCHANGED allVars
  BY <1>1 DEF allVars
<1>2. CASE Sweep
  BY <1>2, WritesRegister DEF Sweep, SweepStart, SweepForget, SweepNext, Next
<1>3. CASE Running
  BY <1>2, <1>3, WritesRegister DEF Running, AgeClient, Track, Next
<1>4. CASE \E c \in Client : Register(c)
  BY <1>4 DEF Register
<1>5. CASE NetworkFaults
  BY <1>5 DEF Next, Faults
<1>6. CASE \E n \in Node : Crash(n)
  BY <1>6 DEF Crash, Next, Faults
<1>. QED
  BY <1>1, <1>3, <1>4, <1>5, <1>6 DEF RegistryNext

-----------------------------------------------------------------------------
\* Registration over HTTP, its expiry and the replication together behave, for
\* the store and the peers, as PeerSync says: every property of it carries over.
THEOREM ImplementsPeerSync == RegistrySpec => Spec
<1>1. RegistryInit => Init
  BY DEF RegistryInit
<1>. QED
  BY <1>1, EndpointInit, EndpointStep, StepImplements, PTL DEF RegistrySpec, Spec

\* Registrations made over HTTP travel only between nodes of the same cluster
\* name and secret.
THEOREM RegistrySameCluster == RegistrySpec => []OnlySameCluster
BY ImplementsPeerSync, SameClusterHolds, PTL

\* None of them is skipped or half applied on the way to a mirror, however
\* handlers, the sweep, fetches and crashes interleave.
THEOREM RegistryMirrors == RegistrySpec => []MirrorChain
BY ImplementsPeerSync, MirrorHolds, PTL
=============================================================================

------------------------- MODULE HttpEndpointProofs -------------------------
(***************************************************************************)
(* Proofs about HttpEndpoint for any number of clients, services and       *)
(* concurrent requests.                                                    *)
(***************************************************************************)
EXTENDS HttpEndpoint, TLAPS

\* A handler past its password check knows what it registers.
FormLink == \A r \in Req : pc[r] # "idle" => form[r] \in Form

\* While the sweep holds the lock its clients stay timed out and known.
SweepLink ==
    /\ rlist \subseteq Stale
    /\ victim # Absent => victim \in Stale /\ victim \notin rlist

\* A service of the victim that is not to be deleted any more is only in the
\* store if a handler has written it since.
VictimLink ==
    victim # Absent =>
        \A s \in Service : registered[victim][s] # NoAddr => s \in todo \/ InFlight(victim, s)

IndInv == TypeOK /\ FormLink /\ SweepLink /\ VictimLink /\ NoImmortalService

-----------------------------------------------------------------------------
\* The endpoint starts with nothing registered.
LEMMA InitInv == Init => IndInv
<1>. SUFFICES ASSUME Init PROVE IndInv
  OBVIOUS
<1>1. TypeOK
  BY DEF Init, TypeOK, AddrOrNone
<1>. QED
  BY <1>1 DEF Init, IndInv, FormLink, SweepLink, VictimLink, NoImmortalService

\* publishService up to the password check: the handler was not in flight.
LEMMA ReceiveStep ==
    ASSUME IndInv, NEW r \in Req, NEW c \in Client, NEW s \in Service, NEW a \in Addr,
           Receive(r, c, s, a)
    PROVE  IndInv'
<1>. USE DEF Receive, sweepVars
<1>0. TypeOK
  BY DEF IndInv
<1>1. [node |-> c, name |-> s, address |-> a] \in Form
  BY DEF Form
<1>2. TypeOK'
  BY <1>0, <1>1 DEF TypeOK
<1>3. FormLink'
  BY <1>0, <1>1 DEF IndInv, FormLink, TypeOK
<1>4. \A x \in Client, y \in Service : InFlight(x, y) => InFlight(x, y)'
  BY <1>0 DEF InFlight, TypeOK
<1>5. SweepLink'
  BY DEF IndInv, SweepLink, Stale
<1>6. VictimLink'
  BY <1>0, <1>4 DEF IndInv, VictimLink, TypeOK
<1>7. NoImmortalService'
  BY <1>4 DEF IndInv, NoImmortalService, Tracked
<1>. QED
  BY <1>2, <1>3, <1>5, <1>6, <1>7 DEF IndInv

\* Storage.PublishService: what is written is in flight from now on.
LEMMA PublishStep ==
    ASSUME IndInv, NEW r \in Req, PublishService(r)
    PROVE  IndInv'
<1>. USE DEF PublishService, sweepVars
<1>0. TypeOK
  BY DEF IndInv
<1>1. PICK c \in Client, s \in Service, a \in Addr :
         form[r] = [node |-> c, name |-> s, address |-> a]
  BY DEF IndInv, FormLink, Form
<1>2. /\ registered' = [registered EXCEPT ![c][s] = a]
      /\ registered' \in [Client -> [Service -> AddrOrNone]]
      /\ \A x \in Client, y \in Service :
            registered'[x][y] # registered[x][y] => x = c /\ y = s
  BY <1>0, <1>1 DEF TypeOK, AddrOrNone
<1>3. TypeOK'
  BY <1>0, <1>2 DEF TypeOK
<1>4. FormLink'
  BY <1>0 DEF IndInv, FormLink, TypeOK
<1>5. /\ \A x \in Client, y \in Service : InFlight(x, y) => InFlight(x, y)'
      /\ InFlight(c, s)'
  BY <1>0, <1>1 DEF InFlight, TypeOK
<1>6. SweepLink'
  BY DEF IndInv, SweepLink, Stale
<1>7. VictimLink'
  BY <1>0, <1>2, <1>5 DEF IndInv, VictimLink, TypeOK
<1>8. NoImmortalService'
  BY <1>2, <1>5 DEF IndInv, NoImmortalService, Tracked
<1>. QED
  BY <1>3, <1>4, <1>6, <1>7, <1>8 DEF IndInv

\* The end of publishService: what was in flight is noted.
LEMMA TrackStep ==
    ASSUME IndInv, NEW r \in Req, Track(r)
    PROVE  IndInv'
<1>. USE DEF sweepVars
<1>0. TypeOK
  BY DEF IndInv
<1>1. PICK c \in Client, s \in Service, a \in Addr :
         form[r] = [node |-> c, name |-> s, address |-> a]
  BY DEF IndInv, FormLink, Form, Track
<1>2. PICK pub \in [Service -> AddrOrNone] :
         /\ publicClients' = [publicClients EXCEPT ![c] = [LastUpdate |-> "fresh", Publishment |-> pub]]
         /\ pub[s] = a
         /\ \A y \in Service : Tracked(c, y) => pub[y] # NoAddr
  <2>. DEFINE old == IF publicClients[c] = Absent THEN NoPublishment
                     ELSE publicClients[c].Publishment
              pub == [old EXCEPT ![s] = a]
  <2>1. old \in [Service -> AddrOrNone]
    BY <1>0 DEF TypeOK, PublicClient, NoPublishment, AddrOrNone
  <2>2. \A y \in Service : Tracked(c, y) => old[y] # NoAddr
    BY DEF Tracked
  <2>3. publicClients' = [publicClients EXCEPT ![c] = [LastUpdate |-> "fresh", Publishment |-> pub]]
    BY <1>1 DEF Track
  <2>. HIDE DEF old
  <2>4. pub \in [Service -> AddrOrNone] /\ pub[s] = a
    BY <2>1 DEF AddrOrNone
  <2>5. \A y \in Service : Tracked(c, y) => pub[y] # NoAddr
    BY <2>1, <2>2, EndpointAssumption
  <2>. QED
    BY <2>3, <2>4, <2>5
<1>3. /\ UNCHANGED <<registered, rlist, victim, todo>> /\ Unlocked
      /\ pc' = [pc EXCEPT ![r] = "idle"] /\ form' = [form EXCEPT ![r] = Absent]
  BY DEF Track
<1>4. TypeOK'
  <2>1. [LastUpdate |-> "fresh", Publishment |-> pub] \in PublicClient
    BY DEF PublicClient
  <2>. QED
    BY <1>0, <1>2, <1>3, <2>1 DEF TypeOK
<1>5. FormLink'
  BY <1>0, <1>3 DEF IndInv, FormLink, TypeOK
<1>6. SweepLink' /\ VictimLink'
  BY <1>3 DEF SweepLink, VictimLink, Unlocked
<1>7. ASSUME NEW x \in Client, NEW y \in Service, registered'[x][y] # NoAddr
      PROVE  Tracked(x, y)' \/ InFlight(x, y)'
  <2>1. Tracked(x, y) \/ InFlight(x, y)
    BY <1>3, <1>7 DEF IndInv, NoImmortalService
  <2>2. Tracked(x, y) \/ (x = c /\ y = s) => Tracked(x, y)'
    BY <1>0, <1>2, EndpointAssumption DEF Tracked, TypeOK, AddrOrNone
  <2>3. InFlight(x, y) => InFlight(x, y)' \/ (x = c /\ y = s)
    BY <1>0, <1>1, <1>3 DEF InFlight, TypeOK
  <2>. QED
    BY <2>1, <2>2, <2>3
<1>8. NoImmortalService'
  BY <1>7 DEF NoImmortalService
<1>. QED
  BY <1>4, <1>5, <1>6, <1>8 DEF IndInv

\* Time passing makes clients stale and leaves their services noted.
LEMMA AgeStep ==
    ASSUME IndInv, NEW c \in Client, Age(c)
    PROVE  IndInv'
<1>. USE DEF Age, sweepVars
<1>0. TypeOK
  BY DEF IndInv
<1>1. publicClients[c] \in PublicClient
  BY <1>0 DEF TypeOK
<1>2. /\ publicClients' = [publicClients EXCEPT ![c] =
             [LastUpdate |-> "stale", Publishment |-> publicClients[c].Publishment]]
  BY <1>0, <1>1 DEF TypeOK, PublicClient
<1>3. [LastUpdate |-> "stale", Publishment |-> publicClients[c].Publishment] \in PublicClient
  BY <1>1 DEF PublicClient
<1>4. TypeOK'
  BY <1>0, <1>2, <1>3 DEF TypeOK
<1>5. /\ \A x \in Client : x \in Stale => x \in Stale'
      /\ \A x \in Client, y \in Service : Tracked(x, y) => Tracked(x, y)'
  <2>1. publicClients'[c] # Absent
    BY <1>0, <1>2, <1>3, EndpointAssumption DEF TypeOK, PublicClient, AddrOrNone
  <2>2. /\ publicClients'[c].LastUpdate = "stale"
        /\ publicClients'[c].Publishment = publicClients[c].Publishment
        /\ \A x \in Client : x # c => publicClients'[x] = publicClients[x]
    BY <1>0, <1>2 DEF TypeOK
  <2>. QED
    BY <2>1, <2>2 DEF Stale, Tracked
<1>6. SweepLink'
  BY <1>0, <1>5 DEF IndInv, SweepLink, TypeOK
<1>7. FormLink' /\ VictimLink'
  BY DEF IndInv, FormLink, VictimLink, InFlight
<1>8. NoImmortalService'
  BY <1>5 DEF IndInv, NoImmortalService, InFlight
<1>. QED
  BY <1>4, <1>6, <1>7, <1>8 DEF IndInv

\* CheckPublishClients, step by step.
LEMMA SweepStep ==
    ASSUME IndInv, Sweep
    PROVE  IndInv'
<1>0. TypeOK
  BY DEF IndInv
<1>1. CASE SweepStart
  BY <1>0, <1>1 DEF SweepStart, IndInv, TypeOK, FormLink, SweepLink, VictimLink, Unlocked,
                    Stale, NoImmortalService, Tracked, InFlight
<1>2. ASSUME NEW c \in Client, SweepNext(c) PROVE IndInv'
  <2>. USE <1>2 DEF SweepNext
  <2>1. TypeOK' /\ FormLink' /\ NoImmortalService'
    BY <1>0 DEF IndInv, TypeOK, FormLink, NoImmortalService, Tracked, InFlight
  <2>2. SweepLink'
    BY DEF IndInv, SweepLink, Stale
  <2>3. VictimLink'
    BY DEF IndInv, NoImmortalService, VictimLink, InFlight
  <2>. QED
    BY <2>1, <2>2, <2>3 DEF IndInv
<1>3. ASSUME NEW s \in Service, SweepDelete(s) PROVE IndInv'
  <2>. USE <1>3 DEF SweepDelete
  <2>1. victim \in Client
    BY <1>0 DEF TypeOK
  <2>2. /\ registered' \in [Client -> [Service -> AddrOrNone]]
        /\ \A x \in Client, y \in Service :
              registered'[x][y] = IF x = victim /\ y = s THEN NoAddr ELSE registered[x][y]
    BY <1>0, <2>1 DEF TypeOK, AddrOrNone
  <2>3. TypeOK'
    BY <1>0, <2>2 DEF TypeOK
  <2>4. FormLink' /\ SweepLink'
    BY DEF IndInv, FormLink, SweepLink, Stale
  <2>5. VictimLink'
    BY <2>1, <2>2 DEF IndInv, VictimLink, InFlight
  <2>6. NoImmortalService'
    BY <2>2 DEF IndInv, NoImmortalService, Tracked, InFlight
  <2>. QED
    BY <2>3, <2>4, <2>5, <2>6 DEF IndInv
<1>4. CASE SweepForget
  <2>. USE <1>4 DEF SweepForget
  <2>1. victim \in Client
    BY <1>0 DEF TypeOK
  <2>2. /\ publicClients' \in [Client -> PublicClient \cup {Absent}]
        /\ \A x \in Client : x # victim => publicClients'[x] = publicClients[x]
    BY <1>0, <2>1 DEF TypeOK
  <2>3. TypeOK'
    BY <1>0, <2>2 DEF TypeOK
  <2>4. FormLink' /\ VictimLink'
    BY DEF IndInv, FormLink, VictimLink
  <2>5. SweepLink'
    BY <1>0, <2>1, <2>2 DEF IndInv, SweepLink, Stale, TypeOK
  <2>6. NoImmortalService'
    BY <2>1, <2>2 DEF IndInv, NoImmortalService, VictimLink, Tracked, InFlight
  <2>. QED
    BY <2>3, <2>4, <2>5, <2>6 DEF IndInv
<1>. QED
  BY <1>1, <1>2, <1>3, <1>4 DEF Sweep

\* Every step keeps the invariant.
LEMMA NextInv == IndInv /\ [Next]_vars => IndInv'
<1>. SUFFICES ASSUME IndInv, [Next]_vars PROVE IndInv'
  OBVIOUS
<1>1. CASE Next
  BY <1>1, ReceiveStep, PublishStep, TrackStep, AgeStep, SweepStep DEF Next, Register
<1>2. CASE UNCHANGED vars
  BY <1>2 DEF vars, IndInv, TypeOK, FormLink, SweepLink, VictimLink, NoImmortalService,
              Stale, Tracked, InFlight
<1>. QED
  BY <1>1, <1>2

-----------------------------------------------------------------------------
\* The inductive invariant holds for every number of clients and requests.
THEOREM InvariantHolds == Spec => []IndInv
BY InitInv, NextInv, PTL DEF Spec

\* Whatever is registered is noted, or about to be, and so can expire.
THEOREM NoImmortalHolds == Spec => []NoImmortalService
<1>1. IndInv => NoImmortalService
  BY DEF IndInv
<1>. QED
  BY <1>1, InvariantHolds, PTL

\* Only the services of clients that have timed out are deleted.
THEOREM TimedOutHolds == Spec => OnlyTimedOutRemoved
<1>. DEFINE Removal == \A c \in Client, s \in Service :
               registered[c][s] # NoAddr /\ registered'[c][s] = NoAddr => c \in Stale
<1>1. IndInv /\ [Next]_vars => [Removal]_vars
  <2>. SUFFICES ASSUME IndInv, [Next]_vars, NEW c \in Client, NEW s \in Service,
                       registered[c][s] # NoAddr, registered'[c][s] = NoAddr
                PROVE  c \in Stale
    OBVIOUS
  <2>0. TypeOK
    BY DEF IndInv
  <2>1. ASSUME NEW r \in Req, PublishService(r) PROVE FALSE
    <3>1. PICK x \in Client, y \in Service, a \in Addr :
             form[r] = [node |-> x, name |-> y, address |-> a]
      BY <2>1 DEF IndInv, FormLink, Form, PublishService
    <3>. QED
      BY <2>0, <2>1, <3>1, EndpointAssumption DEF PublishService, TypeOK
  <2>2. ASSUME NEW y \in Service, SweepDelete(y) PROVE c \in Stale
    BY <2>0, <2>2 DEF SweepDelete, IndInv, SweepLink, TypeOK
  <2>3. CASE UNCHANGED registered
    BY <2>3
  <2>. QED
    BY <2>1, <2>2, <2>3 DEF Next, Register, Receive, Track, Age, Sweep, SweepStart,
                            SweepNext, SweepForget, vars
<1>. QED
  BY <1>1, InvariantHolds, PTL DEF Spec, OnlyTimedOutRemoved
=============================================================================

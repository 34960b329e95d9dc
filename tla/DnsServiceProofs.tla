-------------------------- MODULE DnsServiceProofs --------------------------
(***************************************************************************)
(* Proofs about DnsService for every set of queries, names, rules,         *)
(* enclosure domains and upstream replies.                                 *)
(*                                                                         *)
(* What holds of a reply depends on what its query has been through, so    *)
(* the inductive invariant says for every place of a query what it has got *)
(* and what the lookups it made rule out (QueryLink), ties the entries of  *)
(* the cache to their keys and to the times to live of their answers       *)
(* (CacheLink), and the two tables to the rules they were made from        *)
(* (RulesLink).                                                            *)
(***************************************************************************)
EXTENDS DnsService, WellFoundedInduction, TLAPS

\* The tables are made from the static rules and from those that are loaded.
RulesLink ==
    /\ static \in Loads[StaticRules]
    /\ config \in DynamicRules /\ ~Malformed(config)
    /\ container \in Loads[config]

\* An entry is a reply to the question it is stored for, and lives no longer
\* than any of its answer records.
CacheLink ==
    \A k \in DOMAIN cache :
        /\ CacheKey(cache[k].res.of) = k
        /\ \A t \in cache[k].res.ttls : cache[k].ttl <= t

\* What is known of the reply of query r.
ReplyLink(r) ==
    /\ ask[r] \in Asked[r]
    /\ res[r] \in Reply
    /\ CacheKey(res[r].of) = CacheKey(ask[r])
    /\ \A t \in res[r].ttls : res[r].age <= t
    /\ ask[r].type \in held[r] => res[r].hit \/ res[r].value # NotFound

\* What is known of query r at each place.
QueryLink(r) ==
    /\ pc[r] = "idle" => ask[r] = None /\ res[r] = NoReply
    /\ pc[r] \in {"get", "resolve", "resolveA", "exchange"} =>
           ask[r] \in Asked[r] /\ res[r] = NoReply
    /\ pc[r] = "resolveA" => ask[r].type = "AAAA" /\ "AAAA" \notin held[r]
    /\ pc[r] = "exchange" => held[r] = {}
    /\ pc[r] = "put" => ReplyLink(r)
    /\ pc[r] = "reply" => ReplyLink(r) \/ (ask[r] = None /\ res[r] = FormatError)

\* A type is held only while a query for a name that has it is under way.
HeldLink(r) ==
    \A t \in held[r] : ask[r] \in Asked[r] /\ t \in Configured(ask[r], config)

IndInv ==
    /\ TypeOK /\ ask \in [Req -> Question \cup {None}]
    /\ RulesLink /\ CacheLink
    /\ \A r \in Req : QueryLink(r) /\ HeldLink(r)

-----------------------------------------------------------------------------
(***************************************************************************)
(* The operators                                                           *)
(***************************************************************************)

\* A set of natural numbers that is not empty has a least element.
LEMMA LeastExists ==
    ASSUME NEW S \in SUBSET Nat, S # {}
    PROVE  \E t \in S : \A u \in S : t <= u
<1> DEFINE R == {ss \in Nat \X Nat : ss[1] < ss[2]}
<1>1. IsWellFoundedOn(R, Nat)
  BY NatLessThanWellFounded, Zenon DEF OpToRel
<1> HIDE DEF R
<1>2. PICK t \in S : \A u \in S : <<u, t>> \notin R
  BY <1>1, WFMin
<1>3. \A u \in S : ~(u < t)
  BY <1>2 DEF R
<1> QED
  BY <1>3

\* What is cached lives no longer than any answer record of the reply
\* (checkHasValidTTL).
LEMMA CacheTTLProperty ==
    ASSUME NEW ttls \in SUBSET TTL
    PROVE  /\ CacheTTL(ttls) \in TTL
           /\ CacheTTL(ttls) # 0 => \A t \in ttls : CacheTTL(ttls) <= t
<1> DEFINE S == ttls \cup {MaxTTL}
           ttl == CHOOSE t \in S : \A u \in ttls : t <= u
<1>1. MaxTTL \in Nat /\ S \subseteq TTL /\ S # {} /\ S \subseteq Nat
  BY DnsAssumption DEF TTL
<1>2. \E t \in S : \A u \in S : t <= u
  <2> HIDE DEF S
  <2> QED BY <1>1, LeastExists
<1>3. \E t \in S : \A u \in ttls : t <= u
  BY <1>2
<1>4. ttl \in S /\ \A u \in ttls : ttl <= u
  BY <1>3
<1>5. CacheTTL(ttls) = IF ttl = MaxTTL THEN 0 ELSE ttl
  BY DEF CacheTTL
<1> HIDE DEF ttl, S
<1> QED
  BY <1>1, <1>4, <1>5 DEF TTL

\* What a table made from rules holds (PutDomain, process): a value for every
\* key that some rule has, and for no other.
LEMMA LoadsProperty ==
    ASSUME NEW rules \in DynamicRules \cup {StaticRules}, ~Malformed(rules),
           NEW table \in Loads[rules]
    PROVE  /\ DOMAIN table = {TableKey(r) : r \in rules}
           /\ DOMAIN table \subseteq Key
           /\ \A k \in DOMAIN table : table[k] \in Value
<1> DEFINE keys == {TableKey(r) : r \in rules}
<1>1. rules \subseteq Rule
  BY DnsAssumption DEF IsRuleMap
<1>2. PICK last \in [keys -> rules] : table = [k \in keys |-> last[k].value]
  BY DEF Loads
<1>3. \A r \in rules : TableKey(r) \in Key
  BY <1>1, DnsAssumption DEF TableKey, Key, Rule, Malformed, QType, RecordType
<1> QED
  BY <1>1, <1>2, <1>3 DEF Rule

\* The lookups find a value for a type that the name of a question is
\* configured with (ResolveDomain).
LEMMA ConfiguredResolves ==
    ASSUME IndInv, NEW q \in Question, NEW t \in Configured(q, config)
    PROVE  ResolveDomain(<<Canonical[q.name], t>>) # NotFound
<1>1. PICK r \in StaticRules \cup config :
          /\ r.type = t
          /\ (IF t = "PTR" THEN PtrFqdn[r.key] ELSE Canonical[r.key]) = Canonical[q.name]
  BY DEF Configured
<1>2. TableKey(r) = <<Canonical[q.name], t>>
  BY <1>1 DEF TableKey
<1>3. ~Malformed(StaticRules) /\ ~Malformed(config)
  BY DnsAssumption DEF IndInv, RulesLink
<1>4. DOMAIN static = {TableKey(s) : s \in StaticRules}
  BY <1>3, LoadsProperty DEF IndInv, RulesLink
<1>5. DOMAIN container = {TableKey(s) : s \in config}
  BY <1>3, LoadsProperty DEF IndInv, RulesLink
<1>6. <<Canonical[q.name], t>> \in DOMAIN static \cup DOMAIN container
  BY <1>1, <1>2, <1>4, <1>5
<1>7. /\ \A k \in DOMAIN static : static[k] # NotFound
      /\ \A k \in DOMAIN container : container[k] # NotFound
  BY DnsAssumption DEF IndInv, TypeOK
<1> QED
  BY <1>6, <1>7 DEF ResolveDomain, ResolveDynamic

\* The types a question is decided by are types of records.
LEMMA ConfiguredTypes ==
    ASSUME NEW q \in Question, NEW rules \in DynamicRules
    PROVE  Configured(q, rules) \subseteq RecordType \cap Decisive(q)
BY DnsAssumption DEF Configured, IsRuleMap, Rule

-----------------------------------------------------------------------------
(***************************************************************************)
(* The steps                                                               *)
(***************************************************************************)

Place == {"idle", "get", "resolve", "resolveA", "exchange", "put", "reply"}

CacheTypeOK ==
    /\ DOMAIN cache \subseteq Key
    /\ \A k \in DOMAIN cache : cache[k] \in Entry /\ cache[k].age <= cache[k].ttl + 1

\* A query goes to `place' with question q, reply m and held types h, and
\* leaves the other queries alone.
MovesTo(r, place, q, m, h) ==
    /\ pc' = [pc EXCEPT ![r] = place]
    /\ ask' = [ask EXCEPT ![r] = q]
    /\ res' = [res EXCEPT ![r] = m]
    /\ held' = [held EXCEPT ![r] = h]

\* A step of one query keeps the invariant when it keeps what the invariant
\* says of that query and of the cache.
LEMMA QueryStep ==
    ASSUME IndInv, NEW r \in Req,
           UNCHANGED <<static, config, container>>,
           NEW place \in Place, NEW q \in Asked[r] \cup {None},
           NEW m \in Reply \cup {FormatError, NoReply}, NEW h \in SUBSET RecordType,
           MovesTo(r, place, q, m, h),
           QueryLink(r)', HeldLink(r)', CacheTypeOK', CacheLink'
    PROVE  IndInv'
<1>1. Asked[r] \subseteq Question
  BY DnsAssumption
<1>2. TypeOK' /\ (ask \in [Req -> Question \cup {None}])'
  BY <1>1 DEF IndInv, TypeOK, MovesTo, CacheTypeOK, Place
<1>3. RulesLink'
  BY DEF IndInv, RulesLink, Malformed
<1>4. ASSUME NEW s \in Req, s # r
      PROVE  pc'[s] = pc[s] /\ ask'[s] = ask[s] /\ res'[s] = res[s] /\ held'[s] = held[s]
  BY <1>4 DEF IndInv, TypeOK, MovesTo
<1>5. ASSUME NEW s \in Req, s # r
      PROVE  QueryLink(s)' /\ HeldLink(s)'
  <2>1. QueryLink(s) /\ HeldLink(s)
    BY DEF IndInv
  <2>2. QueryLink(s)'
    BY <2>1, <1>4, <1>5 DEF QueryLink, ReplyLink, CacheKey
  <2>3. HeldLink(s)'
    BY <2>1, <1>4, <1>5 DEF HeldLink, Configured
  <2> QED
    BY <2>2, <2>3
<1> QED
  BY <1>2, <1>3, <1>5 DEF IndInv

\* The same for a step that leaves the cache alone.
LEMMA QueryStepNoPut ==
    ASSUME IndInv, NEW r \in Req,
           UNCHANGED <<static, config, container, cache>>,
           NEW place \in Place, NEW q \in Asked[r] \cup {None},
           NEW m \in Reply \cup {FormatError, NoReply}, NEW h \in SUBSET RecordType,
           MovesTo(r, place, q, m, h),
           QueryLink(r)', HeldLink(r)'
    PROVE  IndInv'
<1>1. CacheTypeOK' /\ CacheLink'
  BY DEF IndInv, TypeOK, CacheTypeOK, CacheLink
<1> QED
  BY <1>1, QueryStep

\* The values of r's variables after a step of r.
LEMMA Moved ==
    ASSUME IndInv, NEW r \in Req, NEW place, NEW q, NEW m, NEW h,
           MovesTo(r, place, q, m, h)
    PROVE  pc'[r] = place /\ ask'[r] = q /\ res'[r] = m /\ held'[r] = h
BY DEF IndInv, TypeOK, MovesTo

\* What is not assigned stays.
LEMMA Stays ==
    ASSUME IndInv, NEW r \in Req
    PROVE  /\ pc = [pc EXCEPT ![r] = pc[r]] /\ ask = [ask EXCEPT ![r] = ask[r]]
           /\ res = [res EXCEPT ![r] = res[r]] /\ held = [held EXCEPT ![r] = held[r]]
BY DEF IndInv, TypeOK

\* A reply made for q is one.
LEMMA AnswerType ==
    ASSUME NEW q \in Question, NEW rcode \in Rcode, NEW v \in Value \cup {NotFound},
           NEW ttls \in SUBSET TTL, NEW others \in SUBSET TTL
    PROVE  LET m == Answer(q, rcode, v, ttls, others)
           IN  /\ m \in Reply /\ m.of = q /\ m.ttls = ttls /\ m.age = 0
               /\ m.value = v /\ \A t \in m.ttls : m.age <= t
<1>1. 0 \in TTL /\ \A t \in ttls : 0 <= t
  BY DnsAssumption DEF TTL
<1> QED
  BY <1>1 DEF Answer, Reply

LEMMA NotFoundType ==
    ASSUME NEW q \in Question
    PROVE  LET m == NotFoundReply(q)
           IN  m \in Reply /\ m.of = q /\ \A t \in m.ttls : m.age <= t
<1>1. {} \in SUBSET TTL
  OBVIOUS
<1> QED
  BY <1>1, AnswerType DEF NotFoundReply, Rcode

\* A panic, and the end of a query.
LEMMA DoneStep ==
    ASSUME IndInv, NEW r \in Req, Done(r), UNCHANGED <<static, config, container, cache>>
    PROVE  IndInv'
<1>1. MovesTo(r, "idle", None, NoReply, {})
  BY DEF Done, Got, Goto, MovesTo
<1>2. pc'[r] = "idle" /\ ask'[r] = None /\ res'[r] = NoReply /\ held'[r] = {}
  BY <1>1, Moved
<1>3. QueryLink(r)' /\ HeldLink(r)'
  BY <1>2 DEF QueryLink, HeldLink
<1> QED
  BY <1>1, <1>3, QueryStepNoPut DEF Place

\* The step of Receive keeps the invariant.
LEMMA ReceiveStep ==
    ASSUME IndInv, NEW r \in Req, NEW q \in Asked[r], Receive(r, q)
    PROVE  IndInv'
<1>1. q \in Question /\ config \in DynamicRules
  BY DnsAssumption DEF IndInv, RulesLink
<1>2. MovesTo(r, "get", q, res[r], Configured(q, config))
  BY Stays DEF Receive, Goto, MovesTo
<1>3. /\ pc'[r] = "get" /\ ask'[r] = q /\ res'[r] = res[r]
      /\ held'[r] = Configured(q, config)
  BY <1>2, Moved
<1>4. res[r] = NoReply
  BY DEF IndInv, QueryLink, Receive
<1>5. QueryLink(r)'
  BY <1>3, <1>4 DEF QueryLink
<1>6. HeldLink(r)'
  BY <1>3 DEF HeldLink, Receive, Configured
<1>7. Configured(q, config) \in SUBSET RecordType
  BY <1>1, ConfiguredTypes
<1> QED
  BY <1>2, <1>4, <1>5, <1>6, <1>7, QueryStepNoPut DEF Place, Receive

LEMMA ReceiveManyStep ==
    ASSUME IndInv, NEW r \in Req, ReceiveMany(r)
    PROVE  IndInv'
<1>1. MovesTo(r, "reply", ask[r], FormatError, held[r])
  BY Stays DEF ReceiveMany, Got, Goto, MovesTo
<1>2. /\ pc'[r] = "reply" /\ ask'[r] = ask[r] /\ res'[r] = FormatError
      /\ held'[r] = held[r]
  BY <1>1, Moved
<1>3. ask[r] = None
  BY DEF IndInv, QueryLink, ReceiveMany
<1>4. QueryLink(r)'
  BY <1>2, <1>3 DEF QueryLink
<1>5. HeldLink(r)'
  BY <1>2 DEF IndInv, HeldLink, ReceiveMany, Configured
<1>6. held[r] \in SUBSET RecordType
  BY DEF IndInv, TypeOK
<1> QED
  BY <1>1, <1>3, <1>4, <1>5, <1>6, QueryStepNoPut DEF Place, ReceiveMany

\* A query that keeps its question gets reply m, or none yet, and goes on.
LEMMA GotStep ==
    ASSUME IndInv, NEW r \in Req, UNCHANGED <<static, config, container, cache, ask, held>>,
           NEW place \in Place, NEW m \in Reply \cup {FormatError, NoReply},
           Got(r, place, m),
           pc'[r] = place /\ res'[r] = m => QueryLink(r)'
    PROVE  IndInv'
<1>1. MovesTo(r, place, ask[r], m, held[r])
  BY Stays DEF Got, Goto, MovesTo
<1>2. QueryLink(r)'
  BY <1>1, Moved
<1>3. HeldLink(r)'
  BY DEF IndInv, HeldLink, Configured
<1>4. held[r] \in SUBSET RecordType /\ ask[r] \in Asked[r] \cup {None}
  BY DEF IndInv, TypeOK
<1> QED
  BY <1>1, <1>2, <1>3, <1>4, QueryStepNoPut

\* A query that has its question goes on to `place' without a reply.
LEMMA GotoStep ==
    ASSUME IndInv, NEW r \in Req,
           UNCHANGED <<static, config, container, cache, ask, res, held>>,
           NEW place \in {"resolve", "resolveA", "exchange"},
           Goto(r, place), ask[r] \in Asked[r], res[r] = NoReply,
           place = "resolveA" => ask[r].type = "AAAA" /\ "AAAA" \notin held[r],
           place = "exchange" => held[r] = {}
    PROVE  IndInv'
<1>1. Got(r, place, NoReply)
  BY Stays DEF Got, Goto
<1>2. pc'[r] = place => QueryLink(r)'
  BY DEF QueryLink
<1> QED
  BY <1>1, <1>2, GotStep DEF Place

\* A query that has its question gets an answer to it and goes on to `place'.
LEMMA AnsweredStep ==
    ASSUME IndInv, NEW r \in Req, UNCHANGED <<static, config, container, cache, ask, held>>,
           NEW place \in {"put", "reply"}, NEW m \in Reply,
           Got(r, place, m), ask[r] \in Asked[r],
           CacheKey(m.of) = CacheKey(ask[r]), \A t \in m.ttls : m.age <= t,
           ask[r].type \in held[r] => m.hit \/ m.value # NotFound
    PROVE  IndInv'
<1>1. pc'[r] = place /\ res'[r] = m => QueryLink(r)'
  BY DEF QueryLink, ReplyLink, CacheKey
<1> QED
  BY <1>1, GotStep DEF Place

LEMMA CacheGetStep ==
    ASSUME IndInv, NEW r \in Req, CacheGet(r)
    PROVE  IndInv'
<1> DEFINE k == CacheKey(ask[r])
<1>1. ask[r] \in Asked[r] /\ res[r] = NoReply /\ ask[r] \in Question
  BY DnsAssumption DEF IndInv, QueryLink, CacheGet
<1>2. CASE Fresh(k) /\ Got(r, "reply", FromCache(k))
  <2> DEFINE e == cache[k]
             m == FromCache(k)
  <2>1. e \in Entry /\ CacheKey(e.res.of) = k /\ e.age <= e.ttl /\ \A t \in e.res.ttls : e.ttl <= t
    BY <1>2 DEF IndInv, TypeOK, CacheLink, Fresh
  <2>2. e.age \in TTL /\ \A t \in e.res.ttls : e.age <= t
    BY <2>1, DnsAssumption DEF Entry, Reply, TTL
  <2>3. m \in Reply /\ CacheKey(m.of) = k /\ m.ttls = e.res.ttls /\ m.age = e.age /\ m.hit
    BY <2>1, <2>2 DEF FromCache, Entry, Reply, Rcode
  <2>4. UNCHANGED <<static, config, container, cache, ask, held>>
    BY DEF CacheGet
  <2> HIDE DEF m
  <2> QED
    BY <1>1, <1>2, <2>1, <2>2, <2>3, <2>4, AnsweredStep DEF m
<1>3. CASE ask[r].type \notin RecordType /\ Got(r, "reply", NotFoundReply(ask[r]))
  <2>1. ask[r].type \notin held[r]
    BY <1>3 DEF IndInv, TypeOK
  <2> QED
    BY <1>1, <1>3, <2>1, NotFoundType, AnsweredStep DEF CacheGet
<1>4. CASE Goto(r, "resolve") /\ UNCHANGED res
  BY <1>1, <1>4, GotoStep DEF CacheGet
<1> QED
  BY <1>2, <1>3, <1>4 DEF CacheGet

\* A query that holds no type it is decided by may be forwarded.
LEMMA ParentStep ==
    ASSUME IndInv, NEW r \in Req, UNCHANGED <<static, config, container, cache, ask, held>>,
           ask[r] \in Asked[r], res[r] = NoReply, held[r] = {}, Parent(r)
    PROVE  IndInv'
<1>1. ask[r] \in Question
  BY DnsAssumption
<1>2. CASE Goto(r, "exchange") /\ UNCHANGED res
  BY <1>2, GotoStep
<1>3. CASE Got(r, "put", NotFoundReply(ask[r]))
  BY <1>1, <1>3, NotFoundType, AnsweredStep
<1> QED
  BY <1>2, <1>3 DEF Parent

\* A type that a lookup does not find is not held.
LEMMA NotFoundNotHeld ==
    ASSUME IndInv, NEW r \in Req, NEW t,
           ResolveDomain(<<Canonical[ask[r].name], t>>) = NotFound
    PROVE  t \notin held[r]
<1>1. SUFFICES ASSUME t \in held[r] PROVE FALSE
  OBVIOUS
<1>2. ask[r] \in Question /\ t \in Configured(ask[r], config)
  BY <1>1, DnsAssumption DEF IndInv, HeldLink
<1> QED
  BY <1>2, ConfiguredResolves

\* What is held is among the types that decide the question.
LEMMA HeldDecisive ==
    ASSUME IndInv, NEW r \in Req
    PROVE  held[r] \subseteq Decisive(ask[r])
<1>1. ASSUME NEW t \in held[r] PROVE t \in Decisive(ask[r])
  BY DEF IndInv, HeldLink, Configured
<1> QED
  BY <1>1

\* What a lookup finds is a value.
LEMMA ResolveType ==
    ASSUME IndInv, NEW k
    PROVE  ResolveDomain(k) \in Value \cup {NotFound}
BY DEF IndInv, TypeOK, ResolveDomain, ResolveDynamic

LEMMA FoundStep ==
    ASSUME IndInv, NEW r \in Req, UNCHANGED <<static, config, container, cache, ask, held>>,
           ask[r] \in Asked[r], NEW v \in Value, Found(r, v)
    PROVE  IndInv'
<1> DEFINE m == Answer(ask[r], "NOERROR", v, {DefaultResponseTTL}, {})
<1>1. ask[r] \in Question /\ v # NotFound /\ {DefaultResponseTTL} \in SUBSET TTL
  BY DnsAssumption DEF TTL
<1>2. "NOERROR" \in Rcode /\ {} \in SUBSET TTL
  BY DEF Rcode
<1>3. m \in Reply /\ m.of = ask[r] /\ m.value = v /\ \A t \in m.ttls : m.age <= t
  <2>1. 0 \in TTL /\ \A S \in SUBSET TTL : \A t \in S : 0 <= t
    BY DnsAssumption DEF TTL
  <2> QED
    BY <1>1, <1>2, <2>1 DEF Answer, Reply
<1>4. Got(r, "put", m)
  BY DEF Found
<1> HIDE DEF m
<1> QED
  BY <1>1, <1>3, <1>4, AnsweredStep

LEMMA ResolveStep ==
    ASSUME IndInv, NEW r \in Req, Resolve(r)
    PROVE  IndInv'
<1> DEFINE v == ResolveDomain(RecordKey(ask[r], ask[r].type))
<1>1. /\ ask[r] \in Asked[r] /\ res[r] = NoReply /\ ask[r].type # "AAAA"
      /\ UNCHANGED <<static, config, container, cache>>
  BY DEF IndInv, QueryLink, Resolve
<1>2. CASE v # NotFound /\ Found(r, v) /\ UNCHANGED <<ask, held>>
  BY <1>1, <1>2, ResolveType, FoundStep
<1>3. CASE Done(r)
  BY <1>1, <1>3, DoneStep
<1>4. CASE v = NotFound /\ Parent(r) /\ UNCHANGED <<ask, held>>
  <2>1. held[r] = {}
    BY <1>1, <1>4, NotFoundNotHeld, HeldDecisive DEF RecordKey, Decisive
  <2> QED
    BY <1>1, <1>4, <2>1, ParentStep
<1> QED
  BY <1>2, <1>3, <1>4 DEF Resolve

LEMMA ResolveAAAAStep ==
    ASSUME IndInv, NEW r \in Req, ResolveAAAA(r)
    PROVE  IndInv'
<1> DEFINE v == ResolveDomain(RecordKey(ask[r], ask[r].type))
<1>1. /\ ask[r] \in Asked[r] /\ res[r] = NoReply /\ ask[r].type = "AAAA"
      /\ UNCHANGED <<static, config, container, cache, ask, held>>
  BY DEF IndInv, QueryLink, ResolveAAAA
<1>2. CASE v # NotFound /\ Found(r, v)
  BY <1>1, <1>2, ResolveType, FoundStep
<1>3. CASE v = NotFound /\ Goto(r, "resolveA") /\ UNCHANGED res
  <2>1. "AAAA" \notin held[r]
    BY <1>1, <1>3, NotFoundNotHeld DEF RecordKey
  <2> QED
    BY <1>1, <1>3, <2>1, GotoStep
<1> QED
  BY <1>2, <1>3 DEF ResolveAAAA

LEMMA ResolveAStep ==
    ASSUME IndInv, NEW r \in Req, ResolveA(r)
    PROVE  IndInv'
<1> DEFINE v == ResolveDomain(RecordKey(ask[r], "A"))
<1>1. /\ ask[r] \in Asked[r] /\ res[r] = NoReply /\ ask[r] \in Question
      /\ ask[r].type = "AAAA" /\ "AAAA" \notin held[r]
      /\ UNCHANGED <<static, config, container, cache, ask, held>>
  BY DnsAssumption DEF IndInv, QueryLink, ResolveA
<1>2. CASE v # NotFound /\ Got(r, "put", NotFoundReply(ask[r]))
  BY <1>1, <1>2, NotFoundType, AnsweredStep
<1>3. CASE v = NotFound /\ Parent(r)
  <2>1. held[r] = {}
    BY <1>1, <1>3, NotFoundNotHeld, HeldDecisive DEF RecordKey, Decisive
  <2> QED
    BY <1>1, <1>3, <2>1, ParentStep
<1> QED
  BY <1>2, <1>3 DEF ResolveA

LEMMA ExchangeStep ==
    ASSUME IndInv, NEW r \in Req, NEW u \in UpstreamReply, Exchange(r, u)
    PROVE  IndInv'
<1> DEFINE m == Answer(ask[r], u.rcode, u.value, u.ttls, u.others)
<1>1. /\ ask[r] \in Asked[r] /\ held[r] = {} /\ ask[r] \in Question
      /\ UNCHANGED <<static, config, container, cache, ask, held>>
  BY DnsAssumption DEF IndInv, QueryLink, Exchange
<1>2. /\ u.rcode \in Rcode /\ u.value \in Value \cup {NotFound} /\ u.ttls \in SUBSET TTL
      /\ u.others \in SUBSET TTL
  BY DnsAssumption
<1>3. m \in Reply /\ m.of = ask[r] /\ \A t \in m.ttls : m.age <= t
  <2>1. 0 \in TTL /\ \A S \in SUBSET TTL : \A t \in S : 0 <= t
    BY DnsAssumption DEF TTL
  <2> QED
    BY <1>1, <1>2, <2>1 DEF Answer, Reply
<1>4. Got(r, "put", m)
  BY DEF Exchange
<1> HIDE DEF m
<1> QED
  BY <1>1, <1>3, <1>4, AnsweredStep

LEMMA CachePutStep ==
    ASSUME IndInv, NEW r \in Req, CachePut(r)
    PROVE  IndInv'
<1> DEFINE k == CacheKey(ask[r])
           ttl == CacheTTL(res[r].ttls)
           e == [res |-> res[r], age |-> 0, ttl |-> ttl]
<1>1. ReplyLink(r) /\ ask[r] \in Question
  BY DnsAssumption DEF IndInv, QueryLink, CachePut, ReplyLink
<1>2. k \in Key /\ res[r] \in Reply /\ res[r].ttls \in SUBSET TTL /\ CacheKey(res[r].of) = k
  BY <1>1, DnsAssumption DEF ReplyLink, CacheKey, Key, Question, Reply
<1>3. ttl \in TTL /\ (ttl # 0 => \A t \in res[r].ttls : ttl <= t)
  BY <1>2, CacheTTLProperty
<1>4. cache' = IF ttl = 0 THEN cache
               ELSE [j \in DOMAIN cache \cup {k} |-> IF j = k THEN e ELSE cache[j]]
  BY DEF CachePut
<1>5. e \in Entry /\ e.age <= e.ttl + 1 /\ e.res = res[r] /\ e.ttl = ttl
  BY <1>2, <1>3, DnsAssumption DEF Entry, TTL
<1>6. CacheTypeOK /\ CacheLink
  BY DEF IndInv, TypeOK, CacheTypeOK
<1> HIDE DEF k, ttl, e
<1>7. CacheTypeOK' /\ CacheLink'
  BY <1>2, <1>3, <1>4, <1>5, <1>6 DEF CacheTypeOK, CacheLink
<1>8. MovesTo(r, "reply", ask[r], res[r], held[r])
  BY Stays DEF CachePut, Goto, MovesTo
<1>9. pc'[r] = "reply" /\ ask'[r] = ask[r] /\ res'[r] = res[r] /\ held'[r] = held[r]
  BY <1>8, Moved
<1>10. QueryLink(r)' /\ HeldLink(r)'
  <2>1. ReplyLink(r)'
    BY <1>1, <1>9 DEF ReplyLink, CacheKey
  <2>2. HeldLink(r)'
    BY <1>9 DEF IndInv, HeldLink, Configured, CachePut
  <2> QED
    BY <2>1, <2>2, <1>9 DEF QueryLink
<1>11. ask[r] \in Asked[r] /\ held[r] \in SUBSET RecordType
  BY <1>1 DEF IndInv, TypeOK, ReplyLink
<1> QED
  BY <1>2, <1>7, <1>8, <1>10, <1>11, QueryStep DEF Place, CachePut

\* The rules are replaced as a whole: queries under way keep of what they hold
\* what the new rules configure too.
LEMMA OnChangeStep ==
    ASSUME IndInv, NEW rules \in DynamicRules, OnChange(rules)
    PROVE  IndInv'
<1>1. /\ ~Malformed(rules) /\ config' = rules /\ container' \in Loads[rules]
      /\ UNCHANGED <<static, cache, pc, ask, res>>
      /\ held' = [r \in Req |-> IF ask[r] = None THEN {}
                                ELSE held[r] \cap Configured(ask[r], rules)]
  BY DEF OnChange
<1>2. DOMAIN container' \subseteq Key /\ \A k \in DOMAIN container' : container'[k] \in Value
  BY <1>1, LoadsProperty
<1>3. \A r \in Req : held'[r] \subseteq held[r]
  BY <1>1
<1>4. TypeOK' /\ (ask \in [Req -> Question \cup {None}])'
  BY <1>1, <1>2, <1>3 DEF IndInv, TypeOK
<1>5. RulesLink' /\ CacheLink'
  BY <1>1 DEF IndInv, RulesLink, CacheLink, Malformed
<1>6. ASSUME NEW r \in Req PROVE QueryLink(r)' /\ HeldLink(r)'
  <2>1. QueryLink(r) /\ HeldLink(r)
    BY DEF IndInv
  <2>2. QueryLink(r)'
    BY <1>1, <1>3, <2>1 DEF QueryLink, ReplyLink, CacheKey
  <2>3. HeldLink(r)'
    BY <1>1, <1>3, <2>1 DEF HeldLink, Configured
  <2> QED
    BY <2>2, <2>3
<1> QED
  BY <1>4, <1>5, <1>6 DEF IndInv

\* The steps of the cache alone.
LEMMA CacheStep ==
    ASSUME IndInv, UNCHANGED <<static, config, container, queryVars>>,
           CacheTypeOK', CacheLink'
    PROVE  IndInv'
<1>1. TypeOK' /\ (ask \in [Req -> Question \cup {None}])' /\ RulesLink'
  BY DEF IndInv, TypeOK, CacheTypeOK, RulesLink, Malformed, queryVars
<1>2. ASSUME NEW r \in Req PROVE QueryLink(r)' /\ HeldLink(r)'
  BY DEF IndInv, QueryLink, ReplyLink, HeldLink, Configured, CacheKey, queryVars
<1> QED
  BY <1>1, <1>2 DEF IndInv

LEMMA CleanupJobStep ==
    ASSUME IndInv, CleanupJob
    PROVE  IndInv'
<1>1. CacheTypeOK' /\ CacheLink'
  BY DEF IndInv, TypeOK, CacheTypeOK, CacheLink, CleanupJob
<1> QED
  BY <1>1, CacheStep DEF CleanupJob

LEMMA TickStep ==
    ASSUME IndInv, Tick
    PROVE  IndInv'
<1>1. DOMAIN cache' = DOMAIN cache
  BY DEF Tick
<1>2. ASSUME NEW k \in DOMAIN cache
      PROVE  /\ cache'[k] \in Entry /\ cache'[k].age <= cache'[k].ttl + 1
             /\ cache'[k].res = cache[k].res /\ cache'[k].ttl = cache[k].ttl
  <2>1. cache[k] \in Entry /\ cache[k].age <= cache[k].ttl + 1
    BY DEF IndInv, TypeOK
  <2>2. cache[k].ttl \in Nat
    BY <2>1, DnsAssumption DEF Entry, TTL
  <2>3. CASE Fresh(k)
    <3>1. cache'[k] = [cache[k] EXCEPT !.age = @ + 1]
      BY <2>3 DEF Tick
    <3>2. cache[k].age + 1 \in Nat /\ cache[k].age + 1 <= cache[k].ttl + 1
      BY <2>1, <2>2, <2>3 DEF Fresh, Entry
    <3> QED
      BY <2>1, <3>1, <3>2 DEF Entry
  <2>4. CASE ~Fresh(k)
    BY <2>1, <2>4 DEF Tick
  <2> QED
    BY <2>3, <2>4
<1>3. CacheTypeOK' /\ CacheLink'
  BY <1>1, <1>2 DEF IndInv, TypeOK, CacheTypeOK, CacheLink
<1> QED
  BY <1>3, CacheStep DEF Tick

\* The state that main leaves when it starts the servers.
LEMMA InitInv == Init => IndInv
<1> SUFFICES ASSUME Init PROVE IndInv
  OBVIOUS
<1>1. RulesLink
  BY DEF Init, RulesLink
<1>2. DOMAIN static \subseteq Key /\ \A k \in DOMAIN static : static[k] \in Value
  BY <1>1, DnsAssumption, LoadsProperty DEF RulesLink
<1>3. DOMAIN container \subseteq Key /\ \A k \in DOMAIN container : container[k] \in Value
  BY <1>1, LoadsProperty DEF RulesLink
<1>4. DOMAIN cache = {}
  BY DEF Init, NoCache
<1>5. TypeOK /\ ask \in [Req -> Question \cup {None}]
  BY <1>1, <1>2, <1>3, <1>4 DEF TypeOK, RulesLink, Init
<1>6. CacheLink /\ \A r \in Req : QueryLink(r) /\ HeldLink(r)
  BY <1>4 DEF Init, CacheLink, QueryLink, HeldLink
<1> QED
  BY <1>1, <1>5, <1>6 DEF IndInv

\* CrashRestart leaves an initial state behind.
LEMMA CrashRestartStep == CrashRestart => IndInv'
<1>1. CrashRestart => Init'
  BY DEF CrashRestart, Init, Malformed
<1> QED
  BY <1>1, InitInv, PTL

LEMMA StepInv == IndInv /\ [Next]_vars => IndInv'
<1> SUFFICES ASSUME IndInv, [Next]_vars PROVE IndInv'
  OBVIOUS
<1>1. ASSUME NEW r \in Req, CacheGet(r) PROVE IndInv'
  BY <1>1, CacheGetStep
<1>2. ASSUME NEW r \in Req, Resolve(r) PROVE IndInv'
  BY <1>2, ResolveStep
<1>3. ASSUME NEW r \in Req, ResolveAAAA(r) PROVE IndInv'
  BY <1>3, ResolveAAAAStep
<1>4. ASSUME NEW r \in Req, ResolveA(r) PROVE IndInv'
  BY <1>4, ResolveAStep
<1>5. ASSUME NEW r \in Req, NEW u \in UpstreamReply, Exchange(r, u) PROVE IndInv'
  BY <1>5, ExchangeStep
<1>6. ASSUME NEW r \in Req, ExchangeFails(r) PROVE IndInv'
  BY <1>6, DoneStep DEF ExchangeFails
<1>7. ASSUME NEW r \in Req, CachePut(r) PROVE IndInv'
  BY <1>7, CachePutStep
<1>8. ASSUME NEW r \in Req, WriteMsg(r) PROVE IndInv'
  BY <1>8, DoneStep DEF WriteMsg
<1>9. ASSUME NEW r \in Req, ReceiveMany(r) PROVE IndInv'
  BY <1>9, ReceiveManyStep
<1>10. ASSUME NEW r \in Req, NEW q \in Asked[r], Receive(r, q) PROVE IndInv'
  BY <1>10, ReceiveStep
<1>11. ASSUME NEW rules \in DynamicRules, OnChange(rules) PROVE IndInv'
  BY <1>11, OnChangeStep
<1>12. CASE CleanupJob
  BY <1>12, CleanupJobStep
<1>13. CASE Tick
  BY <1>13, TickStep
<1>14. CASE CrashRestart
  BY <1>14, CrashRestartStep
<1>15. CASE UNCHANGED vars
  <2>1. UNCHANGED <<static, config, container, cache, queryVars>>
    BY <1>15 DEF vars
  <2>2. CacheTypeOK' /\ CacheLink'
    BY <2>1 DEF IndInv, TypeOK, CacheTypeOK, CacheLink
  <2> QED
    BY <2>1, <2>2, CacheStep
<1> QED
  BY <1>1, <1>2, <1>3, <1>4, <1>5, <1>6, <1>7, <1>8, <1>9, <1>10, <1>11, <1>12, <1>13,
     <1>14, <1>15 DEF Next, Query

-----------------------------------------------------------------------------
(***************************************************************************)
(* The theorems                                                            *)
(***************************************************************************)

LEMMA Inductive == Spec => []IndInv
<1>1. Init => IndInv
  BY InitInv
<1>2. IndInv /\ [Next]_vars => IndInv'
  BY StepInv
<1> QED
  BY <1>1, <1>2, PTL DEF Spec

\* The tables, the cache and every query are always of their types, and no
\* entry of the cache is ever older than a second past its time to live.
THEOREM Typing == Spec => []TypeOK
<1>1. IndInv => TypeOK
  BY DEF IndInv
<1> QED
  BY <1>1, Inductive, PTL

\* No reply served from the cache is older than the time to live of any of its
\* answer records, whatever replies of several lifetimes were cached in between
\* (checkHasValidTTL, Get).
THEOREM CacheRespectsTTL == Spec => []NeverServedExpired
<1>1. IndInv => NeverServedExpired
  <2> SUFFICES ASSUME IndInv, NEW r \in Req, Replied(r), NEW t \in res[r].ttls
               PROVE  res[r].age <= t
    BY DEF NeverServedExpired
  <2>1. ReplyLink(r)
    BY DEF IndInv, TypeOK, QueryLink, Replied
  <2> QED
    BY <2>1 DEF ReplyLink
<1> QED
  BY <1>1, Inductive, PTL

\* No query gets a reply that was made for another name or another type,
\* however queries share the cache (Cache.Get, Cache.Put).
THEOREM RepliesMatch == Spec => []AnswerMatchesQuestion
<1>1. IndInv => AnswerMatchesQuestion
  <2> SUFFICES ASSUME IndInv, NEW r \in Req, Replied(r)
               PROVE  /\ Canonical[res[r].of.name] = Canonical[ask[r].name]
                      /\ res[r].of.type = ask[r].type
    BY DEF AnswerMatchesQuestion
  <2>1. ReplyLink(r)
    BY DEF IndInv, TypeOK, QueryLink, Replied
  <2> QED
    BY <2>1 DEF ReplyLink, CacheKey
<1> QED
  BY <1>1, Inductive, PTL

\* A name that has one type all the time is answered from the rules, in all
\* the ways they may be replaced while the query looks up its types one after
\* the other, and never forwarded (process, ResolveDomain,
\* checkIfARecordExists).
THEOREM ConfiguredNeverLost == Spec => []ConfiguredIsAnswered
<1>1. IndInv => ConfiguredIsAnswered
  <2> SUFFICES ASSUME IndInv, NEW r \in Req
               PROVE  /\ pc[r] = "exchange" => held[r] = {}
                      /\ Replied(r) /\ ask[r].type \in held[r] =>
                             res[r].hit \/ res[r].value # NotFound
    BY DEF ConfiguredIsAnswered
  <2>1. pc[r] = "exchange" => held[r] = {}
    BY DEF IndInv, QueryLink
  <2>2. Replied(r) => ReplyLink(r)
    BY DEF IndInv, TypeOK, QueryLink, Replied
  <2> QED
    BY <2>1, <2>2 DEF ReplyLink
<1> QED
  BY <1>1, Inductive, PTL

=============================================================================

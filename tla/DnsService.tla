----------------------------- MODULE DnsService -----------------------------
(***************************************************************************)
(* The DNS service (internal/dnscore) with its two sources of records:     *)
(* the static rules that main stores in MemStore at startup and the        *)
(* dynamic rules of internal/dnsdyn, replaced as a whole whenever the      *)
(* configuration server announces a change.                                *)
(*                                                                         *)
(* Queries over UDP and over HTTP run ProcessDnsMsg concurrently.  Only    *)
(* the cache has a lock, held for one Get or Put: between a query's miss   *)
(* and its Put the rules may change and other queries may fill the cache.  *)
(* Time is the age of the cache entries, moved by Tick.                    *)
(***************************************************************************)
EXTENDS Naturals, FiniteSets

CONSTANTS
    Req,                 \* queries handled at a time
    Name,                \* names in lower case, with the final dot
    Spelling,            \* names and addresses as rules and questions write them
    Canonical,           \* dns.Fqdn(strings.ToLower(spelling))
    PtrFqdn,             \* FromIPAddressToPtrFqdn(spelling), or Invalid
    Invalid,
    Value, Undecodable,  \* what rules map names to; Undecodable is no JSON of an SRV record
    NotFound,            \* shared.ErrStorageNotFound
    StaticRules,         \* [dns.static_rule] of the configuration file
    DynamicRules,        \* the rule sets the configuration server may announce
    Asked,               \* the questions each of them may be for
    Upstream,            \* upstream_dns_servers is not empty
    UpstreamReply,       \* what the upstream server may answer
    Enclosure,           \* [upstream_dns] enclosure_domains
    Under, EndsWith,     \* <<x, d>>: name x ends in "." and d; x ends in d
    DefaultResponseTTL,
    MaxTTL               \* math.MaxUint32

RecordType == {"A", "TXT", "SRV", "PTR", "AAAA"}
QType      == RecordType \cup {"other"}
Class      == {"IN", "CH"}
Question   == [name : Spelling, type : QType, class : Class]
Rule       == [type : RecordType, key : Spelling, value : Value]

\* `bare': written with neither a first nor a final dot; `lower': in lower case.
EnclosureRule == [type : RecordType, domain : Name, lower : BOOLEAN, bare : BOOLEAN]

TTL   == 0..MaxTTL
Rcode == {"NOERROR", "NXDOMAIN", "FORMERR"}

\* A map of rules has one value for each spelling.
IsRuleMap(rules) ==
    /\ rules \subseteq Rule
    /\ \A r, s \in rules : r.type = s.type /\ r.key = s.key => r = s

Malformed(rules) == \E r \in rules : r.type = "PTR" /\ PtrFqdn[r.key] = Invalid

ASSUME DnsAssumption ==
    /\ Canonical \in [Spelling -> Name]
    /\ PtrFqdn \in [Spelling -> Name \cup {Invalid}] /\ Invalid \notin Name
    /\ Undecodable \in Value /\ NotFound \notin Value
    \* main panics on a malformed PTR rule and reads no AAAA rules
    /\ IsRuleMap(StaticRules) /\ ~Malformed(StaticRules)
    /\ \A r \in StaticRules : r.type # "AAAA"
    /\ \A rules \in DynamicRules : IsRuleMap(rules)
    /\ Asked \in [Req -> SUBSET Question]
    /\ Upstream \in BOOLEAN
    /\ UpstreamReply \subseteq [rcode : Rcode, value : Value \cup {NotFound}, ttls : SUBSET TTL,
                         others : SUBSET TTL]
    /\ Enclosure \subseteq EnclosureRule
    /\ Under \subseteq EndsWith
    /\ MaxTTL \in Nat /\ DefaultResponseTTL \in 1..(MaxTTL - 1)

VARIABLES
    static,     \* MemStore.staticDomainMapping
    config,     \* the dynamic rules that are loaded
    container,  \* DnsDynConfStore.container: the table made from them
    cache,      \* DnsMemCache.cache, with the age of every entry
    pc,         \* where each query is
    ask,        \* its question
    res,        \* the reply it has got
    held        \* history: types of Decisive the name had all through the query

queryVars == <<pc, ask, res, held>>
vars == <<static, config, container, cache, queryVars>>

\* `ttls' are the times to live of the records in m.Answer, `others' those of the
\* records in m.Ns and m.Extra, which only upstream replies have; `of' (history)
\* is the question the reply was made for, which SetReply replaces on a hit.
Reply == [rcode : Rcode, of : Question, value : Value \cup {NotFound},
          ttls : SUBSET TTL, others : SUBSET TTL, hit : BOOLEAN, age : TTL]

\* SetRcodeFormatError
FormatError == [rcode |-> "FORMERR"]

\* No query, and a query without a reply.
None    == NotFound
NoReply == NotFound

Key == Name \X QType
Entry == [res : Reply, age : Nat, ttl : TTL]

TypeOK ==
    /\ DOMAIN static \subseteq Key /\ \A k \in DOMAIN static : static[k] \in Value
    /\ config \in DynamicRules
    /\ DOMAIN container \subseteq Key /\ \A k \in DOMAIN container : container[k] \in Value
    /\ DOMAIN cache \subseteq Key
    /\ \A k \in DOMAIN cache : cache[k] \in Entry /\ cache[k].age <= cache[k].ttl + 1
    /\ pc \in [Req -> {"idle", "get", "resolve", "resolveA", "exchange", "put", "reply"}]
    /\ \A r \in Req : ask[r] \in Asked[r] \cup {None}
    /\ res \in [Req -> Reply \cup {FormatError, NoReply}]
    /\ held \in [Req -> SUBSET RecordType]

-----------------------------------------------------------------------------
(***************************************************************************)
(* The rules                                                               *)
(***************************************************************************)

\* Where PutDomain, AddIpReverseDnsToStorage and process store a rule.
TableKey(rule) ==
    <<IF rule.type = "PTR" THEN PtrFqdn[rule.key] ELSE Canonical[rule.key], rule.type>>

\* The tables that rules may load as: where two spellings meet, the one that Go
\* ranges over last stays.
Loads[rules \in DynamicRules \cup {StaticRules}] ==
    LET keys == {TableKey(r) : r \in rules}
    IN  {[k \in keys |-> last[k].value] :
            last \in {f \in [keys -> rules] : \A k \in keys : TableKey(f[k]) = k}}

\* DnsDynConfStore.ResolveDomain
ResolveDynamic(k) == IF k \in DOMAIN container THEN container[k] ELSE NotFound

\* MemStore.ResolveDomain: the nested store is asked for what is not static.
ResolveDomain(k) == IF k \in DOMAIN static THEN static[k] ELSE ResolveDynamic(k)

\* What the handlers look up for a question: the records of one type of its
\* name, in lower case.  Its class is not looked at.
RecordKey(q, t) == <<Canonical[q.name], t>>

\* The types that keep a question from being forwarded when its name has them.
Decisive(q) == {q.type} \cup IF q.type = "AAAA" THEN {"A"} ELSE {}

\* Those of them that the static rules and `rules' configure.
Configured(q, rules) ==
    {t \in Decisive(q) : \E r \in StaticRules \cup rules :
        r.type = t /\ (IF t = "PTR" THEN PtrFqdn[r.key] ELSE Canonical[r.key]) = Canonical[q.name]}

\* A bug to catch: the addresses of PTR rules are not validated.
OnChangeUnvalidated(rules) ==
    /\ config' = rules
    /\ container' \in Loads[rules]
    /\ UNCHANGED <<static, cache, queryVars>>

\* onChange and process: a malformed PTR rule panics before container.Store.
OnChange(rules) ==
    /\ ~Malformed(rules)
    /\ config' = rules
    /\ container' \in Loads[rules]
    /\ held' = [r \in Req |-> IF ask[r] = None THEN {}
                              ELSE held[r] \cap Configured(ask[r], rules)]
    /\ UNCHANGED <<static, cache, pc, ask, res>>

-----------------------------------------------------------------------------
(***************************************************************************)
(* The cache                                                               *)
(***************************************************************************)

\* A bug to catch: the type is left out of the key.
CacheKeyNoType(q) == <<Canonical[q.name], "A">>

\* cacheKey: the name in lower case and the type, not the class
CacheKey(q) == <<Canonical[q.name], q.type>>

\* A bug to catch: the last record decides.
CacheTTLMax(ttls) ==
    IF ttls = {} THEN 0 ELSE CHOOSE t \in ttls : \A u \in ttls : u <= t

\* checkHasValidTTL of the records in m.Answer, and of no others; 0 is not cached.
CacheTTL(ttls) ==
    LET ttl == CHOOSE t \in ttls \cup {MaxTTL} : \A u \in ttls : t <= u
    IN  IF ttl = MaxTTL THEN 0 ELSE ttl

Fresh(k) == k \in DOMAIN cache /\ cache[k].age <= cache[k].ttl

\* One pass of cleanupJob.
CleanupJob ==
    /\ \E k \in DOMAIN cache : ~Fresh(k)
    /\ cache' = [k \in {j \in DOMAIN cache : Fresh(j)} |-> cache[k]]
    /\ UNCHANGED <<static, config, container, queryVars>>

\* A second goes by.  An expired entry does not get any older.
Tick ==
    /\ cache' = [k \in DOMAIN cache |->
                    IF Fresh(k) THEN [cache[k] EXCEPT !.age = @ + 1] ELSE cache[k]]
    /\ UNCHANGED <<static, config, container, queryVars>>

-----------------------------------------------------------------------------
(***************************************************************************)
(* A query: ServeDNS or dnsQuery, and ProcessDnsMsg                        *)
(***************************************************************************)

Goto(r, place) == pc' = [pc EXCEPT ![r] = place]

\* The query has the reply m and is at `place'.
Got(r, place, m) == Goto(r, place) /\ res' = [res EXCEPT ![r] = m]

\* Nothing is known of the query any more.
Done(r) ==
    /\ Got(r, "idle", NoReply)
    /\ ask' = [ask EXCEPT ![r] = None]
    /\ held' = [held EXCEPT ![r] = {}]

\* A message of one question.  (Messages that dnsQuery refuses with a status of
\* 400 or 415, and those without a question, change nothing.)
Receive(r, q) ==
    /\ pc[r] = "idle"
    /\ Goto(r, "get")
    /\ ask' = [ask EXCEPT ![r] = q]
    /\ held' = [held EXCEPT ![r] = Configured(q, config)]
    /\ UNCHANGED <<static, config, container, cache, res>>

\* More than one question, over HTTP: the UDP server of the library lets no
\* such message pass.
ReceiveMany(r) ==
    /\ pc[r] = "idle"
    /\ Got(r, "reply", FormatError)
    /\ UNCHANGED <<static, config, container, cache, ask, held>>

Answer(q, rcode, value, ttls, others) ==
    [rcode |-> rcode, of |-> q, value |-> value, ttls |-> ttls, others |-> others,
     hit |-> FALSE, age |-> 0]

\* NotFoundUpstreamDns
NotFoundReply(q) ==
    Answer(q, IF q.type = "AAAA" THEN "NOERROR" ELSE "NXDOMAIN", NotFound, {}, {})

\* Cache.Get: the entry is copied with all of its sections, and SetReply makes
\* the code a success.
FromCache(k) ==
    [cache[k].res EXCEPT !.rcode = "NOERROR", !.hit = TRUE, !.age = cache[k].age]

\* A bug to catch: the time of an entry becomes the time of its last use.
CacheGetRenews(r) ==
    /\ pc[r] = "get"
    /\ LET k == CacheKey(ask[r])
       IN  \/ /\ Fresh(k)
              /\ Got(r, "reply", FromCache(k))
              /\ cache' = [cache EXCEPT ![k].age = 0]
           \/ ~Fresh(k) /\ ask[r].type \notin RecordType /\ Got(r, "reply", NotFoundReply(ask[r]))
              /\ UNCHANGED cache
           \/ ~Fresh(k) /\ ask[r].type \in RecordType /\ Goto(r, "resolve") /\ UNCHANGED <<res, cache>>
    /\ UNCHANGED <<static, config, container, ask, held>>

\* d.Cache.Get(r), and on a miss the handler of the type, if it has one
CacheGet(r) ==
    /\ pc[r] = "get"
    /\ LET k == CacheKey(ask[r])
       IN  \/ Fresh(k) /\ Got(r, "reply", FromCache(k))
           \/ ~Fresh(k) /\ ask[r].type \notin RecordType /\ Got(r, "reply", NotFoundReply(ask[r]))
           \/ ~Fresh(k) /\ ask[r].type \in RecordType /\ Goto(r, "resolve") /\ UNCHANGED res
    /\ UNCHANGED <<static, config, container, cache, ask, held>>

\* handleEnclosureDomains; the name is in lower case, the rules are as written.
Enclosed(n, t) ==
    \E e \in Enclosure :
        /\ e.type = t /\ e.lower
        /\ <<n, e.domain>> \in IF e.bare THEN EndsWith ELSE Under

\* ParentRecordHandler, and UpstreamDns up to the exchange
Parent(r) ==
    IF Upstream /\ ~Enclosed(Canonical[ask[r].name], ask[r].type)
    THEN Goto(r, "exchange") /\ UNCHANGED res
    ELSE Got(r, "put", NotFoundReply(ask[r]))

\* The handler has found a record.
Found(r, v) == Got(r, "put", Answer(ask[r], "NOERROR", v, {DefaultResponseTTL}, {}))

\* HandleQuestion for all types but AAAA: an SRV record that it cannot decode is
\* an error, on which ProcessDnsMsg panics.
Resolve(r) ==
    /\ pc[r] = "resolve" /\ ask[r].type # "AAAA"
    /\ LET v == ResolveDomain(RecordKey(ask[r], ask[r].type))
           broken == ask[r].type = "SRV" /\ v = Undecodable
       IN  \/ v # NotFound /\ ~broken /\ Found(r, v) /\ UNCHANGED <<ask, held>>
           \/ broken                    /\ Done(r)
           \/ v = NotFound             /\ Parent(r)   /\ UNCHANGED <<ask, held>>
    /\ UNCHANGED <<static, config, container, cache>>

\* HandleQuestion for AAAA records up to the result of the first lookup
ResolveAAAA(r) ==
    /\ pc[r] = "resolve" /\ ask[r].type = "AAAA"
    /\ LET v == ResolveDomain(RecordKey(ask[r], ask[r].type))
       IN  \/ v # NotFound /\ Found(r, v)
           \/ v = NotFound /\ Goto(r, "resolveA") /\ UNCHANGED res
    /\ UNCHANGED <<static, config, container, cache, ask, held>>

\* A bug to catch: a name without an AAAA record is asked upstream.
ResolveANoCheck(r) ==
    /\ pc[r] = "resolveA"
    /\ Parent(r)
    /\ UNCHANGED <<static, config, container, cache, ask, held>>

\* checkIfARecordExists: a lookup of its own
ResolveA(r) ==
    /\ pc[r] = "resolveA"
    /\ IF ResolveDomain(RecordKey(ask[r], "A")) # NotFound
       THEN Got(r, "put", NotFoundReply(ask[r]))
       ELSE Parent(r)
    /\ UNCHANGED <<static, config, container, cache, ask, held>>

\* dns.Exchange returns a message,
Exchange(r, u) ==
    /\ pc[r] = "exchange"
    /\ Got(r, "put", Answer(ask[r], u.rcode, u.value, u.ttls, u.others))
    /\ UNCHANGED <<static, config, container, cache, ask, held>>

\* or an error, after its timeout at the latest: ProcessDnsMsg panics.
ExchangeFails(r) ==
    /\ pc[r] = "exchange"
    /\ Done(r)
    /\ UNCHANGED <<static, config, container, cache>>

\* d.Cache.Put(r, res)
CachePut(r) ==
    /\ pc[r] = "put"
    /\ Goto(r, "reply")
    /\ LET k == CacheKey(ask[r])
           ttl == CacheTTL(res[r].ttls)
       IN  cache' = IF ttl = 0 THEN cache
                    ELSE [j \in DOMAIN cache \cup {k} |->
                             IF j = k THEN [res |-> res[r], age |-> 0, ttl |-> ttl] ELSE cache[j]]
    /\ UNCHANGED <<static, config, container, ask, res, held>>

\* w.WriteMsg(reply), or w.Write(replyBin)
WriteMsg(r) ==
    /\ pc[r] = "reply"
    /\ Done(r)
    /\ UNCHANGED <<static, config, container, cache>>

-----------------------------------------------------------------------------
NoCache == [k \in {} |-> NotFound]

\* main stores the static rules; Startup returns once a configuration is loaded.
Init ==
    /\ static \in Loads[StaticRules]
    /\ config \in {rules \in DynamicRules : ~Malformed(rules)}
    /\ container \in Loads[config]
    /\ cache = NoCache
    /\ pc   = [r \in Req |-> "idle"]
    /\ ask  = [r \in Req |-> None]
    /\ res  = [r \in Req |-> NoReply]
    /\ held = [r \in Req |-> {}]

\* The process ends and is started again.
CrashRestart ==
    /\ static' \in Loads[StaticRules]
    /\ config' \in {rules \in DynamicRules : ~Malformed(rules)}
    /\ container' \in Loads[config']
    /\ cache' = NoCache
    /\ pc'   = [r \in Req |-> "idle"]
    /\ ask'  = [r \in Req |-> None]
    /\ res'  = [r \in Req |-> NoReply]
    /\ held' = [r \in Req |-> {}]

Query(r) ==
    \/ CacheGet(r) \/ Resolve(r) \/ ResolveAAAA(r) \/ ResolveA(r)
    \/ (\E u \in UpstreamReply : Exchange(r, u)) \/ ExchangeFails(r)
    \/ CachePut(r) \/ WriteMsg(r)

Next ==
    \/ \E r \in Req : Query(r) \/ ReceiveMany(r) \/ \E q \in Asked[r] : Receive(r, q)
    \/ \E rules \in DynamicRules : OnChange(rules)
    \/ CleanupJob \/ Tick \/ CrashRestart

Spec == Init /\ [][Next]_vars

\* Queries go on, dns.Exchange has a timeout, and time passes.
Fairness == WF_vars(Tick) /\ \A r \in Req : WF_vars(Query(r))

FairSpec == Spec /\ Fairness

-----------------------------------------------------------------------------
(***************************************************************************)
(* Properties                                                              *)
(***************************************************************************)

Replied(r) == ask[r] # None /\ res[r] # NoReply

\* No answer record is served from the cache for longer than its own time to
\* live, when a reply holds records of several (checkHasValidTTL, Get).  Nothing
\* of the kind is true of the authority and additional records (`others'): the
\* copy that Get serves has them, and the time of an entry ignores them.
NeverServedExpired ==
    \A r \in Req : Replied(r) => \A t \in res[r].ttls : res[r].age <= t

\* A reply answers the question of its own query, however queries for other
\* types and names fill the cache in between: it was made for the same name, in
\* whatever case, and the same type (cacheKey).  The class may be another one.
AnswerMatchesQuestion ==
    \A r \in Req : Replied(r) =>
        /\ Canonical[res[r].of.name] = Canonical[ask[r].name]
        /\ res[r].of.type = ask[r].type

\* A name that is configured all the time is never lost while the rules are
\* replaced (process, ResolveDomain): a query that misses the cache is answered
\* from the rules, under every spelling of them, and is not forwarded, and
\* neither is one for AAAA when there is an A record all the time.  Each type
\* counts for itself: rules that have the A record before and the AAAA record
\* after a change may show neither to the two lookups of one query ("A and AAAA
\* records have to be configured together at all time", handlers.aaaa.go).
ConfiguredIsAnswered ==
    \A r \in Req :
        /\ pc[r] = "exchange" => held[r] = {}
        /\ Replied(r) /\ ask[r].type \in held[r] =>
               res[r].hit \/ res[r].value # NotFound

\* Stale answers go away: when the rules no longer change, every reply to a
\* question they configure carries in the end what they say now, although
\* replies made from the old rules are cached, and cached late by queries that
\* were under way.
EventuallyCurrent ==
    <>[][UNCHANGED <<static, container>>]_vars =>
        <>[](\A r \in Req :
                LET now == ResolveDomain(RecordKey(ask[r], ask[r].type))
                IN  pc[r] = "reply" /\ Replied(r) /\ now # NotFound => res[r].value = now)

\* "domains with specific suffixes will not be leaked to upstream" (README): no
\* query for an enclosure domain, or a name under it, is forwarded.
EnclosureNotLeaked ==
    \A r \in Req : pc[r] = "exchange" =>
        \A e \in Enclosure : e.type = ask[r].type =>
            LET n == Canonical[ask[r].name] IN n # e.domain /\ <<n, e.domain>> \notin Under
=============================================================================

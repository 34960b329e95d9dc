---------------------------- MODULE MCDnsService ----------------------------
\* Small instances of DnsService.
EXTENDS DnsService, TLC

CONSTANTS web, corp, rev, WEB, CORP, ip, noip, v1, v2, up, r1, r2

\* Two spellings of each of two names; the addresses are no names.
SpellingsOf ==
    (web :> web) @@ (WEB :> web) @@ (corp :> corp) @@ (CORP :> corp)
    @@ (rev :> rev) @@ (ip :> ip) @@ (noip :> noip)

PtrNames == [s \in Spelling |-> IF s = ip THEN rev ELSE Invalid]

Is(t, k, v) == [type |-> t, key |-> k, value |-> v]

BrokenSrv == {Is("SRV", web, Undecodable)}

\* An A record under two spellings; A and AAAA, and an SRV record that the static
\* one hides; AAAA alone; malformed.
WebRules ==
    { {Is("A", web, v1), Is("A", WEB, v2)},
      {Is("A", WEB, v2), Is("AAAA", web, v2), Is("SRV", WEB, v1), Is("PTR", ip, v1)},
      {Is("PTR", ip, v1), Is("AAAA", WEB, v2)},
      {Is("A", web, v1), Is("PTR", noip, v1)} }

NoRules == {{}}

Of(n, t, c) == [name |-> n, type |-> t, class |-> c]

\* Two spellings and classes of one name and type share an entry of the cache.
WebQuestions ==
    (r1 :> {Of(web, "A", "IN"), Of(WEB, "AAAA", "IN")})
    @@ (r2 :> {Of(WEB, "A", "CH"), Of(web, "SRV", "IN"), Of(web, "TXT", "IN"),
               Of(web, "other", "IN")})

CorpQuestions == [r \in Req |-> {Of(CORP, "A", "IN"), Of(web, "A", "IN")}]

\* Answer records of two lifetimes, and an additional one that nobody may keep.
Replies == {[rcode |-> "NOERROR", value |-> up, ttls |-> {1, 2}, others |-> {0}]}

\* corp, with a capital letter.
CapitalRule == {[type |-> "A", domain |-> corp, lower |-> FALSE, bare |-> TRUE]}

WebRule == {[type |-> "TXT", domain |-> web, lower |-> TRUE, bare |-> TRUE]}

Itself == {<<n, n>> : n \in Name}
=============================================================================

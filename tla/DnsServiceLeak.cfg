CONSTANTS
    web = web  corp = corp  rev = rev  WEB = WEB  CORP = CORP  ip = ip  noip = noip
    v1 = v1  v2 = v2  up = up  r1 = r1  r2 = r2
    Req = {r1, r2}
    Name = {web, corp, rev, ip, noip}
    Spelling = {web, WEB, corp, CORP, rev, ip, noip}
    Canonical <- SpellingsOf
    PtrFqdn <- PtrNames
    Invalid = Invalid
    Value = {v1, v2, up, Undecodable}
    Undecodable = Undecodable
    NotFound = NotFound
    StaticRules = {}
    DynamicRules <- NoRules
    Asked <- CorpQuestions
    Upstream = TRUE
    UpstreamReply <- Replies
    Enclosure <- CapitalRule
    Under = {}
    EndsWith <- Itself
    DefaultResponseTTL = 1
    MaxTTL = 3
SPECIFICATION Spec
INVARIANTS EnclosureNotLeaked

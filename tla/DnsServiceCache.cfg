CONSTANTS
    web = web  corp = corp  rev = rev  WEB = WEB  CORP = CORP  ip = ip  noip = noip
    v1 = v1  v2 = v2  up = up  r1 = r1  r2 = r2
    Req = {r1, r2}
    Name = {web, corp, rev, ip, noip}
    Spelling = {web, WEB, corp, CORP, rev, ip, noip}
    Canonical <- SpellingsOf
    PtrFqdn <- PtrNames
    Invalid = Invalid
    Value = {v1, v2, up, Undecodable}
    Undecodable = Undecodable
    NotFound = NotFound
    StaticRules <- BrokenSrv
    DynamicRules <- WebRules
    Asked <- WebQuestions
    Upstream = TRUE
    UpstreamReply <- Replies
    Enclosure <- WebRule
    Under = {}
    EndsWith <- Itself
    DefaultResponseTTL = 1
    MaxTTL = 3
SPECIFICATION FairSpec
INVARIANTS TypeOK NeverServedExpired AnswerMatchesQuestion ConfiguredIsAnswered
PROPERTIES EventuallyCurrent

CONSTANTS
    c1 = c1
    c2 = c2
    m1 = m1
    m2 = m2
    Callers = {c1, c2}
    Events = {e1, e2}
    Members = {m1, m2}
    TTL = 1
    FetchTime = 1
    MaxFetches = 1
    MaxCached = 1
    MaxTime = 2
    Nobody = Nobody
SPECIFICATION FairSpec
INVARIANTS
    TypeOK
    OutboundBounded
    NoNeedlessFanOut
    AnswersAreRecent
PROPERTIES
    WaitersAreAnswered

CONSTANTS
    r = r
    q = q
    o = o
    t1 = t1
    People = {r, q, o}
    Required = {r}
    NumSlots = 2
    Unsociable <- AlwaysSociable
    Affinity <- EarlyAffinity
    Submissions <- NearTies
    Tabs = {t1}
SYMMETRY Symmetry
SPECIFICATION DSpec
INVARIANTS
    DTypeOK
    StandingVetoRespected
    DecidableIsExact
    RankingFitsVerdict
    WinnersArePossible
CHECK_DEADLOCK FALSE

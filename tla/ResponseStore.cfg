CONSTANTS
    s1 = 1
    s2 = 2
    Slots = {1, 2}
    Requests = {r1, r2, r3}
    NoOne = NoOne
    Sweep = Sweep
    Submissions <- MCSubmissions
    Feeds <- MCFeeds
SYMMETRY AlikeRequests
SPECIFICATION Spec
INVARIANTS
    TypeOK
    NoTornSave
    NothingAfterPurge
    RefusedByOverlapOnly
    DisconnectIsFinal
PROPERTIES
    ImplementsAnswers
CHECK_DEADLOCK FALSE

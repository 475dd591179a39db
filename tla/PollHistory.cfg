CONSTANTS
    r = r
    o = o
    q = q
    u = u
    People = {r, o, q, u}
    Required = {r}
    NumSlots = 3
    Unsociable <- AlwaysSociable
    Affinity <- EarlyAffinity
    Submissions <- LaterIsBetter
SYMMETRY SymmetryOfFour
SPECIFICATION Spec
INVARIANTS
    HistoryNeverOverturns

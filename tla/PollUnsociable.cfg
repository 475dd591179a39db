CONSTANTS
    r = r
    o = o
    q = q
    u = u
    People = {r, o, q}
    Required = {r}
    NumSlots = 2
    Unsociable <- FirstUnsociable
    Affinity <- NoAffinity
    Submissions <- FullSubmissions
SPECIFICATION Spec
INVARIANTS
    DecidableStands

CONSTANTS
    old = old
    new = new
    Machines = {old, new}
    NoMachine = NoMachine
    Latest <- MCLatest
    Requests = {r1, r2}
    NoRequest = NoRequest
    Slugs = {s1}
    SlugAttempts = 2
    PurgeBatch = 1
    MaxFaults = 1
SPECIFICATION Spec
INVARIANTS
    TypeOK
    MigratedOnce
    SweptBeforeClosed
    LinksHold
PROPERTIES
    StopsEventually
    ExpiredAreDeleted

CONSTANTS
    a = a
    b = b
    a1 = a1
    b1 = b1
    q1 = q1
    q2 = q2
    q3 = q3
    q4 = q4
    Requests = {q1, q2, q3, q4}
    People = {a, b}
    Devices = {a1, b1}
    Owner <- TheOwner
    Name <- TheName
    Organizer = a
    FirstEvent = FirstEvent
    None = None
SYMMETRY Symmetry
SPECIFICATION Spec
INVARIANTS
    TypeOK
    OneSeatPerMember
    BlocksMatchFeed
    CallerIsHandedOwnSeat
CHECK_DEADLOCK FALSE

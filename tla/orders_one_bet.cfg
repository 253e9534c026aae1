\* Three callers on one bet, which may be approved again with another size.
SPECIFICATION Spec
CONSTANTS
    Bets = {b1}
    Sizes = {1, 2}
    Callers = {c1, c2, c3}
    None = None
    GoGate = "GO"
INVARIANTS
    TypeOK
    FillIsNotOverstated
    ReadAsClosedMeansClosed
PROPERTIES
    LockIsReleased

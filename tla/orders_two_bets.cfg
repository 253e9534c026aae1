\* Two bets whose orders meet in the ledger, the lock and the exchange.
SPECIFICATION Spec
CONSTANTS
    Bets = {b1, b2}
    Sizes = {1}
    Callers = {c1, c2}
    None = None
    GoGate = "GO"
SYMMETRY Symmetry
INVARIANTS
    AtMostOnePlacement
    SentOnlyAfterSubmitted
    IdBelongsToOrder
PROPERTIES
    ImplementsBetPlacement

\* An order created for one size and resumed, after client_factory failed,
\* with another.
SPECIFICATION Spec
CONSTANTS
    Bets = {b1}
    Sizes = {1, 2}
    Callers = {c1}
    None = None
    GoGate = "GO"
INVARIANTS
    ReconciledIsConfirmed

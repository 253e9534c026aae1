\* Two callers that reconcile and cancel one order without a lock.
SPECIFICATION Spec
CONSTANTS
    Bets = {b1}
    Sizes = {1}
    Callers = {c1, c2}
    None = None
    GoGate = "GO"
PROPERTIES
    TerminalIsFinal

\* Two processes that register and mature three matches, one of them a rematch.
SPECIFICATION Spec
CONSTANTS
    p = p
    q = q
    Pairs = {p, q}
    Starts = {1, 3}
    Horizon = 1
    Ratings = {r1, r2}
    Fixtures <- MCFixtures
    Callers = {c1, c2}
    None = None
    MaxTime = 4
SYMMETRY Symmetry
INVARIANTS
    TypeOK
    OnePredictionPerMatch
    PredictedBeforeTheMatch
    MaturedKeepsPrediction
    MaturedOnce

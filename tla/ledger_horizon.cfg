\* A fixture with matches on different days, the later one listed last.
SPECIFICATION Spec
CONSTANTS
    p = p
    q = q
    Pairs = {p, q}
    Starts = {1, 3}
    Horizon = 1
    Ratings = {r1}
    Fixtures <- MCFixtures
    Callers = {c1}
    None = None
    MaxTime = 4
INVARIANTS
    HorizonComplaintIsTrue

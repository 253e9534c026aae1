SPECIFICATION Spec
CONSTANTS
    e1 = e1
    Events = {e1, e2}
    Start <- MCStart
    Pair <- MCPair
    Competition <- MCCompetition
    Sides = {x, y}
    Games = {1}
    Collectors = {c1}
    SettlementJobs = {"weekly", "job"}
    SeriesWindow = 1
    Listed = 2
    MinDays = 1
    MinMatured = 1
    MinSignals = 2
    MinCompetitions = 2
    MaxGames = 1
    MaxCaptured = 2
    MaxUndecided = 1
    LastInstant = 4
    t1 = t1
    Teams = {t1, t2}
    Updates = {u1, u2}
    Sessions = {x, y}
    Versions = 2
    Regenerating = {"refresh", "backtest"}
    Players <- MCPlayers
    FirstIn <- MCFirstIn
    Nobody = Nobody
    Bets = {b1, b2}
    Settlers = {x, y}
    MaxRows = 3
    Fixtures = {f1, f2}
    Payloads = {p1}
    Runs = {x, y}
    Horizon = 1
    MaxCaptures = 2
    LastHour = 2
SYMMETRY Symmetry
INVARIANTS
    TypeOK
    LostOnlyToSettlement
    NoResultBeforeStart
    ResultFollowsSelection
    GateCountsEnough
    EachUpdateCountsOnce
    SuccessMeansRefreshed
    SettledTwiceOnlyByOverlap
    LatestIsComplete
PROPERTIES
    DecisionIsHonoured
\* The signals, the updates, the log of bets and the captures are bounded.
CHECK_DEADLOCK FALSE

\* The weekly refresh rewrites the ratings while backtest runs.
SPECIFICATION Spec
CONSTANTS
    Days = {1}
    Revisions = {r1}
    Times = {0}
    None = None
    Database = Database
    Games = {g1}
    Resolutions = {TRUE, FALSE}
    Scheduled = {"publish-snapshot", "backtest", "publish-freeze", "weekly"}
    Overlap = TRUE
    MaxReports = 1
    MaxManifests = 1
INVARIANTS
    ServedRatingsAreOutOfSample

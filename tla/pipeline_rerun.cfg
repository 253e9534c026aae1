\* publish-snapshot is run again for a snapshot it has archived.
SPECIFICATION Spec
CONSTANTS
    Days = {1}
    Revisions = {r1}
    Times = {0}
    None = None
    Database = Database
    Games = {g1}
    Resolutions = {TRUE, FALSE}
    Scheduled = {"publish-snapshot", "backtest", "publish-freeze"}
    Overlap = FALSE
    MaxReports = 2
    MaxManifests = 1
INVARIANTS
    GoodArchiveIsAccepted

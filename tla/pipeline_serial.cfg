\* Jobs one after the other, each of which may die anywhere.
SPECIFICATION Spec
CONSTANTS
    Days = {1, 2}
    Revisions = {r1}
    Times = {0}
    None = None
    Database = Database
    Games = {g1, g2}
    Resolutions = {TRUE, FALSE}
    Scheduled = {"publish-snapshot", "backtest", "publish-freeze", "weekly"}
    Overlap = FALSE
    MaxReports = 3
    MaxManifests = 2
INVARIANTS
    TypeOK
    PublishedFreezeLoads
    MetadataBelongToPayload
    SealedRunIsOfTheSnapshot
    EnvelopesNameTheirSource

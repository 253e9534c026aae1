\* Jobs that interleave and may die anywhere.
SPECIFICATION Spec
CONSTANTS
    Days = {1, 2}
    Revisions = {r1}
    Times = {0}
    None = None
    Database = Database
    Games = {g1}
    Resolutions = {TRUE}
    Scheduled = {"publish-snapshot", "backtest", "publish-freeze"}
    Overlap = TRUE
    MaxReports = 2
    MaxManifests = 2
INVARIANTS
    SealedFreezeIsCanonical
    ServedRatingsAreOutOfSample
PROPERTIES
    SkippedIsAsSealed
    FreezesAreImmutable
    ServingNeverGoesBack

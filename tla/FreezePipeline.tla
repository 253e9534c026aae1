--------------------------- MODULE FreezePipeline ---------------------------
(***************************************************************************)
(* From a published snapshot to the freeze that serves predictions: the    *)
(* jobs publish-snapshot, backtest and publish-freeze                      *)
(* (src/src/operations.py, collection_shadow.py, freeze.py), the           *)
(* walk-forward script that backtest and the weekly refresh both run, and  *)
(* the check that serving makes.                                           *)
(*                                                                         *)
(* The jobs are separate processes that share the files under data/; no    *)
(* lock covers two of them (src/jobs.json), so with Overlap they           *)
(* interleave, and without it they run one after the other.  A job may die *)
(* or fail between any two steps.  The snapshot store appears as           *)
(* SnapshotHistory, which SnapshotStore implements.                        *)
(*                                                                         *)
(* Of the writers of ratings.json the sessions of EloModel.update_ratings  *)
(* (src/src/model.py) are left out: they are in RatingsFile.               *)
(*                                                                         *)
(* A hash is the thing it is taken of.  Configuration, identity maps,      *)
(* governance files and code are taken to be as they are for good; so are  *)
(* snapshots fresh, until a job fails because they are not.                *)
(***************************************************************************)
EXTENDS SnapshotHistory, FiniteSets

CONSTANTS
    Games,          \* games every payload has
    Resolutions,    \* do the teams of a game resolve to identities of the registry?
    Database,       \* lol.db, which grows with every ingested game
    Scheduled,      \* the jobs that are run; "weekly" is the one of old set-ups
    Overlap,        \* may jobs run at the same time?
    MaxReports,     \* bound: publish-snapshot runs
    MaxManifests    \* bound: backtest manifests

ASSUME ScheduleAssumption ==
    /\ Scheduled \subseteq {"publish-snapshot", "backtest", "publish-freeze", "weekly"}
    /\ Overlap \in BOOLEAN
ASSUME BoundsAssumption == MaxReports \in Nat /\ MaxManifests \in Nat
ASSUME DatabaseAssumption == Database \notin Content
ASSUME ResolutionsAssumption == Resolutions \subseteq BOOLEAN
ASSUME GamesAssumption == IsFiniteSet(Games)

VARIABLES
    archive,     \* collection_archive/events.jsonl
    report,      \* collection_archive/latest_run.json
    ratings,     \* data/ratings.json
    summary,     \* data/calibration.json and data/walkforward_summary.json
    manifest,    \* data/backtest_manifest.json
    processed,   \* .idem_state/backtest.json: the input of the last success
    freezes,     \* data/freezes/<id>: one for each backtest manifest
    serving,     \* data/current_freeze.json: the freeze it names
    job          \* what each job is doing, with its locals

store == current
collection == <<archive, report>>
derived == <<ratings, summary>>
backtested == <<manifest, processed>>
frozen == <<freezes, serving>>
vars == <<store, collection, derived, backtested, frozen, job>>

-----------------------------------------------------------------------------
(* Data.                                                                   *)

\* An archived envelope: the snapshot it is filed under, its game, and the
\* payload the game was read from.
Envelope == [run: Content, game: Games, of: Content]

\* completed_at tells reports apart even when all else is equal.
Report == [snapshot: Content, accepted: 0..Cardinality(Games), rejected: BOOLEAN,
           no: 1..MaxReports]

\* What a derived artifact was computed from: a snapshot, without its last
\* day, or lol.db, which has the last day as well.
Derived == [of: Content \union {Database}, lastDay: BOOLEAN]
FromSnapshot(content) == [of |-> content, lastDay |-> FALSE]
FromDatabase == [of |-> Database, lastDay |-> TRUE]

Manifest == [no: 1..MaxManifests, payload: Snapshot, metadata: Snapshot,
             ratings: Derived, summary: Derived,
             report: Report, archive: SUBSET Envelope]

Maybe(S) == S \union {None}

\* What a manifest.json of a freeze states; the backtest manifest, the run and
\* the archive are the copies in the freeze.
Seal == [payload: Snapshot, metadata: Snapshot, ratings: Derived, summary: Derived,
         backtest: Manifest, report: Report, archive: SUBSET Envelope]

\* The directory of a freeze; a file that is not there yet is None.
Freeze == [ratings: Maybe(Derived), summary: Maybe(Derived), backtest: Maybe(Manifest),
           archive: Maybe(SUBSET Envelope), report: Maybe(Report), seal: Maybe(Seal)]
NoFreeze == [ratings |-> None, summary |-> None, backtest |-> None,
             archive |-> None, report |-> None, seal |-> None]

Input == [payload: Content, report: Report, archive: SUBSET Envelope]

ASSUME PipelineNoneAssumption ==
    None \notin Nat \union Snapshot \union Derived \union Report \union Manifest \union Seal
                \union Input

Jobs == {"publish-snapshot", "backtest", "publish-freeze", "weekly"}

Locals == [pc: {"idle", "open", "append", "check", "ratings", "summary", "seal", "record",
                "copy-ratings", "copy-summary", "copy-backtest", "copy-archive",
                "copy-report", "point"},
           metadata: Maybe(Snapshot), payload: Maybe(Snapshot),
           todo: SUBSET Games, accepted: 0..Cardinality(Games), rejected: BOOLEAN,
           input: Maybe(Input), manifest: Maybe(Manifest)]
Idle == [pc |-> "idle", metadata |-> None, payload |-> None, todo |-> {}, accepted |-> 0,
         rejected |-> FALSE, input |-> None, manifest |-> None]

TypeOK ==
    /\ current \in Maybe(Snapshot)
    /\ archive \subseteq Envelope
    /\ report \in Maybe(Report)
    /\ ratings \in Maybe(Derived)
    /\ summary \in Maybe(Derived)
    /\ manifest \in Maybe(Manifest)
    /\ processed \in Maybe(Input)
    /\ freezes \in [1..MaxManifests -> Freeze]
    /\ serving \in Maybe(1..MaxManifests)
    /\ job \in [Jobs -> Locals]

Init ==
    /\ Empty
    /\ archive = {} /\ report = None
    /\ ratings = None /\ summary = None
    /\ manifest = None /\ processed = None
    /\ freezes = [n \in 1..MaxManifests |-> NoFreeze] /\ serving = None
    /\ job = [j \in Jobs |-> Idle]

-----------------------------------------------------------------------------
At(j, pc) == job[j].pc = pc
Undisturbed == Overlap \/ \A j \in Jobs : At(j, "idle")

MayStart(j) == j \in Scheduled /\ At(j, "idle") /\ Undisturbed
Goes(j, pc) == job' = [job EXCEPT ![j].pc = pc]
Ends(j) == job' = [job EXCEPT ![j] = Idle]

\* The ingest job, or the download of the weekly refresh.
Ingest ==
    /\ Undisturbed
    /\ \E s \in Snapshot : Follows(s) /\ current' = s
    /\ UNCHANGED <<collection, derived, backtested, frozen, job>>

\* A job dies, or raises: what it wrote stays.
Fail(j) ==
    /\ ~At(j, "idle")
    /\ Ends(j)
    /\ UNCHANGED <<store, collection, derived, backtested, frozen>>

-----------------------------------------------------------------------------
(* publish-snapshot.                                                       *)

\* assert_fresh_snapshot returns the metadata of the published snapshot.
ReadMetadata ==
    LET j == "publish-snapshot" IN
    /\ MayStart(j)
    /\ current # None
    /\ job' = [job EXCEPT ![j] = [Idle EXCEPT !.pc = "open", !.metadata = current]]
    /\ UNCHANGED <<store, collection, derived, backtested, frozen>>

\* The payload comes from a second look at the pointer.
OpenPayload ==
    LET j == "publish-snapshot" IN
    /\ At(j, "open")
    /\ job' = [job EXCEPT ![j].pc = "append", ![j].payload = current, ![j].todo = Games]
    /\ UNCHANGED <<store, collection, derived, backtested, frozen>>

\* Faulty variants: the games that were done are forgotten; the run is the
\* one of the last report.
ArchivesAgain ==
    LET j == "publish-snapshot"
        run == job[j].metadata.content
    IN
    /\ At(j, "append")
    /\ \E g \in job[j].todo :
        archive' = archive \union {[run |-> run, game |-> g, of |-> job[j].payload.content]}
    /\ job' = [job EXCEPT ![j].accepted = @ + 1]
    /\ UNCHANGED <<store, report, derived, backtested, frozen>>
ArchivesUnderLastRun ==
    LET j == "publish-snapshot"
        run == IF report = None THEN job[j].metadata.content ELSE report.snapshot
    IN
    /\ At(j, "append")
    /\ \E g \in job[j].todo :
        /\ archive' = archive \union {[run |-> run, game |-> g, of |-> job[j].payload.content]}
        /\ job' = [job EXCEPT ![j].todo = @ \ {g}, ![j].accepted = @ + 1]
    /\ UNCHANGED <<store, report, derived, backtested, frozen>>

\* One game: rejected when a team does not resolve to one identity, skipped
\* when this run has it already, appended otherwise.
ArchiveGame ==
    LET j == "publish-snapshot"
        run == job[j].metadata.content
    IN
    /\ At(j, "append")
    /\ \E g \in job[j].todo, resolves \in Resolutions :
        LET known == \E e \in archive : e.run = run /\ e.game = g
            new == [run |-> run, game |-> g, of |-> job[j].payload.content]
        IN
        /\ archive' = IF resolves /\ ~known THEN archive \union {new} ELSE archive
        /\ job' = [job EXCEPT ![j].todo = @ \ {g},
                              ![j].accepted = IF resolves /\ ~known THEN @ + 1 ELSE @,
                              ![j].rejected = @ \/ ~resolves]
    /\ UNCHANGED <<store, report, derived, backtested, frozen>>

Reports == IF report = None THEN 0 ELSE report.no

WriteReport ==
    LET j == "publish-snapshot" IN
    /\ At(j, "append")
    /\ job[j].todo = {}
    /\ Reports < MaxReports
    /\ report' = [snapshot |-> job[j].metadata.content, accepted |-> job[j].accepted,
                  rejected |-> job[j].rejected, no |-> Reports + 1]
    /\ Ends(j)
    /\ UNCHANGED <<store, archive, derived, backtested, frozen>>

-----------------------------------------------------------------------------
(* backtest.                                                               *)

ReadSnapshot ==
    LET j == "backtest" IN
    /\ MayStart(j)
    /\ current # None
    /\ job' = [job EXCEPT ![j] = [Idle EXCEPT !.pc = "check", !.payload = current]]
    /\ UNCHANGED <<store, collection, derived, backtested, frozen>>

\* Faulty variant: the report may be of any snapshot.
AnyReport(content) ==
    /\ report # None
    /\ report.accepted >= 1
    /\ ~report.rejected

\* _verified_collection_archive.
Verified(content) ==
    /\ report # None
    /\ report.snapshot = content
    /\ report.accepted >= 1
    /\ ~report.rejected

BacktestInput ==
    [payload |-> job["backtest"].payload.content, report |-> report, archive |-> archive]

\* Faulty variant: the input is not compared.
SkipsAnyInput == processed # None /\ ratings # None /\ summary # None /\ manifest # None

\* The input was processed before and its outputs are there.
Skips ==
    /\ processed = BacktestInput
    /\ ratings # None /\ summary # None /\ manifest # None

BacktestSkips ==
    LET j == "backtest" IN
    /\ At(j, "check")
    /\ Verified(job[j].payload.content)
    /\ Skips
    /\ Ends(j)
    /\ UNCHANGED <<store, collection, derived, backtested, frozen>>

BacktestAccepts ==
    LET j == "backtest" IN
    /\ At(j, "check")
    /\ Verified(job[j].payload.content)
    /\ ~Skips
    /\ job' = [job EXCEPT ![j].pc = "ratings", ![j].input = BacktestInput]
    /\ UNCHANGED <<store, collection, derived, backtested, frozen>>

\* backtest_walkforward.main writes its results at the end, one file after
\* the other: from the snapshot without its last day for backtest, from
\* lol.db for the weekly refresh.
Source(j) ==
    IF j = "weekly" THEN FromDatabase ELSE FromSnapshot(job[j].payload.content)

WriteRatings(j) ==
    /\ At(j, "ratings")
    /\ ratings' = Source(j)
    /\ Goes(j, "summary")
    /\ UNCHANGED <<store, collection, summary, backtested, frozen>>

WriteSummary(j) ==
    /\ At(j, "summary")
    /\ summary' = Source(j)
    /\ IF j = "weekly" THEN Ends(j) ELSE Goes(j, "seal")
    /\ UNCHANGED <<store, collection, ratings, backtested, frozen>>

Manifests == IF manifest = None THEN 0 ELSE manifest.no

\* Faulty variant: a manifest that exists keeps its metadata entry.
SealsOldMetadata ==
    LET j == "backtest" IN
    /\ At(j, "seal")
    /\ Manifests < MaxManifests
    /\ manifest' = [no |-> Manifests + 1, payload |-> job[j].payload,
                    metadata |-> IF manifest = None THEN current ELSE manifest.metadata,
                    ratings |-> ratings, summary |-> summary,
                    report |-> job[j].input.report, archive |-> job[j].input.archive]
    /\ Goes(j, "record")
    /\ UNCHANGED <<store, collection, derived, processed, frozen>>

\* write_backtest_manifest: the artifacts are hashed as they are on disk and
\* the metadata is that of the snapshot the pointer names now.
SealBacktest ==
    LET j == "backtest" IN
    /\ At(j, "seal")
    /\ Manifests < MaxManifests
    /\ manifest' = [no |-> Manifests + 1, payload |-> job[j].payload, metadata |-> current,
                    ratings |-> ratings, summary |-> summary,
                    report |-> job[j].input.report, archive |-> job[j].input.archive]
    /\ Goes(j, "record")
    /\ UNCHANGED <<store, collection, derived, processed, frozen>>

RecordBacktest ==
    LET j == "backtest" IN
    /\ At(j, "record")
    /\ processed' = job[j].input
    /\ Ends(j)
    /\ UNCHANGED <<store, collection, derived, manifest, frozen>>

-----------------------------------------------------------------------------
(* The weekly refresh runs the same script on its own.                     *)

WeeklyRefresh ==
    LET j == "weekly" IN
    /\ MayStart(j)
    /\ Goes(j, "ratings")
    /\ UNCHANGED <<store, collection, derived, backtested, frozen>>

-----------------------------------------------------------------------------
(* publish-freeze.                                                         *)

\* Faulty variant: the artifacts are not hashed again.
VerifiesInputsOnly ==
    LET j == "publish-freeze" IN
    /\ MayStart(j)
    /\ manifest # None
    /\ report = manifest.report /\ archive = manifest.archive
    /\ job' = [job EXCEPT ![j] = [Idle EXCEPT !.pc = "copy-ratings", !.manifest = manifest]]
    /\ UNCHANGED <<store, collection, derived, backtested, frozen>>

\* Artifacts, archive and report are what the manifest says.
DiskIsAsSealed ==
    /\ ratings = manifest.ratings /\ summary = manifest.summary
    /\ report = manifest.report /\ archive = manifest.archive

VerifyBacktest ==
    LET j == "publish-freeze" IN
    /\ MayStart(j)
    /\ manifest # None
    /\ DiskIsAsSealed
    /\ job' = [job EXCEPT ![j] = [Idle EXCEPT !.pc = "copy-ratings", !.manifest = manifest]]
    /\ UNCHANGED <<store, collection, derived, backtested, frozen>>

Target == job["publish-freeze"].manifest.no

\* _immutable_copy of what the disk has now; a copy that exists must be equal,
\* or the call fails (Fail).
Copied(copy, source) == IF copy = None THEN source ELSE copy
MayCopy(copy, source) == copy \in {None, source}

\* Faulty variant: a copy that exists is replaced.
ReplacesRatings ==
    /\ At("publish-freeze", "copy-ratings")
    /\ freezes' = [freezes EXCEPT ![Target].ratings = ratings]
    /\ Goes("publish-freeze", "copy-summary")
    /\ UNCHANGED <<store, collection, derived, backtested, serving>>

CopyRatings ==
    /\ At("publish-freeze", "copy-ratings")
    /\ MayCopy(freezes[Target].ratings, ratings)
    /\ freezes' = [freezes EXCEPT ![Target].ratings = Copied(@, ratings)]
    /\ Goes("publish-freeze", "copy-summary")
    /\ UNCHANGED <<store, collection, derived, backtested, serving>>

CopySummary ==
    /\ At("publish-freeze", "copy-summary")
    /\ MayCopy(freezes[Target].summary, summary)
    /\ freezes' = [freezes EXCEPT ![Target].summary = Copied(@, summary)]
    /\ Goes("publish-freeze", "copy-backtest")
    /\ UNCHANGED <<store, collection, derived, backtested, serving>>

CopyBacktest ==
    /\ At("publish-freeze", "copy-backtest")
    /\ MayCopy(freezes[Target].backtest, manifest)
    /\ freezes' = [freezes EXCEPT ![Target].backtest = Copied(@, manifest)]
    /\ Goes("publish-freeze", "copy-archive")
    /\ UNCHANGED <<store, collection, derived, backtested, serving>>

CopyArchive ==
    /\ At("publish-freeze", "copy-archive")
    /\ MayCopy(freezes[Target].archive, archive)
    /\ freezes' = [freezes EXCEPT ![Target].archive = Copied(@, archive)]
    /\ Goes("publish-freeze", "copy-report")
    /\ UNCHANGED <<store, collection, derived, backtested, serving>>

\* Faulty variant: the pointer moves although the manifest is not written.
PointsUnsealed ==
    /\ At("publish-freeze", "copy-report")
    /\ freezes' = [freezes EXCEPT ![Target].report = Copied(@, report)]
    /\ Goes("publish-freeze", "point")
    /\ UNCHANGED <<store, collection, derived, backtested, serving>>

CopyReport ==
    /\ At("publish-freeze", "copy-report")
    /\ MayCopy(freezes[Target].report, report)
    /\ freezes' = [freezes EXCEPT ![Target].report = Copied(@, report)]
    /\ Goes("publish-freeze", "seal")
    /\ UNCHANGED <<store, collection, derived, backtested, serving>>

\* Faulty variant: the artifacts are hashed after they were copied.
SealOfCopies(m, copy) ==
    [payload |-> m.payload, metadata |-> m.metadata, ratings |-> copy.ratings,
     summary |-> copy.summary, backtest |-> copy.backtest,
     report |-> copy.report, archive |-> copy.archive]

\* The seal states the artifacts as the manifest in memory has them, and the
\* copies of the manifest, the archive and the report as they are; a seal
\* that exists is kept.
SealOf(m, copy) ==
    [payload |-> m.payload, metadata |-> m.metadata, ratings |-> m.ratings,
     summary |-> m.summary, backtest |-> copy.backtest,
     report |-> copy.report, archive |-> copy.archive]

SealFreeze ==
    LET j == "publish-freeze" IN
    /\ At(j, "seal")
    /\ freezes' = [freezes EXCEPT ![Target].seal =
                      Copied(@, SealOf(job[j].manifest, freezes[Target]))]
    /\ Goes(j, "point")
    /\ UNCHANGED <<store, collection, derived, backtested, serving>>

MovePointer ==
    LET j == "publish-freeze" IN
    /\ At(j, "point")
    /\ serving' = Target
    /\ Ends(j)
    /\ UNCHANGED <<store, collection, derived, backtested, freezes>>

-----------------------------------------------------------------------------
PublishSnapshot == ReadMetadata \/ OpenPayload \/ ArchiveGame \/ WriteReport
Backtest ==
    \/ ReadSnapshot \/ BacktestSkips \/ BacktestAccepts
    \/ WriteRatings("backtest") \/ WriteSummary("backtest")
    \/ SealBacktest \/ RecordBacktest
Weekly == WeeklyRefresh \/ WriteRatings("weekly") \/ WriteSummary("weekly")
PublishFreeze ==
    \/ VerifyBacktest \/ CopyRatings \/ CopySummary \/ CopyBacktest
    \/ CopyArchive \/ CopyReport \/ SealFreeze \/ MovePointer

Next ==
    \/ Ingest \/ PublishSnapshot \/ Backtest \/ Weekly \/ PublishFreeze
    \/ \E j \in Jobs : Fail(j)

Spec == Init /\ [][Next]_vars

-----------------------------------------------------------------------------
(* Serving: PredictionService.predict answers only if load_current_freeze  *)
(* accepts the freeze, so a property of what is served is one of freezes   *)
(* that load.                                                              *)

\* load_current_freeze: every file is what the seal says.
Loads(n) ==
    LET f == freezes[n] IN
    /\ f.seal # None
    /\ f.ratings = f.seal.ratings /\ f.summary = f.seal.summary
    /\ f.backtest = f.seal.backtest
    /\ f.archive = f.seal.archive /\ f.report = f.seal.report

Served == serving # None /\ Loads(serving)
ServedSeal == freezes[serving].seal

-----------------------------------------------------------------------------
(* Properties that hold however the jobs interleave.                       *)

\* A file of a freeze is written once: neither a repeated nor a half finished
\* publication changes what a served freeze was sealed with.
FreezesAreImmutable ==
    [][\A n \in DOMAIN freezes, field \in DOMAIN NoFreeze :
        freezes[n][field] # None => freezes'[n][field] = freezes[n][field]]_freezes

\* current_freeze.json names a freeze that is sealed, and no later call takes
\* predictions back to older games.
EndOfServed == IF serving = None THEN 0 ELSE ServedSeal.payload.content.end
\* The pointer moves to a sealed freeze that does not end earlier.
ServingNeverGoesBack ==
    [][/\ serving' # None /\ freezes'[serving'].seal # None
       /\ EndOfServed' >= EndOfServed]_serving

\* The CSV cannot bypass the resolution of identities: the archive in a
\* sealed freeze has an envelope filed under the snapshot of the freeze
\* (src/docs/OPERATING_STATE.md:77-81).
SealedFreezeIsCanonical ==
    \A n \in DOMAIN freezes : freezes[n].seal # None =>
        \E e \in freezes[n].seal.archive : e.run = freezes[n].seal.payload.content

-----------------------------------------------------------------------------
(* Properties of jobs that run one after the other, whatever fails.        *)

\* What current_freeze.json names can be served: the files of the freeze are
\* those the backtest sealed, though the weekly refresh rewrites them.
PublishedFreezeLoads == serving # None => Loads(serving)

\* Predictions are made with ratings that come from the sealed snapshot and
\* have not seen its last day (src/docs/OPERATING_STATE.md:56-59).
ServedRatingsAreOutOfSample ==
    Served => ServedSeal.ratings = FromSnapshot(ServedSeal.payload.content)

\* data_as_of and the freshness of a prediction are those of the sealed
\* payload: the metadata in a freeze belong to it.
MetadataBelongToPayload ==
    \A n \in DOMAIN freezes :
        freezes[n].seal # None => freezes[n].seal.metadata = freezes[n].seal.payload

\* The collection run in a freeze is the accepted run of its own snapshot.
SealedRunIsOfTheSnapshot ==
    \A n \in DOMAIN freezes : freezes[n].seal # None =>
        LET run == freezes[n].seal.report IN
        /\ run.snapshot = freezes[n].seal.payload.content
        /\ run.accepted >= 1 /\ ~run.rejected

\* An envelope is filed under the snapshot its game was read from
\* (source_snapshot_hash of collection_shadow.py).
EnvelopesNameTheirSource == \A e \in archive : e.of = e.run

-----------------------------------------------------------------------------
(* A property of jobs that interleave without a weekly refresh.            *)

\* backtest looks at the input of its last success and at whether its outputs
\* exist, not at what is in them; all the same, when it skips, the disk is what
\* the manifest states, so that publish-freeze accepts it.
SkippedIsAsSealed == [][BacktestSkips => DiskIsAsSealed]_job

-----------------------------------------------------------------------------
(* What the documentation says and the code does not do.                   *)

\* "Backtest is fail-closed unless the latest core archive is non-empty, has
\* no quarantined identities and matches the exact SHA-256 of the current CSV
\* snapshot" (src/docs/OPERATING_STATE.md:77-79): an archive that is all of
\* this is accepted.
GoodArchiveIsAccepted ==
    (/\ report # None
     /\ ~report.rejected
     /\ \E e \in archive : e.run = report.snapshot) => Verified(report.snapshot)

-----------------------------------------------------------------------------
(* The inductive invariant behind the properties that hold however the     *)
(* jobs interleave.                                                        *)

\* The envelopes have a game filed under the run.
Holds(envelopes, run) == \E e \in envelopes : e.run = run

\* A run that accepted a game has an envelope, and accepts no game twice.
RunsAreBacked ==
    /\ (report # None /\ report.accepted >= 1) => Holds(archive, report.snapshot)
    /\ LET l == job["publish-snapshot"] IN
        /\ l.pc # "idle" => current # None /\ l.metadata \in Snapshot
        /\ l.pc = "open" => l.accepted = 0
        /\ l.pc = "append" => l.payload \in Snapshot
        /\ l.accepted >= 1 => Holds(archive, l.metadata.content)
        /\ l.accepted + Cardinality(l.todo) <= Cardinality(Games)

\* The archive a backtest or a manifest was accepted with has a game of its
\* own payload, and is still part of the archive.
Backed(payload, envelopes) == Holds(envelopes, payload.content) /\ envelopes \subseteq archive

\* A backtest is past its check only with a backed input; its payload is not
\* newer than the published snapshot nor older than that of the manifest.
BacktestIsBacked ==
    LET l == job["backtest"] IN
    /\ l.pc # "idle" =>
        /\ current # None /\ l.payload \in Snapshot
        /\ l.payload.content.end <= current.content.end
        /\ manifest # None => manifest.payload.content.end <= l.payload.content.end
    /\ l.pc \in {"ratings", "summary", "seal", "record"} =>
        report # None /\ l.input \in Input /\ Backed(l.payload, l.input.archive)
    /\ l.pc \in {"summary", "seal"} => ratings \in Derived
    /\ l.pc = "seal" => summary \in Derived

\* The freeze of a manifest: its archive has a game of the payload, its seal
\* states the payload, and what is served does not end later.
Fits(m) ==
    /\ Backed(m.payload, m.archive)
    /\ freezes[m.no].archive # None => Holds(freezes[m.no].archive, m.payload.content)
    /\ freezes[m.no].seal # None => freezes[m.no].seal.payload = m.payload
    /\ EndOfServed <= m.payload.content.end

\* Freezes that are still to come are empty; a publication goes on with the
\* last manifest or an earlier one.
ManifestsFit ==
    /\ \A n \in DOMAIN freezes : n > Manifests => freezes[n] = NoFreeze
    /\ manifest # None =>
        /\ Fits(manifest) /\ report # None /\ current # None
        /\ manifest.payload.content.end <= current.content.end
    /\ LET l == job["publish-freeze"] IN
        /\ l.pc # "idle" =>
            /\ manifest # None /\ l.manifest \in Manifest /\ Fits(l.manifest)
            /\ l.manifest.payload.content.end <= manifest.payload.content.end
            /\ l.manifest.no <= manifest.no
            /\ l.manifest.no = manifest.no => l.manifest = manifest
        /\ l.pc \in {"copy-archive", "copy-report", "seal"} => freezes[Target].backtest \in Manifest
        /\ l.pc \in {"copy-report", "seal"} =>
            /\ freezes[Target].archive \in SUBSET Envelope
            /\ Holds(freezes[Target].archive, l.manifest.payload.content)
        /\ l.pc = "seal" => freezes[Target].report \in Report
        /\ l.pc = "point" => freezes[Target].seal # None

ServingIsSealed == serving # None => freezes[serving].seal # None

IInv ==
    /\ TypeOK
    /\ RunsAreBacked
    /\ BacktestIsBacked
    /\ ManifestsFit
    /\ ServingIsSealed
    /\ SealedFreezeIsCanonical

-----------------------------------------------------------------------------
(* What is known in addition while nothing but backtest writes the ratings *)
(* it seals: no weekly refresh is scheduled, or the jobs do not overlap.   *)

OneAtATime == Overlap \/ \A j, k \in Jobs : At(j, "idle") \/ At(k, "idle") \/ j = k

\* The ratings that a manifest or a seal states come from its own payload.
OutOfSample(x) == x.ratings = FromSnapshot(x.payload.content)

SampleIInv ==
    /\ OneAtATime
    /\ "weekly" \notin Scheduled => At("weekly", "idle")
    /\ job["backtest"].pc \in {"summary", "seal"} =>
        ratings = FromSnapshot(job["backtest"].payload.content)
    /\ manifest # None => OutOfSample(manifest)
    /\ ~At("publish-freeze", "idle") => OutOfSample(job["publish-freeze"].manifest)
    /\ \A n \in DOMAIN freezes : freezes[n].seal # None => OutOfSample(freezes[n].seal)

\* The order in which inputs come: a report is replaced by a later one, and the
\* archive grows.
Now == [report |-> report, archive |-> archive]
Precedes(x, y) ==
    /\ x.report.no <= y.report.no
    /\ x.report.no = y.report.no => x.report = y.report
    /\ x.archive \subseteq y.archive
SameRun(x, y) == x.report = y.report /\ x.archive = y.archive
OfItsRun(input) == input.payload = input.report.snapshot

\* A backtest works on a later input than the one that was recorded; the disk is
\* as sealed while the recorded input is still the present one.
SkipIInv ==
    LET b == job["backtest"] IN
    /\ processed # None =>
        /\ ratings # None /\ summary # None /\ manifest # None /\ report # None
        /\ OfItsRun(processed) /\ Precedes(processed, Now)
        /\ SameRun(processed, Now) => DiskIsAsSealed
    /\ b.pc \in {"ratings", "summary", "seal", "record"} =>
        /\ OfItsRun(b.input) /\ Precedes(b.input, Now)
        /\ processed # None => Precedes(processed, b.input) /\ ~SameRun(processed, b.input)
    /\ b.pc = "record" =>
        /\ manifest # None /\ SameRun(manifest, b.input)
        /\ ratings = manifest.ratings /\ summary = manifest.summary

-----------------------------------------------------------------------------
(* What is known in addition of jobs that run one after the other.         *)

\* A run of publish-snapshot reads one snapshot only.
RunReadsOnce ==
    /\ At("publish-snapshot", "open") => job["publish-snapshot"].metadata = current
    /\ At("publish-snapshot", "append") =>
        job["publish-snapshot"].payload = job["publish-snapshot"].metadata

\* The run was accepted with all of its games, for this payload.
AcceptedRun(payload, run) ==
    run.snapshot = payload.content /\ run.accepted >= 1 /\ ~run.rejected

\* What a backtest reads stays published until it has sealed it.
BacktestReadsOnce ==
    /\ ~At("backtest", "idle") => job["backtest"].payload = current
    /\ job["backtest"].pc \in {"ratings", "summary", "seal", "record"} =>
        AcceptedRun(job["backtest"].payload, job["backtest"].input.report)
    /\ manifest # None =>
        manifest.metadata = manifest.payload /\ AcceptedRun(manifest.payload, manifest.report)

\* A publication copies what the last manifest says: the stages it passed have
\* their copies.
CopiesFit ==
    LET l == job["publish-freeze"]
        f == freezes[manifest.no]
    IN
    l.pc # "idle" =>
        /\ l.manifest = manifest
        /\ ratings = manifest.ratings /\ summary = manifest.summary
        /\ report = manifest.report /\ archive = manifest.archive
        /\ l.pc # "copy-ratings" => f.ratings = manifest.ratings
        /\ l.pc \notin {"copy-ratings", "copy-summary"} => f.summary = manifest.summary
        /\ l.pc \in {"copy-archive", "copy-report", "seal", "point"} => f.backtest = manifest
        /\ l.pc \in {"copy-report", "seal", "point"} => f.archive = manifest.archive
        /\ l.pc \in {"seal", "point"} => f.report = manifest.report

\* The seal of a manifest whose files were all copied as it states them.
SealedAs(m) == SealOf(m, [backtest |-> m, report |-> m.report, archive |-> m.archive])

\* Every sealed freeze loads, and its parts belong together.
SealsFit ==
    /\ \A n \in DOMAIN freezes : freezes[n].seal # None =>
        /\ Loads(n) /\ freezes[n].seal.metadata = freezes[n].seal.payload
        /\ AcceptedRun(freezes[n].seal.payload, freezes[n].seal.report)
    /\ (manifest # None /\ freezes[manifest.no].seal # None) =>
        freezes[manifest.no].seal = SealedAs(manifest)

SerialIInv ==
    RunReadsOnce /\ EnvelopesNameTheirSource /\ BacktestReadsOnce /\ CopiesFit /\ SealsFit
=============================================================================

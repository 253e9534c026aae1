------------------------ MODULE FreezePipelineProofs ------------------------
(***************************************************************************)
(* The freeze pipeline, for any contents, games and jobs that fail         *)
(* anywhere.  However the jobs interleave, a sealed freeze is canonical,   *)
(* its files never change and serving never goes back.  The ratings that   *)
(* are served are out of sample while the weekly refresh is not scheduled  *)
(* or no jobs overlap; and without overlap the parts of a freeze belong    *)
(* together, and what is served loads.                                     *)
(***************************************************************************)
EXTENDS FreezePipeline, FiniteSetTheorems, TLAPS

\* Numbers the invariants compare are naturals.
LEMMA Numbers ==
    /\ Cardinality(Games) \in Nat
    /\ Days \subseteq Nat /\ MaxReports \in Nat /\ MaxManifests \in Nat
    /\ \A T \in SUBSET Games : IsFiniteSet(T) /\ Cardinality(T) \in Nat
<1>1. IsFiniteSet(Games) /\ Cardinality(Games) \in Nat
  BY GamesAssumption, FS_CardinalityType
<1>2. \A T \in SUBSET Games : IsFiniteSet(T) /\ Cardinality(T) \in Nat
  BY <1>1, FS_Subset, FS_CardinalityType
<1> QED
  BY <1>1, <1>2, DaysAssumption, BoundsAssumption

\* A job that is not running holds well-typed locals.
LEMMA IdleFields ==
    /\ Idle \in Locals /\ Idle.pc = "idle" /\ Idle.accepted = 0 /\ Idle.todo = {}
<1>1. 0 \in 0..Cardinality(Games)
  BY Numbers
<1> QED
  BY <1>1 DEF Idle, Locals, Maybe

\* The locals a job has after a step.
LEMMA JobStep ==
    ASSUME TypeOK, NEW j \in Jobs, NEW l \in Locals, job' = [job EXCEPT ![j] = l]
    PROVE  /\ job' \in [Jobs -> Locals] /\ job'[j] = l
           /\ \A k \in Jobs : k # j => job'[k] = job[k]
  BY DEF TypeOK

\* A job goes on to another point and keeps everything else.
LEMMA JobGoes ==
    ASSUME TypeOK, NEW j \in Jobs, Goes(j, "summary") \/ Goes(j, "seal") \/ Goes(j, "record")
           \/ Goes(j, "copy-summary") \/ Goes(j, "copy-backtest") \/ Goes(j, "copy-archive")
           \/ Goes(j, "copy-report") \/ Goes(j, "point") \/ Goes(j, "ratings")
    PROVE  /\ job' \in [Jobs -> Locals]
           /\ \A k \in Jobs : k # j => job'[k] = job[k]
           /\ job'[j].payload = job[j].payload /\ job'[j].input = job[j].input
           /\ job'[j].manifest = job[j].manifest
           /\ \A pc : Goes(j, pc) => job'[j].pc = pc
<1>1. PICK pc \in {"summary", "seal", "record", "copy-summary", "copy-backtest",
                  "copy-archive", "copy-report", "point", "ratings"} :
        job' = [job EXCEPT ![j].pc = pc]
  BY DEF Goes
<1> DEFINE l == [job[j] EXCEPT !.pc = pc]
<1>2. job[j] \in Locals /\ job \in [Jobs -> Locals]
  BY DEF TypeOK
<1>3. /\ l \in Locals /\ l.pc = pc /\ l.payload = job[j].payload
      /\ l.input = job[j].input /\ l.manifest = job[j].manifest
  BY <1>2 DEF Locals
<1>4. job' = [job EXCEPT ![j] = l]
  BY <1>1
<1> HIDE DEF l
<1>5. job' \in [Jobs -> Locals] /\ job'[j] = l /\ \A k \in Jobs : k # j => job'[k] = job[k]
  BY <1>3, <1>4, JobStep
<1>6. ASSUME NEW q, Goes(j, q) PROVE job'[j].pc = q
  BY <1>2, <1>6 DEF Goes, Locals
<1> QED
  BY <1>3, <1>5, <1>6

\* Other jobs may add to the archive: what was backed stays backed.
LEMMA HoldsMore ==
    ASSUME NEW S, NEW T, S \subseteq T, NEW run, Holds(S, run)
    PROVE  Holds(T, run)
  BY DEF Holds

-----------------------------------------------------------------------------
(* What the steps of other jobs leave alone.                               *)

\* The runs, and a publish-snapshot that goes on or dies.
LEMMA RunsKept ==
    ASSUME IInv, archive \subseteq archive', report' = report,
           current # None => current' # None,
           job'["publish-snapshot"] \in {job["publish-snapshot"], Idle}
    PROVE  RunsAreBacked'
<1>1. \A run : Holds(archive, run) => Holds(archive', run)
  BY HoldsMore
<1>2. Idle.accepted + Cardinality(Idle.todo) <= Cardinality(Games) /\ Idle.accepted = 0
  BY IdleFields, Numbers, FS_EmptySet
<1>3. CASE job'["publish-snapshot"] = job["publish-snapshot"]
  BY <1>1, <1>3 DEF IInv, RunsAreBacked, Holds
<1>4. CASE job'["publish-snapshot"] = Idle
  BY <1>1, <1>2, <1>4, IdleFields DEF IInv, RunsAreBacked, Holds
<1> QED
  BY <1>3, <1>4

\* The same for a backtest that is running.
LEMMA BacktestKept ==
    ASSUME IInv, archive \subseteq archive', manifest' = manifest,
           report # None => report' # None,
           ratings \in Derived => ratings' \in Derived,
           summary \in Derived => summary' \in Derived,
           current # None => current' # None /\ current'.content.end >= current.content.end,
           TypeOK', job'["backtest"] \in {job["backtest"], Idle}
    PROVE  BacktestIsBacked'
<1>1. CASE job'["backtest"] = Idle
  BY <1>1, IdleFields DEF BacktestIsBacked
<1>2. CASE job'["backtest"] = job["backtest"]
  <2> DEFINE l == job["backtest"]
  <2>1. l.pc # "idle" =>
            /\ current # None /\ l.payload \in Snapshot
            /\ l.payload.content.end <= current.content.end
            /\ manifest # None => manifest.payload.content.end <= l.payload.content.end
    BY DEF IInv, BacktestIsBacked
  <2>2. ASSUME l.pc # "idle" PROVE l.payload.content.end <= current'.content.end
    <3>1. /\ l.payload.content.end \in Nat /\ current.content.end \in Nat
          /\ current'.content.end \in Nat
      BY <2>1, <2>2, Numbers DEF IInv, TypeOK, Maybe, Snapshot, Content
    <3> QED
      BY <2>1, <2>2, <3>1
  <2>3. l.pc \in {"ratings", "summary", "seal", "record"} =>
            report' # None /\ l.input \in Input /\ Backed(l.payload, l.input.archive)'
    BY <1>2 DEF IInv, BacktestIsBacked, Backed, Holds
  <2>4. /\ l.pc \in {"summary", "seal"} => ratings' \in Derived
        /\ l.pc = "seal" => summary' \in Derived
    BY DEF IInv, BacktestIsBacked
  <2> QED
    BY <1>2, <2>1, <2>2, <2>3, <2>4 DEF BacktestIsBacked, Backed, Holds
<1> QED
  BY <1>1, <1>2

\* The number of the last manifest, and which freezes it speaks of.
LEMMA LastManifest ==
    ASSUME TypeOK
    PROVE  /\ Manifests \in 0..MaxManifests
           /\ manifest # None => manifest.no \in 1..MaxManifests /\ manifest.no = Manifests
  BY Numbers DEF TypeOK, Maybe, Manifests, Manifest

\* The same for the freezes and a publication that is running.
LEMMA ManifestsKept ==
    ASSUME IInv, TypeOK', archive \subseteq archive', manifest' = manifest,
           UNCHANGED <<freezes, serving>>,
           report # None => report' # None,
           current # None => current' # None /\ current'.content.end >= current.content.end,
           job'["publish-freeze"] \in {job["publish-freeze"], Idle}
    PROVE  ManifestsFit'
<1>1. Manifests' = Manifests /\ EndOfServed' = EndOfServed
  BY DEF Manifests, EndOfServed, ServedSeal
<1>2. ASSUME manifest # None
      PROVE  Fits(manifest) /\ current # None /\ report # None
             /\ manifest.payload.content.end <= current'.content.end
  <2>1. /\ Fits(manifest) /\ report # None /\ current # None
        /\ manifest.payload.content.end <= current.content.end
    BY <1>2 DEF IInv, ManifestsFit
  <2>2. /\ manifest.payload.content.end \in Nat /\ current.content.end \in Nat
        /\ current'.content.end \in Nat
    BY <1>2, <2>1, Numbers DEF IInv, TypeOK, Maybe, Snapshot, Content, Manifest
  <2> QED
    BY <2>1, <2>2
<1>3. manifest # None => Fits(manifest)'
  BY <1>1, <1>2 DEF Fits, Backed, Holds
<1>4. \A n \in DOMAIN freezes : n > Manifests => freezes[n] = NoFreeze
  BY DEF IInv, ManifestsFit
<1>5. CASE job'["publish-freeze"] = Idle
  BY <1>1, <1>2, <1>3, <1>4, <1>5, IdleFields DEF ManifestsFit
<1>6. CASE job'["publish-freeze"] = job["publish-freeze"]
  <2> DEFINE l == job["publish-freeze"]
  <2>1. Target' = Target
    BY <1>6 DEF Target
  <2>2. /\ l.pc # "idle" =>
            /\ manifest # None /\ l.manifest \in Manifest /\ Fits(l.manifest)
            /\ l.manifest.payload.content.end <= manifest.payload.content.end
            /\ l.manifest.no <= manifest.no
            /\ l.manifest.no = manifest.no => l.manifest = manifest
        /\ l.pc \in {"copy-archive", "copy-report", "seal"} => freezes[Target].backtest \in Manifest
        /\ l.pc \in {"copy-report", "seal"} =>
            /\ freezes[Target].archive \in SUBSET Envelope
            /\ Holds(freezes[Target].archive, l.manifest.payload.content)
        /\ l.pc = "seal" => freezes[Target].report \in Report
        /\ l.pc = "point" => freezes[Target].seal # None
    BY DEF IInv, ManifestsFit
  <2>3. l.pc # "idle" => Fits(l.manifest)'
    BY <1>1, <1>6, <2>2 DEF Fits, Backed, Holds
  <2> QED
    BY <1>1, <1>2, <1>3, <1>4, <1>6, <2>1, <2>2, <2>3 DEF ManifestsFit, Holds
<1> QED
  BY <1>5, <1>6

\* The freezes themselves.
LEMMA FreezesKept ==
    ASSUME IInv, UNCHANGED <<freezes, serving>>
    PROVE  ServingIsSealed' /\ SealedFreezeIsCanonical'
  BY DEF IInv, ServingIsSealed, SealedFreezeIsCanonical

-----------------------------------------------------------------------------
(* The steps, one after the other.                                         *)

\* A new snapshot does not end earlier.
LEMMA IngestStep == ASSUME IInv, Ingest PROVE IInv'
<1>1. /\ current' \in Snapshot /\ Follows(current')
      /\ UNCHANGED <<archive, report, ratings, summary, manifest, processed, freezes,
                     serving, job>>
  BY DEF Ingest, collection, derived, backtested, frozen
<1>2. current' # None
  BY <1>1, PipelineNoneAssumption
<1>3. current # None => current'.content.end >= current.content.end
  BY <1>1 DEF Follows
<1>4. TypeOK'
  BY <1>1 DEF IInv, TypeOK, Maybe
<1> QED
  BY <1>1, <1>2, <1>3, <1>4, RunsKept, BacktestKept, ManifestsKept, FreezesKept DEF IInv

\* A job that fails leaves what it wrote.
LEMMA FailStep == ASSUME IInv, NEW j \in Jobs, Fail(j) PROVE IInv'
<1>1. /\ job' = [job EXCEPT ![j] = Idle]
      /\ UNCHANGED <<current, archive, report, ratings, summary, manifest, processed,
                     freezes, serving>>
  BY DEF Fail, Ends, store, collection, derived, backtested, frozen
<1>2. /\ job' \in [Jobs -> Locals] /\ job'[j] = Idle
      /\ \A k \in Jobs : k # j => job'[k] = job[k]
  BY <1>1, IdleFields, JobStep DEF IInv
<1>3. \A k \in Jobs : job'[k] \in {job[k], Idle}
  BY <1>2
<1>4. TypeOK'
  BY <1>1, <1>2 DEF IInv, TypeOK
<1>5. current # None => current' # None /\ current'.content.end >= current.content.end
  <2> SUFFICES ASSUME current # None PROVE current.content.end \in Nat
    BY <1>1
  <2> QED
    BY Numbers DEF IInv, TypeOK, Maybe, Snapshot, Content
<1> QED
  BY <1>1, <1>3, <1>4, <1>5, RunsKept, BacktestKept, ManifestsKept, FreezesKept DEF IInv, Jobs

\* A step of publish-snapshot: enough is what it does to its run.
LEMMA RunStep ==
    ASSUME IInv, NEW l \in Locals, job' = [job EXCEPT !["publish-snapshot"] = l],
           archive \subseteq archive', archive' \subseteq Envelope,
           report' \in Maybe(Report), report # None => report' # None,
           UNCHANGED <<current, ratings, summary, manifest, processed, freezes, serving>>,
           RunsAreBacked'
    PROVE  IInv'
<1>1. /\ job' \in [Jobs -> Locals]
      /\ job'["backtest"] = job["backtest"] /\ job'["publish-freeze"] = job["publish-freeze"]
  BY JobStep DEF IInv, Jobs
<1>2. TypeOK'
  BY <1>1 DEF IInv, TypeOK
<1>3. current # None => current' # None /\ current'.content.end >= current.content.end
  <2> SUFFICES ASSUME current # None PROVE current.content.end \in Nat
    OBVIOUS
  <2> QED
    BY Numbers DEF IInv, TypeOK, Maybe, Snapshot, Content
<1> QED
  BY <1>1, <1>2, <1>3, BacktestKept, ManifestsKept, FreezesKept DEF IInv

\* publish-snapshot starts and opens the payload: no game is accepted yet.
LEMMA RunBegins == ASSUME IInv, ReadMetadata \/ OpenPayload PROVE IInv'
<1> DEFINE j == "publish-snapshot"
<1>1. /\ job \in [Jobs -> Locals] /\ job[j] \in Locals /\ j \in Jobs
      /\ archive \subseteq Envelope /\ report \in Maybe(Report)
  BY DEF IInv, TypeOK, Jobs
<1>2. UNCHANGED <<current, archive, report, ratings, summary, manifest, processed, freezes,
                  serving>>
  BY DEF ReadMetadata, OpenPayload, store, collection, derived, backtested, frozen
<1>3. (report # None /\ report.accepted >= 1) => Holds(archive, report.snapshot)
  BY DEF IInv, RunsAreBacked
<1>4. CASE ReadMetadata
  <2> DEFINE l == [Idle EXCEPT !.pc = "open", !.metadata = current]
  <2>1. current \in Snapshot /\ current # None
    BY <1>4 DEF ReadMetadata, IInv, TypeOK, Maybe
  <2>2. /\ l \in Locals /\ l.pc = "open" /\ l.metadata = current /\ l.accepted = 0
        /\ l.todo = {}
    BY <2>1, IdleFields DEF Locals, Maybe
  <2>3. job' = [job EXCEPT ![j] = l]
    BY <1>4 DEF ReadMetadata
  <2> HIDE DEF l
  <2>4. job'[j] = l
    BY <1>1, <2>3
  <2>5. l.accepted + Cardinality(l.todo) <= Cardinality(Games)
    BY <2>2, Numbers, FS_EmptySet
  <2>6. RunsAreBacked'
    BY <1>2, <1>3, <2>1, <2>2, <2>4, <2>5 DEF RunsAreBacked, Holds
  <2> QED
    BY <1>1, <1>2, <2>2, <2>3, <2>6, RunStep
<1>5. CASE OpenPayload
  <2> DEFINE l == [job[j] EXCEPT !.pc = "append", !.payload = current, !.todo = Games]
  <2>1. job[j].pc = "open"
    BY <1>5 DEF OpenPayload, At
  <2>2. current # None /\ job[j].metadata \in Snapshot /\ job[j].accepted = 0
    BY <2>1 DEF IInv, RunsAreBacked
  <2>3. current \in Snapshot
    BY <2>2 DEF IInv, TypeOK, Maybe
  <2>4. /\ l \in Locals /\ l.pc = "append" /\ l.metadata = job[j].metadata
        /\ l.payload = current /\ l.accepted = 0 /\ l.todo = Games
    BY <1>1, <2>2, <2>3 DEF Locals, Maybe
  <2>5. job' = [job EXCEPT ![j] = l]
    BY <1>5 DEF OpenPayload
  <2> HIDE DEF l
  <2>6. job'[j] = l
    BY <1>1, <2>5
  <2>7. l.accepted + Cardinality(l.todo) <= Cardinality(Games)
    BY <2>4, Numbers
  <2>8. RunsAreBacked'
    BY <1>2, <1>3, <2>2, <2>3, <2>4, <2>6, <2>7 DEF RunsAreBacked, Holds
  <2> QED
    BY <1>1, <1>2, <2>4, <2>5, <2>8, RunStep
<1> QED
  BY <1>4, <1>5

\* A game is appended, skipped or rejected.
LEMMA GameStep == ASSUME IInv, ArchiveGame PROVE IInv'
<1> DEFINE j == "publish-snapshot"
           run == job[j].metadata.content
<1>1. PICK g \in job[j].todo, resolves \in Resolutions :
        LET known == \E e \in archive : e.run = run /\ e.game = g
            new == [run |-> run, game |-> g, of |-> job[j].payload.content]
        IN
        /\ archive' = IF resolves /\ ~known THEN archive \union {new} ELSE archive
        /\ job' = [job EXCEPT ![j].todo = @ \ {g},
                              ![j].accepted = IF resolves /\ ~known THEN @ + 1 ELSE @,
                              ![j].rejected = @ \/ ~resolves]
  BY DEF ArchiveGame
<1> DEFINE known == \E e \in archive : e.run = run /\ e.game = g
           adds == resolves /\ ~known
           new == [run |-> run, game |-> g, of |-> job[j].payload.content]
           accepted == IF adds THEN job[j].accepted + 1 ELSE job[j].accepted
           l == [job[j] EXCEPT !.todo = @ \ {g}, !.accepted = accepted,
                               !.rejected = @ \/ ~resolves]
<1>2. /\ job \in [Jobs -> Locals] /\ job[j] \in Locals /\ j \in Jobs
      /\ archive \subseteq Envelope /\ report \in Maybe(Report)
  BY DEF IInv, TypeOK, Jobs
<1>3. /\ job[j].pc = "append"
      /\ UNCHANGED <<current, report, ratings, summary, manifest, processed, freezes, serving>>
  BY DEF ArchiveGame, At, store, derived, backtested, frozen
<1>4. /\ current # None /\ job[j].metadata \in Snapshot /\ job[j].payload \in Snapshot
      /\ job[j].accepted >= 1 => Holds(archive, run)
      /\ job[j].accepted + Cardinality(job[j].todo) <= Cardinality(Games)
  BY <1>3 DEF IInv, RunsAreBacked
<1>5. /\ job[j].accepted \in 0..Cardinality(Games) /\ job[j].todo \in SUBSET Games
      /\ job[j].rejected \in BOOLEAN
  BY <1>2 DEF Locals
<1>6. run \in Content /\ job[j].payload.content \in Content
  BY <1>4 DEF Snapshot
<1>7. new \in Envelope /\ new.run = run
  BY <1>5, <1>6 DEF Envelope
<1>8. /\ Cardinality(job[j].todo \ {g}) = Cardinality(job[j].todo) - 1
      /\ Cardinality(job[j].todo) \in Nat /\ Cardinality(Games) \in Nat
  BY <1>5, Numbers, FS_RemoveElement
<1>9. /\ Cardinality(job[j].todo \ {g}) \in Nat
      /\ accepted + Cardinality(job[j].todo \ {g}) <= Cardinality(Games)
      /\ accepted \in 0..Cardinality(Games)
  <2>1. Cardinality(job[j].todo \ {g}) \in Nat
    BY <1>5, Numbers
  <2> QED
    BY <1>4, <1>5, <1>8, <2>1
<1>10. archive' = IF adds THEN archive \union {new} ELSE archive
  BY <1>1
<1>11. job' = [job EXCEPT ![j] = l]
  BY <1>1
<1>12. accepted >= 1 => Holds(archive', run)
  <2>1. CASE adds
    BY <1>7, <1>10, <2>1 DEF Holds
  <2>2. CASE ~adds
    BY <1>4, <1>10, <2>2
  <2> QED
    BY <2>1, <2>2
<1> HIDE DEF new, adds, accepted
<1>13. /\ l \in Locals /\ l.pc = "append" /\ l.metadata = job[j].metadata
       /\ l.payload = job[j].payload /\ l.accepted = accepted /\ l.todo = job[j].todo \ {g}
  <2>1. (job[j].rejected \/ ~resolves) \in BOOLEAN
    OBVIOUS
  <2> HIDE DEF known
  <2>2. job[j].todo \ {g} \in SUBSET Games
    BY <1>5
  <2> QED
    BY <1>2, <1>3, <1>9, <2>1, <2>2 DEF Locals
<1> HIDE DEF l
<1>14. job'[j] = l
  BY <1>2, <1>11
<1>15. archive \subseteq archive' /\ archive' \subseteq Envelope
  BY <1>2, <1>7, <1>10
<1>16. RunsAreBacked'
  <2>1. (report # None /\ report.accepted >= 1) => Holds(archive', report.snapshot)
    BY <1>15, HoldsMore DEF IInv, RunsAreBacked
  <2> QED
    BY <1>3, <1>4, <1>9, <1>12, <1>13, <1>14, <2>1 DEF RunsAreBacked, Holds
<1> QED
  BY <1>2, <1>3, <1>11, <1>13, <1>15, <1>16, RunStep

\* The report of a run states what the run accepted.
LEMMA ReportWritten ==
    ASSUME IInv, WriteReport
    PROVE  /\ report' \in Report /\ report' # None /\ report'.no = Reports + 1
           /\ report'.snapshot = job["publish-snapshot"].metadata.content
           /\ report'.accepted = job["publish-snapshot"].accepted
<1> DEFINE j == "publish-snapshot"
           new == [snapshot |-> job[j].metadata.content, accepted |-> job[j].accepted,
                   rejected |-> job[j].rejected, no |-> Reports + 1]
<1>1. job[j] \in Locals /\ report \in Maybe(Report)
  BY DEF IInv, TypeOK, Jobs
<1>2. job[j].pc = "append" /\ Reports < MaxReports /\ report' = new
  BY DEF WriteReport, At
<1>3. job[j].metadata \in Snapshot
  BY <1>2 DEF IInv, RunsAreBacked
<1>4. /\ job[j].accepted \in 0..Cardinality(Games) /\ job[j].rejected \in BOOLEAN
      /\ job[j].metadata.content \in Content
  BY <1>1, <1>3 DEF Locals, Snapshot
<1>5. Reports + 1 \in 1..MaxReports
  BY <1>1, <1>2, Numbers DEF Reports, Maybe, Report
<1>6. new \in Report
  BY <1>4, <1>5 DEF Report
<1> QED
  BY <1>2, <1>6, PipelineNoneAssumption

LEMMA ReportStep == ASSUME IInv, WriteReport PROVE IInv'
<1> DEFINE j == "publish-snapshot"
<1>1. /\ job \in [Jobs -> Locals] /\ j \in Jobs /\ archive \subseteq Envelope
  BY DEF IInv, TypeOK, Jobs
<1>2. /\ job[j].pc = "append" /\ job' = [job EXCEPT ![j] = Idle]
      /\ UNCHANGED <<current, archive, ratings, summary, manifest, processed, freezes, serving>>
  BY DEF WriteReport, At, Ends, store, derived, backtested, frozen
<1>3. job[j].accepted >= 1 => Holds(archive, job[j].metadata.content)
  BY <1>2 DEF IInv, RunsAreBacked
<1>4. /\ report' \in Maybe(Report) /\ report' # None
      /\ report'.snapshot = job[j].metadata.content /\ report'.accepted = job[j].accepted
  BY ReportWritten DEF Maybe
<1>5. job'[j] = Idle
  BY <1>1, <1>2
<1>6. Idle.accepted + Cardinality(Idle.todo) <= Cardinality(Games)
  BY IdleFields, Numbers, FS_EmptySet
<1>7. RunsAreBacked'
  BY <1>2, <1>3, <1>4, <1>5, <1>6, IdleFields DEF RunsAreBacked, Holds
<1> QED
  BY <1>1, <1>2, <1>4, <1>7, IdleFields, RunStep

\* A step of backtest that leaves the manifest alone, or a step of the weekly
\* refresh: enough is what it does to its own locals.
LEMMA DerivedStep ==
    ASSUME IInv, NEW j \in {"backtest", "weekly"}, job' \in [Jobs -> Locals],
           \A k \in Jobs : k # j => job'[k] = job[k],
           ratings' \in Maybe(Derived), summary' \in Maybe(Derived),
           processed' \in Maybe(Input),
           UNCHANGED <<current, archive, report, manifest, freezes, serving>>,
           BacktestIsBacked'
    PROVE  IInv'
<1>1. /\ job'["publish-snapshot"] = job["publish-snapshot"]
      /\ job'["publish-freeze"] = job["publish-freeze"]
  BY DEF Jobs
<1>2. TypeOK'
  BY DEF IInv, TypeOK
<1>3. current # None => current' # None /\ current'.content.end >= current.content.end
  <2> SUFFICES ASSUME current # None PROVE current.content.end \in Nat
    OBVIOUS
  <2> QED
    BY Numbers DEF IInv, TypeOK, Maybe, Snapshot, Content
<1> QED
  BY <1>1, <1>2, <1>3, RunsKept, ManifestsKept, FreezesKept DEF IInv

\* What is known of a backtest past its check.
LEMMA Accepted ==
    ASSUME IInv, job["backtest"].pc \in {"ratings", "summary", "seal", "record"}
    PROVE  LET l == job["backtest"] IN
           /\ current # None /\ l.payload \in Snapshot
           /\ l.payload.content.end <= current.content.end
           /\ manifest # None => manifest.payload.content.end <= l.payload.content.end
           /\ report # None /\ l.input \in Input /\ Backed(l.payload, l.input.archive)
           /\ l.pc \in {"summary", "seal"} => ratings \in Derived
           /\ l.pc = "seal" => summary \in Derived
  BY DEF IInv, BacktestIsBacked

\* backtest reads the published snapshot.
LEMMA BacktestReads == ASSUME IInv, ReadSnapshot PROVE IInv'
<1> DEFINE j == "backtest"
           l == [Idle EXCEPT !.pc = "check", !.payload = current]
<1>1. /\ current # None /\ job' = [job EXCEPT ![j] = l] /\ j \in Jobs
      /\ UNCHANGED <<current, archive, report, ratings, summary, manifest, processed, freezes,
                     serving>>
  BY DEF ReadSnapshot, store, collection, derived, backtested, frozen, Jobs
<1>2. current \in Snapshot
  BY <1>1 DEF IInv, TypeOK, Maybe
<1>3. l \in Locals /\ l.pc = "check" /\ l.payload = current
  BY <1>2, IdleFields DEF Locals, Maybe
<1> HIDE DEF l
<1>4. /\ job' \in [Jobs -> Locals] /\ job'[j] = l
      /\ \A k \in Jobs : k # j => job'[k] = job[k]
  BY <1>1, <1>3, JobStep DEF IInv
<1>5. current.content.end \in Nat
  BY <1>2, Numbers DEF Snapshot, Content
<1>6. manifest # None => manifest.payload.content.end <= current.content.end
  BY DEF IInv, ManifestsFit
<1>7. BacktestIsBacked'
  BY <1>1, <1>2, <1>3, <1>4, <1>5, <1>6 DEF BacktestIsBacked
<1> QED
  BY <1>1, <1>4, <1>7, DerivedStep DEF IInv, TypeOK

\* backtest skips what it has processed.
LEMMA BacktestStops == ASSUME IInv, BacktestSkips PROVE IInv'
<1>1. /\ job' = [job EXCEPT !["backtest"] = Idle]
      /\ UNCHANGED <<current, archive, report, ratings, summary, manifest, processed, freezes,
                     serving>>
  BY DEF BacktestSkips, Ends, store, collection, derived, backtested, frozen
<1>2. /\ job' \in [Jobs -> Locals] /\ job'["backtest"] = Idle
      /\ \A k \in Jobs : k # "backtest" => job'[k] = job[k]
  BY <1>1, IdleFields, JobStep DEF IInv, Jobs
<1>3. BacktestIsBacked'
  BY <1>2, IdleFields DEF BacktestIsBacked
<1> QED
  BY <1>1, <1>2, <1>3, DerivedStep DEF IInv, TypeOK

\* An accepted input is backed: the report is of the snapshot and accepted a
\* game, so the archive has one.
LEMMA BacktestGoesOn == ASSUME IInv, BacktestAccepts PROVE IInv'
<1> DEFINE j == "backtest"
           l == [job[j] EXCEPT !.pc = "ratings", !.input = BacktestInput]
<1>1. /\ job[j].pc = "check" /\ Verified(job[j].payload.content)
      /\ job' = [job EXCEPT ![j] = l] /\ j \in Jobs
      /\ UNCHANGED <<current, archive, report, ratings, summary, manifest, processed, freezes,
                     serving>>
  BY DEF BacktestAccepts, At, store, collection, derived, backtested, frozen, Jobs
<1>2. job[j] \in Locals /\ archive \subseteq Envelope /\ report \in Maybe(Report)
  BY <1>1 DEF IInv, TypeOK
<1>3. /\ current # None /\ job[j].payload \in Snapshot
      /\ job[j].payload.content.end <= current.content.end
      /\ manifest # None => manifest.payload.content.end <= job[j].payload.content.end
  BY <1>1 DEF IInv, BacktestIsBacked
<1>4. report \in Report /\ report # None /\ Holds(archive, job[j].payload.content)
  BY <1>1, <1>2 DEF Verified, Maybe, IInv, RunsAreBacked
<1>5. BacktestInput \in Input /\ BacktestInput.archive = archive
  BY <1>2, <1>3, <1>4 DEF BacktestInput, Input, Snapshot
<1>6. /\ l \in Locals /\ l.pc = "ratings" /\ l.payload = job[j].payload
      /\ l.input = BacktestInput
  BY <1>2, <1>5 DEF Locals, Maybe
<1> HIDE DEF l
<1>7. /\ job' \in [Jobs -> Locals] /\ job'[j] = l
      /\ \A k \in Jobs : k # j => job'[k] = job[k]
  BY <1>1, <1>6, JobStep DEF IInv
<1>8. BacktestIsBacked'
  BY <1>1, <1>3, <1>4, <1>5, <1>6, <1>7 DEF BacktestIsBacked, Backed, Holds
<1> QED
  BY <1>1, <1>7, <1>8, DerivedStep DEF IInv, TypeOK

\* What both runs of the walk-forward write is a derived artifact.
LEMMA Sources ==
    ASSUME IInv, NEW j \in {"backtest", "weekly"},
           j = "backtest" => job[j].pc \in {"ratings", "summary"}
    PROVE  Source(j) \in Derived
<1>1. CASE j = "weekly"
  BY <1>1 DEF Source, FromDatabase, Derived
<1>2. CASE j = "backtest"
  <2>1. job[j].payload.content \in Content
    BY <1>2, Accepted DEF Snapshot
  <2> QED
    BY <1>2, <2>1 DEF Source, FromSnapshot, Derived
<1> QED
  BY <1>1, <1>2

\* The walk-forward writes its ratings, for backtest or for the weekly refresh.
LEMMA RatingsStep == ASSUME IInv, NEW j \in {"backtest", "weekly"}, WriteRatings(j) PROVE IInv'
<1>1. /\ job[j].pc = "ratings" /\ ratings' = Source(j) /\ Goes(j, "summary") /\ j \in Jobs
      /\ UNCHANGED <<current, archive, report, summary, manifest, processed, freezes, serving>>
  BY DEF WriteRatings, At, store, collection, backtested, frozen, Jobs
<1>2. ratings' \in Derived
  BY <1>1, Sources
<1>3. /\ job' \in [Jobs -> Locals] /\ job'[j].pc = "summary"
      /\ \A k \in Jobs : k # j => job'[k] = job[k]
      /\ job'[j].payload = job[j].payload /\ job'[j].input = job[j].input
  BY <1>1, JobGoes DEF IInv
<1>4. BacktestIsBacked'
  <2>1. CASE j = "backtest"
    BY <1>1, <1>2, <1>3, <2>1, Accepted DEF BacktestIsBacked, Backed, Holds
  <2>2. CASE j = "weekly"
    <3>1. job'["backtest"] = job["backtest"]
      BY <1>3, <2>2 DEF Jobs
    <3> QED
      BY <1>1, <1>2, <3>1 DEF IInv, BacktestIsBacked, Backed, Holds
  <2> QED
    BY <2>1, <2>2
<1> QED
  BY <1>1, <1>2, <1>3, <1>4, DerivedStep DEF IInv, TypeOK, Maybe

\* Then it writes the summary.
LEMMA SummaryStep == ASSUME IInv, NEW j \in {"backtest", "weekly"}, WriteSummary(j) PROVE IInv'
<1>1. /\ job[j].pc = "summary" /\ summary' = Source(j) /\ j \in Jobs
      /\ IF j = "weekly" THEN Ends(j) ELSE Goes(j, "seal")
      /\ UNCHANGED <<current, archive, report, ratings, manifest, processed, freezes, serving>>
  BY DEF WriteSummary, At, store, collection, backtested, frozen, Jobs
<1>2. summary' \in Derived
  BY <1>1, Sources
<1>3. CASE j = "backtest"
  <2>1. /\ job' \in [Jobs -> Locals] /\ job'[j].pc = "seal"
        /\ \A k \in Jobs : k # j => job'[k] = job[k]
        /\ job'[j].payload = job[j].payload /\ job'[j].input = job[j].input
    BY <1>1, <1>3, JobGoes DEF IInv
  <2>2. BacktestIsBacked'
    BY <1>1, <1>2, <1>3, <2>1, Accepted DEF BacktestIsBacked, Backed, Holds
  <2> QED
    BY <1>1, <1>2, <2>1, <2>2, DerivedStep DEF IInv, TypeOK, Maybe
<1>4. CASE j = "weekly"
  <2>1. job' \in [Jobs -> Locals] /\ \A k \in Jobs : k # j => job'[k] = job[k]
    BY <1>1, <1>4, IdleFields, JobStep DEF IInv, Ends
  <2>2. job'["backtest"] = job["backtest"]
    BY <1>4, <2>1 DEF Jobs
  <2>3. BacktestIsBacked'
    BY <1>1, <1>2, <2>2 DEF IInv, BacktestIsBacked, Backed, Holds
  <2> QED
    BY <1>1, <1>2, <2>1, <2>3, DerivedStep DEF IInv, TypeOK, Maybe
<1> QED
  BY <1>3, <1>4

\* The weekly refresh starts.
LEMMA WeeklyBegins == ASSUME IInv, WeeklyRefresh PROVE IInv'
<1> DEFINE j == "weekly"
<1>1. /\ Goes(j, "ratings") /\ j \in Jobs
      /\ UNCHANGED <<current, archive, report, ratings, summary, manifest, processed, freezes,
                     serving>>
  BY DEF WeeklyRefresh, store, collection, derived, backtested, frozen, Jobs
<1>2. job' \in [Jobs -> Locals] /\ \A k \in Jobs : k # j => job'[k] = job[k]
  BY <1>1, JobGoes DEF IInv
<1>3. job'["backtest"] = job["backtest"]
  BY <1>2 DEF Jobs
<1>4. BacktestIsBacked'
  BY <1>1, <1>3 DEF IInv, BacktestIsBacked, Backed, Holds
<1> QED
  BY <1>1, <1>2, <1>4, DerivedStep DEF IInv, TypeOK

\* The success of a backtest is recorded.
LEMMA BacktestRecorded == ASSUME IInv, RecordBacktest PROVE IInv'
<1> DEFINE j == "backtest"
<1>1. /\ job[j].pc = "record" /\ processed' = job[j].input /\ job' = [job EXCEPT ![j] = Idle]
      /\ j \in Jobs
      /\ UNCHANGED <<current, archive, report, ratings, summary, manifest, freezes, serving>>
  BY DEF RecordBacktest, At, Ends, store, collection, derived, frozen, Jobs
<1>2. /\ job' \in [Jobs -> Locals] /\ job'[j] = Idle
      /\ \A k \in Jobs : k # j => job'[k] = job[k]
  BY <1>1, IdleFields, JobStep DEF IInv
<1>3. BacktestIsBacked'
  BY <1>2, IdleFields DEF BacktestIsBacked
<1>4. processed' \in Maybe(Input)
  BY <1>1, Accepted DEF Maybe
<1> QED
  BY <1>1, <1>2, <1>3, <1>4, DerivedStep DEF IInv, TypeOK

\* The end of what is served is a number, and no freeze is served before
\* there is a manifest.
LEMMA ServedEnd ==
    ASSUME IInv
    PROVE  EndOfServed \in Nat /\ (manifest = None => EndOfServed = 0)
<1>1. CASE serving = None
  BY <1>1 DEF EndOfServed
<1>2. CASE serving # None
  <2>1. serving \in 1..MaxManifests /\ freezes[serving].seal # None
    BY <1>2 DEF IInv, TypeOK, Maybe, ServingIsSealed
  <2>2. freezes[serving] \in Freeze /\ serving \in DOMAIN freezes
    BY <2>1 DEF IInv, TypeOK
  <2>3. freezes[serving].seal \in Seal
    BY <2>1, <2>2 DEF Freeze, Maybe
  <2>4. EndOfServed \in Nat
    BY <1>2, <2>3, Numbers DEF EndOfServed, ServedSeal, Seal, Snapshot, Content
  <2>5. manifest # None
    <3> SUFFICES ASSUME manifest = None PROVE FALSE
      OBVIOUS
    <3>1. Manifests = 0 /\ serving > Manifests
      BY <2>1, Numbers DEF Manifests
    <3>2. freezes[serving] = NoFreeze
      BY <2>2, <3>1 DEF IInv, ManifestsFit
    <3> QED
      BY <2>1, <3>2 DEF NoFreeze
  <2> QED
    BY <2>4, <2>5
<1> QED
  BY <1>1, <1>2

\* The numbers in a manifest.
LEMMA ManifestFields ==
    ASSUME NEW n \in Manifest
    PROVE  n.payload.content.end \in Nat /\ n.no \in Nat
<1>1. n.payload \in Snapshot /\ n.no \in 1..MaxManifests
  BY DEF Manifest
<1>2. n.payload.content \in Content
  BY <1>1 DEF Snapshot
<1>3. n.payload.content.end \in Days
  BY <1>2 DEF Content
<1>4. n.payload.content.end \in Nat
  BY <1>3, DaysAssumption
<1>5. \A i \in 1..MaxManifests : i \in Nat
  BY BoundsAssumption
<1> QED
  BY <1>1, <1>4, <1>5

\* The manifest states the payload and the archive the backtest was run with.
LEMMA ManifestWritten ==
    ASSUME IInv, SealBacktest
    PROVE  LET b == job["backtest"] IN
           /\ manifest' \in Manifest /\ manifest' # None /\ manifest'.no = Manifests + 1
           /\ manifest'.payload = b.payload /\ manifest'.archive = b.input.archive
<1> DEFINE b == job["backtest"]
           m == [no |-> Manifests + 1, payload |-> b.payload, metadata |-> current,
                 ratings |-> ratings, summary |-> summary,
                 report |-> b.input.report, archive |-> b.input.archive]
<1>1. b.pc = "seal" /\ Manifests < MaxManifests /\ manifest' = m
  BY DEF SealBacktest, At
<1>2. /\ current # None /\ b.payload \in Snapshot /\ b.input \in Input
      /\ ratings \in Derived /\ summary \in Derived
  BY <1>1, Accepted
<1>3. current \in Snapshot
  BY <1>2 DEF IInv, TypeOK, Maybe
<1>4. Manifests + 1 \in 1..MaxManifests
  BY <1>1, LastManifest, Numbers DEF IInv
<1>5. m \in Manifest
  BY <1>2, <1>3, <1>4 DEF Manifest, Input
<1> QED
  BY <1>1, <1>5, PipelineNoneAssumption

\* A new manifest speaks of an empty freeze and ends no earlier than the last.
LEMMA BacktestSealed == ASSUME IInv, SealBacktest PROVE IInv'
<1> DEFINE j == "backtest"
           b == job[j]
           m == manifest'
<1>1. /\ b.pc = "seal" /\ Manifests < MaxManifests /\ Goes(j, "record") /\ j \in Jobs
      /\ UNCHANGED <<current, archive, report, ratings, summary, processed, freezes, serving>>
  BY DEF SealBacktest, At, store, collection, derived, frozen, Jobs
<1>2. /\ current # None /\ b.payload \in Snapshot
      /\ b.payload.content.end <= current.content.end
      /\ manifest # None => manifest.payload.content.end <= b.payload.content.end
      /\ report # None /\ b.input \in Input /\ Backed(b.payload, b.input.archive)
      /\ ratings \in Derived /\ summary \in Derived
  BY <1>1, Accepted
<1>3. current \in Snapshot
  BY <1>2 DEF IInv, TypeOK, Maybe
<1>4. /\ Manifests \in 0..MaxManifests /\ Manifests + 1 \in 1..MaxManifests
      /\ manifest # None => manifest.no = Manifests /\ manifest \in Manifest
  BY <1>1, LastManifest, Numbers DEF IInv, TypeOK, Maybe
<1>5. m \in Manifest
  BY ManifestWritten
<1>6. /\ m.no = Manifests + 1 /\ m.payload = b.payload /\ m.archive = b.input.archive
      /\ manifest' = m
  BY ManifestWritten
<1>7. m # None
  BY ManifestWritten
<1>8. /\ job' \in [Jobs -> Locals] /\ job'[j].pc = "record" /\ job'[j].payload = b.payload
      /\ job'[j].input = b.input /\ \A k \in Jobs : k # j => job'[k] = job[k]
  BY <1>1, JobGoes DEF IInv
<1>9. /\ job'["publish-snapshot"] = job["publish-snapshot"]
      /\ job'["publish-freeze"] = job["publish-freeze"]
  BY <1>8 DEF Jobs
<1>10. TypeOK'
  BY <1>1, <1>5, <1>8 DEF IInv, TypeOK, Maybe
<1>11. b.payload.content.end \in Nat /\ current.content.end \in Nat
  BY <1>2, <1>3, Numbers DEF Snapshot, Content
<1>12. BacktestIsBacked'
  BY <1>1, <1>2, <1>6, <1>8, <1>11 DEF BacktestIsBacked, Backed, Holds
<1>13. Manifests' = Manifests + 1
  BY <1>1, <1>6, <1>7 DEF Manifests
<1>14. EndOfServed' = EndOfServed /\ EndOfServed <= b.payload.content.end
  <2>1. EndOfServed' = EndOfServed
    BY <1>1 DEF EndOfServed, ServedSeal
  <2>2. CASE manifest = None
    BY <1>11, <2>1, <2>2, ServedEnd
  <2>3. CASE manifest # None
    <3>1. EndOfServed <= manifest.payload.content.end /\ EndOfServed \in Nat
      BY <2>3, ServedEnd DEF IInv, ManifestsFit, Fits
    <3>2. manifest.payload.content.end \in Nat
      BY <1>4, <2>3, Numbers DEF Manifest, Snapshot, Content
    <3> QED
      BY <1>2, <1>11, <2>1, <2>3, <3>1, <3>2
  <2> QED
    BY <2>2, <2>3
<1>15. freezes[m.no] = NoFreeze
  BY <1>4, <1>6 DEF IInv, TypeOK, ManifestsFit
<1>16. manifest' # None /\ Fits(manifest)'
  <2>1. freezes'[m.no].archive = None /\ freezes'[m.no].seal = None
    BY <1>1, <1>15 DEF NoFreeze
  <2> QED
    BY <1>1, <1>2, <1>6, <1>7, <1>14, <2>1 DEF Fits, Backed, Holds
<1>17. \A n \in DOMAIN freezes' : n > Manifests' => freezes'[n] = NoFreeze
  BY <1>1, <1>4, <1>13 DEF IInv, TypeOK, ManifestsFit
<1>18. /\ manifest' = m /\ m.payload.content.end <= current'.content.end
       /\ report' # None /\ current' # None
  BY <1>1, <1>2, <1>6
<1> DEFINE l == job["publish-freeze"]
<1>19. l.pc # "idle" =>
        /\ l.manifest \in Manifest /\ Fits(l.manifest)
        /\ l.manifest.payload.content.end <= m.payload.content.end
        /\ l.manifest.no < m.no
  <2> SUFFICES ASSUME l.pc # "idle"
               PROVE  /\ l.manifest \in Manifest /\ Fits(l.manifest)
                      /\ l.manifest.payload.content.end <= m.payload.content.end
                      /\ l.manifest.no < m.no
    OBVIOUS
  <2>1. /\ manifest # None /\ l.manifest \in Manifest /\ Fits(l.manifest)
        /\ l.manifest.payload.content.end <= manifest.payload.content.end
        /\ l.manifest.no <= manifest.no
    BY DEF IInv, ManifestsFit
  <2>2. \A n \in Manifest : n.payload.content.end \in Nat /\ n.no \in Nat
    BY ManifestFields
  <2> HIDE DEF l
  <2> QED
    BY <1>2, <1>4, <1>6, <1>11, <2>1, <2>2
<1>20. l.pc # "idle" => Fits(l.manifest)'
  BY <1>1, <1>9, <1>14, <1>19 DEF Fits, Backed, Holds
<1>21. l.pc # "idle" => l.manifest.no # m.no /\ l.manifest.no <= m.no
  BY <1>4, <1>6, <1>19 DEF Manifest
<1>22. Target' = Target
  BY <1>9 DEF Target
<1>23. /\ l.pc \in {"copy-archive", "copy-report", "seal"} => freezes[Target].backtest \in Manifest
       /\ l.pc \in {"copy-report", "seal"} =>
            /\ freezes[Target].archive \in SUBSET Envelope
            /\ Holds(freezes[Target].archive, l.manifest.payload.content)
       /\ l.pc = "seal" => freezes[Target].report \in Report
       /\ l.pc = "point" => freezes[Target].seal # None
  BY DEF IInv, ManifestsFit
<1>24. ManifestsFit'
  BY <1>1, <1>9, <1>16, <1>17, <1>18, <1>19, <1>20, <1>21, <1>22, <1>23 DEF ManifestsFit, Holds
<1>25. RunsAreBacked'
  BY <1>1, <1>9, RunsKept
<1> QED
  BY <1>1, <1>10, <1>12, <1>24, <1>25, FreezesKept DEF IInv

-----------------------------------------------------------------------------
(* publish-freeze.                                                         *)

\* What a step of publish-freeze that writes no freeze leaves alone.
LEMMA PublicationStep ==
    ASSUME IInv, NEW l \in Locals, job' = [job EXCEPT !["publish-freeze"] = l],
           freezes' \in [1..MaxManifests -> Freeze], serving' \in Maybe(1..MaxManifests),
           UNCHANGED <<current, archive, report, ratings, summary, manifest, processed>>
    PROVE  /\ TypeOK' /\ RunsAreBacked' /\ BacktestIsBacked'
           /\ job'["publish-freeze"] = l
<1>1. /\ job' \in [Jobs -> Locals] /\ job'["publish-freeze"] = l
      /\ job'["publish-snapshot"] = job["publish-snapshot"]
      /\ job'["backtest"] = job["backtest"]
  BY JobStep DEF IInv, Jobs
<1>2. TypeOK'
  BY <1>1 DEF IInv, TypeOK
<1>3. current # None => current' # None /\ current'.content.end >= current.content.end
  <2> SUFFICES ASSUME current # None PROVE current.content.end \in Nat
    OBVIOUS
  <2> QED
    BY Numbers DEF IInv, TypeOK, Maybe, Snapshot, Content
<1> QED
  BY <1>1, <1>2, <1>3, RunsKept, BacktestKept

\* The manifest is read and verified.
LEMMA VerifyStep == ASSUME IInv, VerifyBacktest PROVE IInv'
<1> DEFINE j == "publish-freeze"
           l == [Idle EXCEPT !.pc = "copy-ratings", !.manifest = manifest]
<1>1. /\ manifest # None /\ job' = [job EXCEPT ![j] = l]
      /\ UNCHANGED <<current, archive, report, ratings, summary, manifest, processed, freezes,
                     serving>>
  BY DEF VerifyBacktest, store, collection, derived, backtested, frozen
<1>2. manifest \in Manifest
  BY <1>1 DEF IInv, TypeOK, Maybe
<1>3. l \in Locals /\ l.pc = "copy-ratings" /\ l.manifest = manifest
  BY <1>2, IdleFields DEF Locals, Maybe
<1> HIDE DEF l
<1>4. /\ TypeOK' /\ RunsAreBacked' /\ BacktestIsBacked' /\ job'[j] = l
  BY <1>1, <1>3, PublicationStep DEF IInv, TypeOK
<1>5. /\ Fits(manifest) /\ report # None /\ current # None
      /\ manifest.payload.content.end <= current.content.end
      /\ \A n \in DOMAIN freezes : n > Manifests => freezes[n] = NoFreeze
  BY <1>1 DEF IInv, ManifestsFit
<1>6. EndOfServed' = EndOfServed /\ Manifests' = Manifests
  BY <1>1 DEF EndOfServed, ServedSeal, Manifests
<1>7. Fits(manifest)'
  BY <1>1, <1>5, <1>6 DEF Fits, Backed, Holds
<1>8. job'[j].manifest = manifest' /\ job'[j].pc = "copy-ratings"
  BY <1>1, <1>3, <1>4
<1>9. /\ manifest.payload.content.end <= manifest.payload.content.end
      /\ manifest.no <= manifest.no
  BY <1>2, ManifestFields
<1>10. Fits(job[j].manifest)'
  BY <1>1, <1>5, <1>6, <1>8 DEF Fits, Backed, Holds
<1>11. ManifestsFit'
  BY <1>1, <1>2, <1>5, <1>6, <1>7, <1>8, <1>9, <1>10 DEF ManifestsFit
<1> QED
  BY <1>1, <1>4, <1>11, FreezesKept DEF IInv

\* What is known of a publication that is running.
LEMMA PublicationRuns ==
    ASSUME IInv, job["publish-freeze"].pc # "idle"
    PROVE  LET l == job["publish-freeze"]
               m == l.manifest
           IN
           /\ manifest # None /\ manifest \in Manifest /\ m \in Manifest /\ Fits(m)
           /\ m.payload.content.end <= manifest.payload.content.end
           /\ m.no <= manifest.no /\ (m.no = manifest.no => m = manifest)
           /\ Target = m.no /\ Target \in 1..MaxManifests /\ freezes[Target] \in Freeze
<1>1. manifest # None /\ job["publish-freeze"].manifest \in Manifest
  BY DEF IInv, ManifestsFit
<1>2. Target \in 1..MaxManifests
  BY <1>1 DEF Target, Manifest
<1> QED
  BY <1>1, <1>2 DEF IInv, ManifestsFit, TypeOK, Maybe, Target

\* A file of the freeze is written, or found to be there: enough is what the
\* new freeze is like.
LEMMA FreezeWritten ==
    ASSUME IInv, job["publish-freeze"].pc # "idle", NEW f \in Freeze,
           NEW pc \in {"copy-summary", "copy-backtest", "copy-archive", "copy-report",
                       "seal", "point"},
           freezes' = [freezes EXCEPT ![Target] = f], Goes("publish-freeze", pc),
           UNCHANGED <<current, archive, report, ratings, summary, manifest, processed, serving>>,
           f.archive # None => Holds(f.archive, job["publish-freeze"].manifest.payload.content),
           f.seal # None =>
                /\ f.seal.payload = job["publish-freeze"].manifest.payload
                /\ Holds(f.seal.archive, f.seal.payload.content),
           freezes[Target].seal # None => f.seal = freezes[Target].seal,
           pc \in {"copy-archive", "copy-report", "seal"} => f.backtest \in Manifest,
           pc \in {"copy-report", "seal"} =>
                /\ f.archive \in SUBSET Envelope
                /\ Holds(f.archive, job["publish-freeze"].manifest.payload.content),
           pc = "seal" => f.report \in Report,
           pc = "point" => f.seal # None
    PROVE  IInv'
<1> DEFINE j == "publish-freeze"
           m == job[j].manifest
           l == [job[j] EXCEPT !.pc = pc]
<1>1. /\ manifest # None /\ manifest \in Manifest /\ m \in Manifest /\ Fits(m)
      /\ m.payload.content.end <= manifest.payload.content.end
      /\ m.no <= manifest.no /\ (m.no = manifest.no => m = manifest)
      /\ Target = m.no /\ Target \in 1..MaxManifests /\ freezes[Target] \in Freeze
  BY PublicationRuns
<1>2. l \in Locals /\ l.pc = pc /\ l.manifest = m
  BY DEF IInv, TypeOK, Locals, Jobs
<1>3. job' = [job EXCEPT ![j] = l]
  BY DEF Goes
<1> HIDE DEF l
<1>4. freezes \in [1..MaxManifests -> Freeze] /\ serving \in Maybe(1..MaxManifests)
  BY DEF IInv, TypeOK
<1>5. /\ freezes' \in [1..MaxManifests -> Freeze] /\ freezes'[Target] = f
      /\ \A n \in 1..MaxManifests : n # Target => freezes'[n] = freezes[n]
  BY <1>1, <1>4
<1>6. /\ TypeOK' /\ RunsAreBacked' /\ BacktestIsBacked' /\ job'[j] = l
  BY <1>2, <1>3, <1>4, <1>5, PublicationStep
<1>7. Target' = Target
  BY <1>2, <1>6 DEF Target
<1>8. /\ ServingIsSealed /\ SealedFreezeIsCanonical
  BY DEF IInv
<1>9. serving # None => freezes'[serving].seal = freezes[serving].seal
  BY <1>4, <1>5, <1>8 DEF ServingIsSealed, Maybe
<1>10. EndOfServed' = EndOfServed /\ Manifests' = Manifests
  BY <1>9 DEF EndOfServed, ServedSeal, Manifests
<1>11. ServingIsSealed'
  BY <1>8, <1>9 DEF ServingIsSealed
<1>12. SealedFreezeIsCanonical'
  <2> SUFFICES ASSUME NEW n \in DOMAIN freezes', freezes'[n].seal # None
               PROVE  Holds(freezes'[n].seal.archive, freezes'[n].seal.payload.content)
    BY DEF SealedFreezeIsCanonical, Holds
  <2>1. CASE n = Target
    BY <1>5, <2>1
  <2>2. CASE n # Target
    BY <1>4, <1>5, <1>8, <2>2 DEF SealedFreezeIsCanonical, Holds
  <2> QED
    BY <2>1, <2>2
<1>13. m.no = Manifests \/ m.no < Manifests
  <2>1. manifest.no = Manifests
    BY <1>1, LastManifest DEF IInv
  <2> QED
    BY <1>1, <2>1, ManifestFields
<1>14. \A n \in DOMAIN freezes' : n > Manifests' => freezes'[n] = NoFreeze
  <2> SUFFICES ASSUME NEW n \in 1..MaxManifests, n > Manifests
               PROVE  freezes'[n] = NoFreeze
    BY <1>5, <1>10
  <2>1. n # Target
    BY <1>1, <1>13, LastManifest DEF IInv
  <2>2. freezes[n] = NoFreeze
    BY <1>4 DEF IInv, ManifestsFit
  <2> QED
    BY <1>5, <2>1, <2>2
<1>15. /\ Holds(m.archive, m.payload.content) /\ m.archive \subseteq archive
       /\ f.archive # None => Holds(f.archive, m.payload.content)
       /\ f.seal # None => f.seal.payload = m.payload
       /\ EndOfServed <= m.payload.content.end
  BY <1>1 DEF Fits, Backed
<1>16. Fits(job[j].manifest)'
  BY <1>1, <1>2, <1>5, <1>6, <1>7, <1>10, <1>15 DEF Fits, Backed, Holds
<1>17. /\ Fits(manifest) /\ report # None /\ current # None
       /\ manifest.payload.content.end <= current.content.end
  BY <1>1 DEF IInv, ManifestsFit
<1>18. Fits(manifest)'
  <2>1. CASE m.no = manifest.no
    BY <1>1, <1>5, <1>10, <1>15, <2>1 DEF Fits, Backed, Holds
  <2>2. CASE m.no # manifest.no
    <3>1. freezes'[manifest.no] = freezes[manifest.no]
      BY <1>1, <1>5, <2>2 DEF Manifest
    <3> QED
      BY <1>10, <1>17, <3>1 DEF Fits, Backed, Holds
  <2> QED
    BY <2>1, <2>2
<1>19. /\ job'[j].pc = pc /\ job'[j].manifest = m /\ freezes'[Target'] = f
  BY <1>2, <1>5, <1>6, <1>7
<1>20. ManifestsFit'
  BY <1>1, <1>14, <1>16, <1>17, <1>18, <1>19 DEF ManifestsFit, Holds
<1> QED
  BY <1>6, <1>11, <1>12, <1>20 DEF IInv

\* What is known of the freeze that is being written.
LEMMA TargetFreeze ==
    ASSUME IInv, job["publish-freeze"].pc # "idle"
    PROVE  LET f == freezes[Target]
               m == job["publish-freeze"].manifest
           IN
           /\ f.archive # None => Holds(f.archive, m.payload.content)
           /\ f.seal # None =>
                /\ f.seal.payload = m.payload
                /\ Holds(f.seal.archive, f.seal.payload.content)
<1>1. /\ Fits(job["publish-freeze"].manifest) /\ Target \in 1..MaxManifests
      /\ Target = job["publish-freeze"].manifest.no
  BY PublicationRuns
<1>2. DOMAIN freezes = 1..MaxManifests /\ SealedFreezeIsCanonical
  BY DEF IInv, TypeOK
<1> QED
  BY <1>1, <1>2 DEF Fits, SealedFreezeIsCanonical, Holds

\* The ratings are copied, then the summary.
LEMMA DerivedCopied == ASSUME IInv, CopyRatings \/ CopySummary PROVE IInv'
<1> DEFINE j == "publish-freeze"
           m == job[j].manifest
<1>1. /\ job[j].pc \in {"copy-ratings", "copy-summary"}
      /\ UNCHANGED <<current, archive, report, ratings, summary, manifest, processed, serving>>
  BY DEF CopyRatings, CopySummary, At, store, collection, derived, backtested
<1>2. /\ freezes[Target] \in Freeze
      /\ ratings \in Maybe(Derived) /\ summary \in Maybe(Derived)
  BY <1>1, PublicationRuns DEF IInv, TypeOK
<1>3. LET f == freezes[Target] IN
        /\ f.archive # None => Holds(f.archive, m.payload.content)
        /\ f.seal # None =>
            f.seal.payload = m.payload /\ Holds(f.seal.archive, f.seal.payload.content)
  BY <1>1, TargetFreeze
<1>4. CASE CopyRatings
  <2> DEFINE f == [freezes[Target] EXCEPT !.ratings = Copied(freezes[Target].ratings, ratings)]
  <2>1. /\ f \in Freeze /\ f.archive = freezes[Target].archive /\ f.seal = freezes[Target].seal
    BY <1>2 DEF Freeze, Copied
  <2>2. freezes' = [freezes EXCEPT ![Target] = f] /\ Goes(j, "copy-summary")
    BY <1>4 DEF CopyRatings
  <2> HIDE DEF f
  <2> QED
    BY <1>1, <1>3, <2>1, <2>2, FreezeWritten
<1>5. CASE CopySummary
  <2> DEFINE f == [freezes[Target] EXCEPT !.summary = Copied(freezes[Target].summary, summary)]
  <2>1. /\ f \in Freeze /\ f.archive = freezes[Target].archive /\ f.seal = freezes[Target].seal
    BY <1>2 DEF Freeze, Copied
  <2>2. freezes' = [freezes EXCEPT ![Target] = f] /\ Goes(j, "copy-backtest")
    BY <1>5 DEF CopySummary
  <2> HIDE DEF f
  <2> QED
    BY <1>1, <1>3, <2>1, <2>2, FreezeWritten
<1> QED
  BY <1>4, <1>5

\* The last manifest is copied, be it the one that was verified or a later one.
LEMMA BacktestCopied == ASSUME IInv, CopyBacktest PROVE IInv'
<1> DEFINE j == "publish-freeze"
           f == [freezes[Target] EXCEPT !.backtest = Copied(freezes[Target].backtest, manifest)]
<1>1. /\ job[j].pc = "copy-backtest" /\ freezes' = [freezes EXCEPT ![Target] = f]
      /\ Goes(j, "copy-archive") /\ MayCopy(freezes[Target].backtest, manifest)
      /\ UNCHANGED <<current, archive, report, ratings, summary, manifest, processed, serving>>
  BY DEF CopyBacktest, At, store, collection, derived, backtested
<1>2. freezes[Target] \in Freeze /\ manifest \in Manifest
  BY <1>1, PublicationRuns
<1>3. Copied(freezes[Target].backtest, manifest) = manifest
  BY <1>1 DEF Copied, MayCopy
<1>4. /\ f \in Freeze /\ f.archive = freezes[Target].archive /\ f.seal = freezes[Target].seal
      /\ f.backtest \in Manifest
  BY <1>2, <1>3 DEF Freeze, Maybe
<1> HIDE DEF f
<1>5. LET g == freezes[Target]
          m == job[j].manifest
      IN
        /\ g.archive # None => Holds(g.archive, m.payload.content)
        /\ g.seal # None =>
            g.seal.payload = m.payload /\ Holds(g.seal.archive, g.seal.payload.content)
  BY <1>1, TargetFreeze
<1> QED
  BY <1>1, <1>4, <1>5, FreezeWritten

\* The archive that is copied has a game of the payload, as it only grows.
LEMMA ArchiveCopied == ASSUME IInv, CopyArchive PROVE IInv'
<1> DEFINE j == "publish-freeze"
           m == job[j].manifest
           f == [freezes[Target] EXCEPT !.archive = Copied(freezes[Target].archive, archive)]
<1>1. /\ job[j].pc = "copy-archive" /\ freezes' = [freezes EXCEPT ![Target] = f]
      /\ Goes(j, "copy-report") /\ MayCopy(freezes[Target].archive, archive)
      /\ UNCHANGED <<current, archive, report, ratings, summary, manifest, processed, serving>>
  BY DEF CopyArchive, At, store, collection, derived, backtested
<1>2. freezes[Target] \in Freeze /\ Fits(m) /\ archive \in SUBSET Envelope
  BY <1>1, PublicationRuns DEF IInv, TypeOK
<1>3. Holds(archive, m.payload.content)
  BY <1>2, HoldsMore DEF Fits, Backed
<1>4. Copied(freezes[Target].archive, archive) = archive
  BY <1>1 DEF Copied, MayCopy
<1>5. freezes[Target].backtest \in Manifest
  BY <1>1 DEF IInv, ManifestsFit
<1>6. /\ f \in Freeze /\ f.archive = archive /\ f.seal = freezes[Target].seal
      /\ f.backtest \in Manifest
  BY <1>2, <1>4, <1>5 DEF Freeze, Maybe
<1> HIDE DEF f
<1>7. LET g == freezes[Target] IN
        g.seal # None =>
            g.seal.payload = m.payload /\ Holds(g.seal.archive, g.seal.payload.content)
  BY <1>1, TargetFreeze
<1> QED
  BY <1>1, <1>2, <1>3, <1>6, <1>7, FreezeWritten

\* The report is copied.
LEMMA ReportCopied == ASSUME IInv, CopyReport PROVE IInv'
<1> DEFINE j == "publish-freeze"
           m == job[j].manifest
           f == [freezes[Target] EXCEPT !.report = Copied(freezes[Target].report, report)]
<1>1. /\ job[j].pc = "copy-report" /\ freezes' = [freezes EXCEPT ![Target] = f]
      /\ Goes(j, "seal") /\ MayCopy(freezes[Target].report, report)
      /\ UNCHANGED <<current, archive, report, ratings, summary, manifest, processed, serving>>
  BY DEF CopyReport, At, store, collection, derived, backtested
<1>2. freezes[Target] \in Freeze /\ manifest # None
  BY <1>1, PublicationRuns
<1>3. report \in Report
  BY <1>2 DEF IInv, TypeOK, ManifestsFit, Maybe
<1>4. Copied(freezes[Target].report, report) = report
  BY <1>1 DEF Copied, MayCopy
<1>5. /\ freezes[Target].backtest \in Manifest /\ freezes[Target].archive \in SUBSET Envelope
      /\ Holds(freezes[Target].archive, m.payload.content)
  BY <1>1 DEF IInv, ManifestsFit
<1>6. /\ f \in Freeze /\ f.archive = freezes[Target].archive /\ f.seal = freezes[Target].seal
      /\ f.backtest = freezes[Target].backtest /\ f.report = report
  BY <1>2, <1>3, <1>4 DEF Freeze, Maybe
<1> HIDE DEF f
<1>7. LET g == freezes[Target] IN
        g.seal # None =>
            g.seal.payload = m.payload /\ Holds(g.seal.archive, g.seal.payload.content)
  BY <1>1, TargetFreeze
<1> QED
  BY <1>1, <1>3, <1>5, <1>6, <1>7, FreezeWritten

\* The seal is of the archive that was copied.
LEMMA FreezeSealed == ASSUME IInv, SealFreeze PROVE IInv'
<1> DEFINE j == "publish-freeze"
           m == job[j].manifest
           g == freezes[Target]
           s == SealOf(m, g)
           f == [freezes[Target] EXCEPT !.seal = Copied(freezes[Target].seal, s)]
<1>1. /\ job[j].pc = "seal" /\ freezes' = [freezes EXCEPT ![Target] = f] /\ Goes(j, "point")
      /\ UNCHANGED <<current, archive, report, ratings, summary, manifest, processed, serving>>
  BY DEF SealFreeze, At, store, collection, derived, backtested
<1>2. g \in Freeze /\ m \in Manifest
  BY <1>1, PublicationRuns
<1>3. /\ g.backtest \in Manifest /\ g.archive \in SUBSET Envelope /\ g.report \in Report
      /\ Holds(g.archive, m.payload.content)
  BY <1>1 DEF IInv, ManifestsFit
<1>4. /\ s \in Seal /\ s.payload = m.payload /\ s.archive = g.archive
  BY <1>2, <1>3 DEF SealOf, Seal, Manifest
<1>5. s # None
  BY <1>4, PipelineNoneAssumption
<1>6. g.seal # None =>
        g.seal.payload = m.payload /\ Holds(g.seal.archive, g.seal.payload.content)
  BY <1>1, TargetFreeze
<1>7. g.seal \in Maybe(Seal)
  BY <1>2 DEF Freeze
<1> DEFINE t == Copied(g.seal, s)
<1>8. /\ t \in Seal /\ t # None /\ t.payload = m.payload /\ Holds(t.archive, t.payload.content)
      /\ g.seal # None => t = g.seal
  BY <1>3, <1>4, <1>5, <1>6, <1>7 DEF Copied, Maybe
<1> HIDE DEF s, t
<1>9. f = [g EXCEPT !.seal = t]
  BY DEF t
<1>10. /\ f \in Freeze /\ f.archive = g.archive /\ f.seal = t
  BY <1>2, <1>8, <1>9 DEF Freeze, Maybe
<1> HIDE DEF f, g
<1>11. freezes[Target].seal # None => f.seal = freezes[Target].seal
  BY <1>8, <1>10 DEF g
<1> QED
  BY <1>1, <1>3, <1>8, <1>10, <1>11, FreezeWritten

\* The pointer moves to the freeze of the manifest, which is sealed; what was
\* served does not end later.
LEMMA PointerMoved == ASSUME IInv, MovePointer PROVE IInv' /\ EndOfServed' >= EndOfServed
<1> DEFINE j == "publish-freeze"
           m == job[j].manifest
<1>1. /\ job[j].pc = "point" /\ serving' = Target /\ job' = [job EXCEPT ![j] = Idle]
      /\ UNCHANGED <<current, archive, report, ratings, summary, manifest, processed, freezes>>
  BY DEF MovePointer, At, Ends, store, collection, derived, backtested
<1>2. /\ manifest # None /\ manifest \in Manifest /\ m \in Manifest /\ Fits(m)
      /\ m.payload.content.end <= manifest.payload.content.end
      /\ Target = m.no /\ Target \in 1..MaxManifests /\ freezes[Target] \in Freeze
  BY <1>1, PublicationRuns
<1>3. freezes[Target].seal # None
  BY <1>1 DEF IInv, ManifestsFit
<1>4. Target # None
  BY <1>2, PipelineNoneAssumption
<1>5. /\ TypeOK' /\ RunsAreBacked' /\ BacktestIsBacked' /\ job'[j] = Idle
  BY <1>1, <1>2, IdleFields, PublicationStep DEF IInv, TypeOK, Maybe
<1>6. EndOfServed' = m.payload.content.end
  BY <1>1, <1>2, <1>3, <1>4 DEF EndOfServed, ServedSeal, Fits
<1>7. /\ m.payload.content.end \in Nat /\ manifest.payload.content.end \in Nat
      /\ EndOfServed \in Nat
  BY <1>2, ManifestFields, ServedEnd
<1>8. EndOfServed <= m.payload.content.end
  BY <1>2 DEF Fits
<1>9. /\ Fits(manifest) /\ report # None /\ current # None
      /\ manifest.payload.content.end <= current.content.end
      /\ \A n \in DOMAIN freezes : n > Manifests => freezes[n] = NoFreeze
  BY <1>2 DEF IInv, ManifestsFit
<1>10. Fits(manifest)'
  BY <1>1, <1>2, <1>6, <1>9 DEF Fits, Backed, Holds
<1>11. Manifests' = Manifests
  BY <1>1 DEF Manifests
<1>12. ManifestsFit'
  BY <1>1, <1>5, <1>9, <1>10, <1>11, IdleFields DEF ManifestsFit
<1>13. ServingIsSealed' /\ SealedFreezeIsCanonical'
  BY <1>1, <1>3 DEF IInv, ServingIsSealed, SealedFreezeIsCanonical
<1> QED
  BY <1>5, <1>6, <1>7, <1>8, <1>12, <1>13 DEF IInv

-----------------------------------------------------------------------------
(* The theorems.                                                           *)

\* Before the first snapshot there is nothing.
LEMMA InitIInv == Init => IInv
<1> SUFFICES ASSUME Init PROVE IInv
  OBVIOUS
<1>1. /\ current = None /\ archive = {} /\ report = None /\ ratings = None /\ summary = None
      /\ manifest = None /\ processed = None /\ serving = None
      /\ freezes = [n \in 1..MaxManifests |-> NoFreeze]
      /\ job = [j \in Jobs |-> Idle]
  BY DEF Init, Empty
<1>2. NoFreeze \in Freeze /\ NoFreeze.seal = None
  BY DEF NoFreeze, Freeze, Maybe
<1>3. \A j \in Jobs : job[j] = Idle
  BY <1>1
<1>4. TypeOK
  BY <1>1, <1>2, IdleFields DEF TypeOK, Maybe
<1>5. Idle.accepted + Cardinality(Idle.todo) <= Cardinality(Games) /\ Idle.accepted = 0
  BY IdleFields, Numbers, FS_EmptySet
<1>6. RunsAreBacked
  <2>1. job["publish-snapshot"] = Idle
    BY <1>3 DEF Jobs
  <2>2. ~(Idle.accepted >= 1) /\ report = None
    BY <1>1, IdleFields
  <2> QED
    BY <1>5, <2>1, <2>2, IdleFields DEF RunsAreBacked
<1>7. BacktestIsBacked
  BY <1>3, IdleFields DEF BacktestIsBacked, Jobs
<1>8. ManifestsFit
  BY <1>1, <1>3, IdleFields DEF ManifestsFit, Jobs
<1>9. ServingIsSealed /\ SealedFreezeIsCanonical
  BY <1>1, <1>2 DEF ServingIsSealed, SealedFreezeIsCanonical
<1> QED
  BY <1>4, <1>6, <1>7, <1>8, <1>9 DEF IInv

\* Nothing happens.
LEMMA StutterIInv == ASSUME IInv, UNCHANGED vars PROVE IInv'
<1>1. UNCHANGED <<current, archive, report, ratings, summary, manifest, processed, freezes,
                  serving, job>>
  BY DEF vars, store, collection, derived, backtested, frozen
<1>2. TypeOK'
  BY <1>1 DEF IInv, TypeOK
<1>3. current # None => current' # None /\ current'.content.end >= current.content.end
  <2> SUFFICES ASSUME current # None PROVE current.content.end \in Nat
    BY <1>1
  <2> QED
    BY Numbers DEF IInv, TypeOK, Maybe, Snapshot, Content
<1> QED
  BY <1>1, <1>2, <1>3, RunsKept, BacktestKept, ManifestsKept, FreezesKept DEF IInv

\* Every step keeps the invariant.
LEMMA StepIInv == IInv /\ [Next]_vars => IInv'
<1> SUFFICES ASSUME IInv, [Next]_vars PROVE IInv'
  OBVIOUS
<1>1. CASE Ingest
  BY <1>1, IngestStep
<1>2. CASE PublishSnapshot
  BY <1>2, RunBegins, GameStep, ReportStep DEF PublishSnapshot
<1>3. CASE Backtest
  BY <1>3, BacktestReads, BacktestStops, BacktestGoesOn, RatingsStep, SummaryStep,
     BacktestSealed, BacktestRecorded DEF Backtest
<1>4. CASE Weekly
  BY <1>4, WeeklyBegins, RatingsStep, SummaryStep DEF Weekly
<1>5. CASE PublishFreeze
  BY <1>5, VerifyStep, DerivedCopied, BacktestCopied, ArchiveCopied, ReportCopied,
     FreezeSealed, PointerMoved DEF PublishFreeze
<1>6. CASE \E j \in Jobs : Fail(j)
  BY <1>6, FailStep
<1>7. CASE UNCHANGED vars
  BY <1>7, StutterIInv
<1> QED
  BY <1>1, <1>2, <1>3, <1>4, <1>5, <1>6, <1>7 DEF Next

\* However the jobs interleave and fail, what an accepted backtest was given,
\* what a freeze was sealed with and what is served fit together.
THEOREM Invariance == Spec => []IInv
<1>1. Init => IInv
  BY InitIInv
<1>2. IInv /\ [Next]_vars => IInv'
  BY StepIInv
<1> QED
  BY <1>1, <1>2, PTL DEF Spec

\* The files, and the locals of the jobs, are always well formed.
THEOREM Typing == Spec => []TypeOK
<1>1. IInv => TypeOK
  BY DEF IInv
<1> QED
  BY <1>1, Invariance, PTL

\* A sealed freeze holds an archive with a game of its own snapshot, also
\* when the collection and the backtest overlap.
THEOREM SealedIsCanonical == Spec => []SealedFreezeIsCanonical
<1>1. IInv => SealedFreezeIsCanonical
  BY DEF IInv
<1> QED
  BY <1>1, Invariance, PTL

\* Steps other than those of a publication leave all freezes alone.
LEMMA FreezesUntouched ==
    ASSUME \/ Ingest \/ PublishSnapshot \/ Backtest \/ Weekly \/ VerifyBacktest \/ MovePointer
           \/ \E j \in Jobs : Fail(j)
    PROVE  freezes' = freezes
  BY DEF Ingest, PublishSnapshot, Backtest, Weekly, VerifyBacktest, MovePointer, Fail,
     ReadMetadata, OpenPayload, ArchiveGame, WriteReport, ReadSnapshot, BacktestSkips,
     BacktestAccepts, WriteRatings, WriteSummary, SealBacktest, RecordBacktest, WeeklyRefresh,
     frozen

\* A copy that is there stays what it is.
LEMMA CopyKeeps ==
    ASSUME NEW N, NEW t \in N, freezes \in [N -> Freeze],
           NEW field \in DOMAIN NoFreeze, NEW source,
           freezes' = [freezes EXCEPT ![t] = [freezes[t] EXCEPT
                                            ![field] = Copied(freezes[t][field], source)]]
    PROVE  \A n \in N, g \in DOMAIN NoFreeze :
                freezes[n][g] # None => freezes'[n][g] = freezes[n][g]
<1> SUFFICES ASSUME NEW n \in N, NEW g \in DOMAIN NoFreeze, freezes[n][g] # None
             PROVE  freezes'[n][g] = freezes[n][g]
  OBVIOUS
<1>1. CASE n # t
  BY <1>1
<1>2. CASE n = t
  <2>1. DOMAIN freezes[t] = DOMAIN NoFreeze
    BY DEF Freeze, NoFreeze
  <2> DEFINE f == [freezes[t] EXCEPT ![field] = Copied(freezes[t][field], source)]
  <2>2. freezes'[t] = f
    OBVIOUS
  <2>3. CASE g = field
    BY <1>2, <2>1, <2>2, <2>3 DEF Copied
  <2>4. CASE g # field
    BY <1>2, <2>1, <2>2, <2>4
  <2> QED
    BY <2>3, <2>4
<1> QED
  BY <1>1, <1>2

\* A step that writes one file of a freeze keeps the files that are there.
LEMMA FilesKept ==
    ASSUME IInv, CopyRatings \/ CopySummary \/ CopyBacktest \/ CopyArchive \/ CopyReport
                 \/ SealFreeze
    PROVE  \A n \in DOMAIN freezes, field \in DOMAIN NoFreeze :
                freezes[n][field] # None => freezes'[n][field] = freezes[n][field]
<1>1. job["publish-freeze"].pc # "idle"
  BY DEF CopyRatings, CopySummary, CopyBacktest, CopyArchive, CopyReport, SealFreeze, At
<1>2. Target \in 1..MaxManifests
  BY <1>1, PublicationRuns
<1>3. freezes \in [1..MaxManifests -> Freeze] /\ DOMAIN freezes = 1..MaxManifests
  BY DEF IInv, TypeOK
<1>4. \A field \in {"ratings", "summary", "backtest", "archive", "report", "seal"} :
        field \in DOMAIN NoFreeze
  BY DEF NoFreeze
<1>5. CASE CopyRatings
  BY <1>2, <1>3, <1>4, <1>5, CopyKeeps DEF CopyRatings
<1>6. CASE CopySummary
  BY <1>2, <1>3, <1>4, <1>6, CopyKeeps DEF CopySummary
<1>7. CASE CopyBacktest
  BY <1>2, <1>3, <1>4, <1>7, CopyKeeps DEF CopyBacktest
<1>8. CASE CopyArchive
  BY <1>2, <1>3, <1>4, <1>8, CopyKeeps DEF CopyArchive
<1>9. CASE CopyReport
  BY <1>2, <1>3, <1>4, <1>9, CopyKeeps DEF CopyReport
<1>10. CASE SealFreeze
  BY <1>2, <1>3, <1>4, <1>10, CopyKeeps DEF SealFreeze
<1> QED
  BY <1>5, <1>6, <1>7, <1>8, <1>9, <1>10

\* Neither a repeated nor a half finished publication, of this job or with
\* others in between, changes a file of a freeze.
THEOREM Immutability == Spec => FreezesAreImmutable
<1> DEFINE Kept == \A n \in DOMAIN freezes, field \in DOMAIN NoFreeze :
        freezes[n][field] # None => freezes'[n][field] = freezes[n][field]
<1>1. ASSUME IInv, [Next]_vars PROVE [Kept]_freezes
  <2>1. CASE CopyRatings \/ CopySummary \/ CopyBacktest \/ CopyArchive \/ CopyReport
             \/ SealFreeze
    BY <1>1, <2>1, FilesKept
  <2>2. CASE \/ Ingest \/ PublishSnapshot \/ Backtest \/ Weekly \/ VerifyBacktest
             \/ MovePointer \/ \E j \in Jobs : Fail(j)
    BY <2>2, FreezesUntouched
  <2>3. CASE UNCHANGED vars
    BY <2>3 DEF vars, frozen
  <2> QED
    BY <1>1, <2>1, <2>2, <2>3 DEF Next, PublishFreeze
<1> QED
  BY <1>1, Invariance, PTL DEF Spec, FreezesAreImmutable

\* Only the end of a publication moves the pointer.
LEMMA ServingUntouched ==
    ASSUME \/ Ingest \/ PublishSnapshot \/ Backtest \/ Weekly \/ VerifyBacktest
           \/ CopyRatings \/ CopySummary \/ CopyBacktest \/ CopyArchive \/ CopyReport
           \/ SealFreeze \/ \E j \in Jobs : Fail(j)
    PROVE  serving' = serving
  BY DEF Ingest, PublishSnapshot, Backtest, Weekly, VerifyBacktest, Fail, CopyRatings,
     CopySummary, CopyBacktest, CopyArchive, CopyReport, SealFreeze,
     ReadMetadata, OpenPayload, ArchiveGame, WriteReport, ReadSnapshot, BacktestSkips,
     BacktestAccepts, WriteRatings, WriteSummary, SealBacktest, RecordBacktest, WeeklyRefresh,
     frozen

\* What is served is sealed, and a later call serves nothing older, also when
\* an earlier manifest is published late.
THEOREM NoGoingBack == Spec => ServingNeverGoesBack
<1> DEFINE Forward == /\ serving' # None /\ freezes'[serving'].seal # None
                      /\ EndOfServed' >= EndOfServed
<1>1. ASSUME IInv, [Next]_vars, IInv' PROVE [Forward]_serving
  <2>1. CASE MovePointer
    <3>1. serving' = Target /\ job["publish-freeze"].pc # "idle"
      BY <2>1 DEF MovePointer, At
    <3>2. serving' # None
      BY <1>1, <3>1, PublicationRuns, PipelineNoneAssumption
    <3>3. EndOfServed' >= EndOfServed
      BY <1>1, <2>1, PointerMoved
    <3> QED
      BY <1>1, <3>2, <3>3 DEF IInv, ServingIsSealed
  <2>2. CASE \/ Ingest \/ PublishSnapshot \/ Backtest \/ Weekly \/ VerifyBacktest
             \/ CopyRatings \/ CopySummary \/ CopyBacktest \/ CopyArchive \/ CopyReport
             \/ SealFreeze \/ \E j \in Jobs : Fail(j)
    BY <2>2, ServingUntouched
  <2>3. CASE UNCHANGED vars
    BY <2>3 DEF vars, frozen
  <2> QED
    BY <1>1, <2>1, <2>2, <2>3 DEF Next, PublishFreeze
<1> QED
  BY <1>1, Invariance, PTL DEF Spec, ServingNeverGoesBack

-----------------------------------------------------------------------------
(* The ratings that are served, while nothing but backtest writes them.    *)

\* A step of a job is one of a job that runs, or that may start.
LEMMA Moves ==
    ASSUME TypeOK, [Next]_vars, job' # job
    PROVE  \E j \in Jobs :
                /\ ~At(j, "idle") \/ MayStart(j)
                /\ \A k \in Jobs : k # j => job'[k] = job[k]
<1>1. job \in [Jobs -> Locals]
  BY DEF TypeOK
<1>2. ASSUME NEW j \in Jobs, NEW l, job' = [job EXCEPT ![j] = l]
      PROVE  \A k \in Jobs : k # j => job'[k] = job[k]
  BY <1>1, <1>2
<1>3. ASSUME NEW j \in Jobs, NEW pc, Goes(j, pc)
      PROVE  \A k \in Jobs : k # j => job'[k] = job[k]
  BY <1>1, <1>3 DEF Goes
<1>4. CASE Ingest \/ UNCHANGED vars
  BY <1>4 DEF Ingest, vars
<1>5. CASE PublishSnapshot
  <2> DEFINE j == "publish-snapshot"
  <2>1. j \in Jobs
    BY DEF Jobs
  <2>2. ASSUME ReadMetadata PROVE MayStart(j) /\ \E l : job' = [job EXCEPT ![j] = l]
    BY <2>2 DEF ReadMetadata
  <2>3. ASSUME OpenPayload
        PROVE  At(j, "open")
               /\ job' = [job EXCEPT ![j] = [job[j] EXCEPT !.pc = "append", !.payload = current,
                                                           !.todo = Games]]
    BY <2>3 DEF OpenPayload
  <2>4. ASSUME ArchiveGame PROVE At(j, "append") /\ \E l : job' = [job EXCEPT ![j] = l]
    BY <2>4 DEF ArchiveGame
  <2>5. ASSUME WriteReport PROVE At(j, "append") /\ job' = [job EXCEPT ![j] = Idle]
    BY <2>5 DEF WriteReport, Ends
  <2> QED
    BY <1>2, <1>5, <2>1, <2>2, <2>3, <2>4, <2>5 DEF PublishSnapshot, At
<1>6. CASE Backtest
  <2> DEFINE j == "backtest"
  <2>1. j \in Jobs
    BY DEF Jobs
  <2>2. ASSUME ReadSnapshot PROVE MayStart(j) /\ \E l : job' = [job EXCEPT ![j] = l]
    BY <2>2 DEF ReadSnapshot
  <2>3. ASSUME BacktestSkips \/ RecordBacktest
        PROVE  ~At(j, "idle") /\ job' = [job EXCEPT ![j] = Idle]
    BY <2>3 DEF BacktestSkips, RecordBacktest, Ends, At
  <2>4. ASSUME BacktestAccepts
        PROVE  ~At(j, "idle")
               /\ job' = [job EXCEPT ![j] = [job[j] EXCEPT !.pc = "ratings",
                                                           !.input = BacktestInput]]
    BY <2>4 DEF BacktestAccepts, At
  <2>5. ASSUME WriteRatings(j) \/ WriteSummary(j) \/ SealBacktest
        PROVE  ~At(j, "idle") /\ \E pc : Goes(j, pc)
    BY <2>5 DEF WriteRatings, WriteSummary, SealBacktest, At
  <2> QED
    BY <1>2, <1>3, <1>6, <2>1, <2>2, <2>3, <2>4, <2>5 DEF Backtest
<1>7. CASE Weekly
  <2> DEFINE j == "weekly"
  <2>1. j \in Jobs
    BY DEF Jobs
  <2>2. ASSUME WeeklyRefresh PROVE MayStart(j) /\ \E pc : Goes(j, pc)
    BY <2>2 DEF WeeklyRefresh
  <2>3. ASSUME WriteRatings(j) PROVE ~At(j, "idle") /\ \E pc : Goes(j, pc)
    BY <2>3 DEF WriteRatings, At
  <2>4. ASSUME WriteSummary(j) PROVE ~At(j, "idle") /\ job' = [job EXCEPT ![j] = Idle]
    BY <2>4 DEF WriteSummary, Ends, At
  <2> QED
    BY <1>2, <1>3, <1>7, <2>1, <2>2, <2>3, <2>4 DEF Weekly
<1>8. CASE PublishFreeze
  <2> DEFINE j == "publish-freeze"
  <2>1. j \in Jobs
    BY DEF Jobs
  <2>2. ASSUME VerifyBacktest PROVE MayStart(j) /\ \E l : job' = [job EXCEPT ![j] = l]
    BY <2>2 DEF VerifyBacktest
  <2>3. ASSUME CopyRatings \/ CopySummary \/ CopyBacktest \/ CopyArchive \/ CopyReport
               \/ SealFreeze
        PROVE  ~At(j, "idle") /\ \E pc : Goes(j, pc)
    BY <2>3 DEF CopyRatings, CopySummary, CopyBacktest, CopyArchive, CopyReport, SealFreeze, At
  <2>4. ASSUME MovePointer PROVE ~At(j, "idle") /\ job' = [job EXCEPT ![j] = Idle]
    BY <2>4 DEF MovePointer, Ends, At
  <2> QED
    BY <1>2, <1>3, <1>8, <2>1, <2>2, <2>3, <2>4 DEF PublishFreeze
<1>9. CASE \E j \in Jobs : Fail(j)
  BY <1>2, <1>9 DEF Fail, Ends
<1> QED
  BY <1>4, <1>5, <1>6, <1>7, <1>8, <1>9 DEF Next

\* Jobs that do not overlap run one at a time, and a job that is not scheduled
\* does not run.
LEMMA OnlyOne ==
    ASSUME IInv, SampleIInv, [Next]_vars
    PROVE  OneAtATime' /\ ("weekly" \notin Scheduled => At("weekly", "idle")')
<1>1. OneAtATime /\ ("weekly" \notin Scheduled => At("weekly", "idle"))
  BY DEF SampleIInv
<1>2. CASE job' = job
  BY <1>1, <1>2 DEF OneAtATime, At
<1>3. CASE job' # job
  <2>1. PICK j \in Jobs : /\ ~At(j, "idle") \/ MayStart(j)
                          /\ \A k \in Jobs : k # j => job'[k] = job[k]
    BY <1>3, Moves DEF IInv
  <2>2. \A k \in Jobs : k # j => job'[k] = job[k]
    BY <2>1
  <2>3. Overlap \/ \A k \in Jobs : k # j => At(k, "idle")
    BY <1>1, <2>1 DEF OneAtATime, MayStart, Undisturbed
  <2>4. OneAtATime'
    BY <2>2, <2>3 DEF OneAtATime, At
  <2>5. "weekly" \notin Scheduled => j # "weekly"
    BY <1>1, <2>1 DEF MayStart
  <2> QED
    BY <1>1, <2>2, <2>4, <2>5 DEF At, Jobs
<1> QED
  BY <1>2, <1>3

\* What the steps that write neither ratings nor manifest nor seal do to the
\* jobs that know of them.
LEMMA QuietSteps ==
    ASSUME IInv,
           \/ Ingest \/ PublishSnapshot \/ ReadSnapshot \/ BacktestSkips \/ BacktestAccepts
           \/ RecordBacktest \/ WriteSummary("backtest") \/ WeeklyRefresh
           \/ WriteSummary("weekly") \/ MovePointer \/ (\E j \in Jobs : Fail(j))
           \/ UNCHANGED vars
    PROVE  LET b == job["backtest"]
               l == job["publish-freeze"]
           IN
           /\ UNCHANGED <<ratings, manifest, freezes>>
           /\ b'.pc \in {"summary", "seal"} =>
                b.pc \in {"summary", "seal"} /\ b'.payload = b.payload
           /\ l'.pc # "idle" => l' = l
<1> DEFINE b == job["backtest"]
           l == job["publish-freeze"]
<1>1. UNCHANGED <<ratings, manifest, freezes>>
  BY DEF Ingest, PublishSnapshot, ReadMetadata, OpenPayload, ArchiveGame, WriteReport,
     ReadSnapshot, BacktestSkips, BacktestAccepts, RecordBacktest, WriteSummary,
     WeeklyRefresh, MovePointer, Fail, derived, backtested, frozen, vars
<1>2. /\ job \in [Jobs -> Locals] /\ Idle.pc = "idle"
      /\ {"publish-snapshot", "backtest", "publish-freeze", "weekly"} \subseteq Jobs
  BY IdleFields DEF IInv, TypeOK, Jobs
<1>3. CASE Ingest \/ UNCHANGED vars
  BY <1>1, <1>3 DEF Ingest, vars
<1>4. CASE PublishSnapshot
  <2>1. b' = b /\ l' = l
    BY <1>2, <1>4 DEF PublishSnapshot, ReadMetadata, OpenPayload, ArchiveGame, WriteReport, Ends
  <2> QED
    BY <1>1, <2>1
<1>5. CASE ReadSnapshot
  <2>1. b' = [Idle EXCEPT !.pc = "check", !.payload = current] /\ l' = l
    BY <1>2, <1>5 DEF ReadSnapshot
  <2>2. b'.pc = "check"
    BY <2>1, IdleFields DEF Locals
  <2> QED
    BY <1>1, <2>1, <2>2
<1>6. CASE BacktestSkips \/ RecordBacktest
  <2>1. b' = Idle /\ l' = l
    BY <1>2, <1>6 DEF BacktestSkips, RecordBacktest, Ends
  <2> QED
    BY <1>1, <1>2, <2>1
<1>7. CASE BacktestAccepts
  <2>1. b' = [b EXCEPT !.pc = "ratings", !.input = BacktestInput] /\ l' = l /\ b \in Locals
    BY <1>2, <1>7 DEF BacktestAccepts
  <2>2. b'.pc = "ratings"
    BY <2>1 DEF Locals
  <2> QED
    BY <1>1, <2>1, <2>2
<1>8. CASE WriteSummary("backtest")
  <2>1. b.pc = "summary" /\ Goes("backtest", "seal")
    BY <1>8 DEF WriteSummary, At
  <2>2. b'.payload = b.payload /\ l' = l
    BY <1>2, <2>1, JobGoes DEF IInv
  <2> QED
    BY <1>1, <2>1, <2>2
<1>9. CASE WeeklyRefresh \/ WriteSummary("weekly")
  <2>1. b' = b /\ l' = l
    BY <1>2, <1>9 DEF WeeklyRefresh, WriteSummary, Goes, Ends
  <2> QED
    BY <1>1, <2>1
<1>10. CASE MovePointer
  <2>1. b' = b /\ l' = Idle
    BY <1>2, <1>10 DEF MovePointer, Ends
  <2> QED
    BY <1>1, <1>2, <2>1
<1>11. CASE \E j \in Jobs : Fail(j)
  <2>1. b' \in {b, Idle} /\ l' \in {l, Idle}
    BY <1>2, <1>11 DEF Fail, Ends
  <2> QED
    BY <1>1, <1>2, <2>1
<1> QED
  BY <1>3, <1>4, <1>5, <1>6, <1>7, <1>8, <1>9, <1>10, <1>11

\* What a step of a publication that copies a file does.
LEMMA CopySteps ==
    ASSUME IInv, CopyRatings \/ CopySummary \/ CopyBacktest \/ CopyArchive \/ CopyReport
    PROVE  LET l == job["publish-freeze"] IN
           /\ l.pc # "idle" /\ l'.manifest = l.manifest
           /\ job'["backtest"] = job["backtest"]
           /\ UNCHANGED <<ratings, manifest>>
           /\ DOMAIN freezes' = DOMAIN freezes
           /\ \A n \in DOMAIN freezes : freezes'[n].seal = freezes[n].seal
<1> DEFINE l == job["publish-freeze"]
<1>1. /\ l.pc # "idle" /\ \E pc : Goes("publish-freeze", pc)
      /\ UNCHANGED <<ratings, manifest>>
  BY DEF CopyRatings, CopySummary, CopyBacktest, CopyArchive, CopyReport, At, derived, backtested
<1>2. job \in [Jobs -> Locals] /\ {"publish-freeze", "backtest"} \subseteq Jobs
  BY DEF IInv, TypeOK, Jobs
<1>3. l'.manifest = l.manifest /\ job'["backtest"] = job["backtest"]
  BY <1>1, <1>2 DEF Goes, Locals
<1>4. Target \in 1..MaxManifests /\ freezes \in [1..MaxManifests -> Freeze]
  BY <1>1, PublicationRuns DEF IInv, TypeOK
<1>5. \E f : freezes' = [freezes EXCEPT ![Target] = f] /\ f.seal = freezes[Target].seal
  <2>1. freezes[Target] \in Freeze
    BY <1>4
  <2> QED
    BY <2>1 DEF CopyRatings, CopySummary, CopyBacktest, CopyArchive, CopyReport, Freeze
<1> QED
  BY <1>1, <1>3, <1>4, <1>5

\* What a running publication or a sealed freeze says stays out of sample.
LEMMA SampleQuiet ==
    ASSUME IInv, SampleIInv, [Next]_vars, UNCHANGED <<ratings, manifest>>,
           DOMAIN freezes' = DOMAIN freezes,
           \A n \in DOMAIN freezes : freezes'[n].seal = freezes[n].seal,
           LET b == job["backtest"]
               l == job["publish-freeze"]
           IN
           /\ b'.pc \in {"summary", "seal"} =>
                b.pc \in {"summary", "seal"} /\ b'.payload = b.payload
           /\ l'.pc # "idle" => l.pc # "idle" /\ l'.manifest = l.manifest
    PROVE  SampleIInv'
<1>1. OneAtATime' /\ ("weekly" \notin Scheduled => At("weekly", "idle")')
  BY OnlyOne
<1>2. job'["backtest"].pc \in {"summary", "seal"} =>
        ratings' = FromSnapshot(job'["backtest"].payload.content)
  BY DEF SampleIInv
<1>3. (manifest # None => OutOfSample(manifest))'
  BY DEF SampleIInv, OutOfSample
<1>4. (~At("publish-freeze", "idle") => OutOfSample(job["publish-freeze"].manifest))'
  BY DEF SampleIInv, OutOfSample, At
<1>5. (\A n \in DOMAIN freezes : freezes[n].seal # None => OutOfSample(freezes[n].seal))'
  BY DEF SampleIInv, OutOfSample
<1> QED
  BY <1>1, <1>2, <1>3, <1>4, <1>5 DEF SampleIInv

\* backtest writes the ratings of its own payload; a weekly refresh either
\* runs alone or not at all.
LEMMA SampleRatings ==
    ASSUME IInv, SampleIInv, [Next]_vars, ~Overlap \/ "weekly" \notin Scheduled,
           NEW j \in {"backtest", "weekly"}, WriteRatings(j)
    PROVE  SampleIInv'
<1>1. /\ job[j].pc = "ratings" /\ ratings' = Source(j) /\ Goes(j, "summary") /\ j \in Jobs
      /\ UNCHANGED <<manifest, freezes>>
  BY DEF WriteRatings, At, backtested, frozen, Jobs
<1>2. OneAtATime' /\ ("weekly" \notin Scheduled => At("weekly", "idle")')
  BY OnlyOne
<1>3. /\ \A k \in Jobs : k # j => job'[k] = job[k]
      /\ job'[j].payload = job[j].payload /\ job'[j].pc = "summary"
  BY <1>1, JobGoes DEF IInv
<1>4. job'["publish-freeze"] = job["publish-freeze"]
  BY <1>3 DEF Jobs
<1>5. job'["backtest"].pc \in {"summary", "seal"} =>
        ratings' = FromSnapshot(job'["backtest"].payload.content)
  <2>1. CASE j = "backtest"
    BY <1>1, <1>3, <2>1 DEF Source
  <2>2. CASE j = "weekly"
    <3>1. job["weekly"].pc # "idle"
      BY <1>1, <2>2
    <3>2. ~Overlap
      BY <3>1 DEF SampleIInv, At
    <3>3. At("backtest", "idle")
      BY <3>1, <3>2 DEF SampleIInv, OneAtATime, At, Jobs
    <3>4. job'["backtest"] = job["backtest"]
      BY <1>3, <2>2 DEF Jobs
    <3> QED
      BY <3>3, <3>4 DEF At
  <2> QED
    BY <2>1, <2>2
<1>6. (manifest # None => OutOfSample(manifest))'
  BY <1>1 DEF SampleIInv, OutOfSample
<1>7. (~At("publish-freeze", "idle") => OutOfSample(job["publish-freeze"].manifest))'
  BY <1>4 DEF SampleIInv, OutOfSample, At
<1>8. (\A n \in DOMAIN freezes : freezes[n].seal # None => OutOfSample(freezes[n].seal))'
  BY <1>1 DEF SampleIInv, OutOfSample
<1> QED
  BY <1>2, <1>5, <1>6, <1>7, <1>8 DEF SampleIInv

\* The manifest states the ratings on disk, which are still those of backtest.
LEMMA SampleSealed ==
    ASSUME IInv, SampleIInv, [Next]_vars, SealBacktest PROVE SampleIInv'
<1> DEFINE j == "backtest"
<1>1. /\ job[j].pc = "seal" /\ Goes(j, "record") /\ j \in Jobs
      /\ UNCHANGED <<ratings, freezes>>
      /\ manifest'.payload = job[j].payload /\ manifest'.ratings = ratings
  BY DEF SealBacktest, At, derived, frozen, Jobs
<1>2. OneAtATime' /\ ("weekly" \notin Scheduled => At("weekly", "idle")')
  BY OnlyOne
<1>3. /\ \A k \in Jobs : k # j => job'[k] = job[k]
      /\ job'[j].pc = "record"
  BY <1>1, JobGoes DEF IInv
<1>4. job'["publish-freeze"] = job["publish-freeze"]
  BY <1>3 DEF Jobs
<1>5. OutOfSample(manifest)'
  BY <1>1 DEF SampleIInv, OutOfSample
<1>6. (~At("publish-freeze", "idle") => OutOfSample(job["publish-freeze"].manifest))'
  BY <1>4 DEF SampleIInv, OutOfSample, At
<1>7. (\A n \in DOMAIN freezes : freezes[n].seal # None => OutOfSample(freezes[n].seal))'
  BY <1>1 DEF SampleIInv, OutOfSample
<1> QED
  BY <1>2, <1>3, <1>5, <1>6, <1>7 DEF SampleIInv

\* A publication takes the manifest over.
LEMMA SampleVerified ==
    ASSUME IInv, SampleIInv, [Next]_vars, VerifyBacktest PROVE SampleIInv'
<1> DEFINE j == "publish-freeze"
           l == [Idle EXCEPT !.pc = "copy-ratings", !.manifest = manifest]
<1>1. /\ manifest # None /\ job' = [job EXCEPT ![j] = l]
      /\ UNCHANGED <<ratings, manifest, freezes>>
  BY DEF VerifyBacktest, derived, backtested, frozen
<1>2. job \in [Jobs -> Locals] /\ {j, "backtest"} \subseteq Jobs
  BY DEF IInv, TypeOK, Jobs
<1>3. job'["backtest"] = job["backtest"] /\ job'[j] = l
  BY <1>1, <1>2
<1>4. l.manifest = manifest
  BY IdleFields DEF Locals
<1>5. OneAtATime' /\ ("weekly" \notin Scheduled => At("weekly", "idle")')
  BY OnlyOne
<1> HIDE DEF l
<1>6. OutOfSample(manifest)' /\ OutOfSample(job["publish-freeze"].manifest)'
  BY <1>1, <1>3, <1>4 DEF SampleIInv, OutOfSample
<1>7. (\A n \in DOMAIN freezes : freezes[n].seal # None => OutOfSample(freezes[n].seal))'
  BY <1>1 DEF SampleIInv, OutOfSample
<1> QED
  BY <1>1, <1>3, <1>5, <1>6, <1>7 DEF SampleIInv

\* What a step that seals a freeze does.
LEMMA SealStep ==
    ASSUME IInv, SealFreeze
    PROVE  LET l == job["publish-freeze"]
               seal == freezes[Target].seal
           IN
           /\ l.pc = "seal" /\ l'.pc = "point" /\ l'.manifest = l.manifest
           /\ \A k \in Jobs : k # "publish-freeze" => job'[k] = job[k]
           /\ UNCHANGED <<current, archive, report, ratings, summary, manifest, processed,
                          serving>>
           /\ Target \in DOMAIN freezes /\ freezes[Target] \in Freeze
           /\ freezes' = [freezes EXCEPT ![Target] = [freezes[Target] EXCEPT
                            !.seal = Copied(seal, SealOf(l.manifest, freezes[Target]))]]
<1>1. /\ job["publish-freeze"].pc = "seal" /\ Goes("publish-freeze", "point")
      /\ UNCHANGED <<current, archive, report, ratings, summary, manifest, processed, serving>>
      /\ freezes' = [freezes EXCEPT ![Target] = [freezes[Target] EXCEPT
                        !.seal = Copied(freezes[Target].seal,
                                        SealOf(job["publish-freeze"].manifest, freezes[Target]))]]
  BY DEF SealFreeze, At, store, collection, derived, backtested
<1>2. Target \in 1..MaxManifests /\ freezes[Target] \in Freeze
      /\ DOMAIN freezes = 1..MaxManifests
  BY <1>1, PublicationRuns DEF IInv, TypeOK
<1>3. "publish-freeze" \in Jobs
  BY DEF Jobs
<1>4. /\ \A k \in Jobs : k # "publish-freeze" => job'[k] = job[k]
      /\ job'["publish-freeze"].manifest = job["publish-freeze"].manifest
      /\ job'["publish-freeze"].pc = "point"
  BY <1>1, <1>3, JobGoes DEF IInv
<1> QED
  BY <1>1, <1>2, <1>4

\* The seal states the ratings of the manifest that the publication runs with.
LEMMA SampleFrozen ==
    ASSUME IInv, SampleIInv, [Next]_vars, SealFreeze PROVE SampleIInv'
<1> DEFINE l == job["publish-freeze"]
           f == freezes[Target]
           s == SealOf(l.manifest, f)
<1>1. /\ l.pc = "seal" /\ l'.pc = "point" /\ l'.manifest = l.manifest
      /\ \A k \in Jobs : k # "publish-freeze" => job'[k] = job[k]
      /\ UNCHANGED <<ratings, manifest>>
      /\ Target \in DOMAIN freezes /\ f \in Freeze
      /\ freezes' = [freezes EXCEPT ![Target] = [f EXCEPT !.seal = Copied(f.seal, s)]]
  BY SealStep
<1>2. job'["backtest"] = job["backtest"]
  BY <1>1 DEF Jobs
<1>3. OneAtATime' /\ ("weekly" \notin Scheduled => At("weekly", "idle")')
  BY OnlyOne
<1>4. OutOfSample(l.manifest)
  BY <1>1 DEF SampleIInv, At
<1>5. OutOfSample(s)
  BY <1>4 DEF SealOf, OutOfSample
<1>6. f.seal # None => OutOfSample(f.seal)
  BY <1>1 DEF SampleIInv
<1>7. OutOfSample(Copied(f.seal, s))
  BY <1>5, <1>6 DEF Copied
<1> HIDE DEF s
<1>8. /\ freezes'[Target].seal = Copied(f.seal, s)
      /\ DOMAIN freezes' = DOMAIN freezes
      /\ \A n \in DOMAIN freezes : n # Target => freezes'[n] = freezes[n]
  BY <1>1 DEF Freeze
<1>9. (\A n \in DOMAIN freezes : freezes[n].seal # None => OutOfSample(freezes[n].seal))'
  <2> SUFFICES ASSUME NEW n \in DOMAIN freezes, freezes'[n].seal # None
               PROVE  OutOfSample(freezes'[n].seal)
    BY <1>8 DEF OutOfSample
  <2>1. CASE n = Target
    BY <1>7, <1>8, <2>1
  <2>2. CASE n # Target
    BY <1>8, <2>2 DEF SampleIInv
  <2> QED
    BY <2>1, <2>2
<1>10. (manifest # None => OutOfSample(manifest))'
  BY <1>1 DEF SampleIInv, OutOfSample
<1>11. OutOfSample(job["publish-freeze"].manifest)'
  BY <1>1, <1>4 DEF OutOfSample
<1>12. job'["backtest"].pc \in {"summary", "seal"} =>
        ratings' = FromSnapshot(job'["backtest"].payload.content)
  BY <1>1, <1>2 DEF SampleIInv
<1> QED
  BY <1>3, <1>9, <1>10, <1>11, <1>12 DEF SampleIInv

\* Every step keeps the ratings out of sample.
LEMMA SampleStep ==
    ASSUME ~Overlap \/ "weekly" \notin Scheduled, IInv, SampleIInv, [Next]_vars
    PROVE  SampleIInv'
<1>1. CASE \/ Ingest \/ PublishSnapshot \/ ReadSnapshot \/ BacktestSkips \/ BacktestAccepts
           \/ RecordBacktest \/ WriteSummary("backtest") \/ WeeklyRefresh
           \/ WriteSummary("weekly") \/ MovePointer \/ (\E j \in Jobs : Fail(j))
           \/ UNCHANGED vars
  BY <1>1, QuietSteps, SampleQuiet
<1>2. CASE CopyRatings \/ CopySummary \/ CopyBacktest \/ CopyArchive \/ CopyReport
  BY <1>2, CopySteps, SampleQuiet
<1>3. CASE WriteRatings("backtest") \/ WriteRatings("weekly")
  BY <1>3, SampleRatings
<1>4. CASE SealBacktest \/ VerifyBacktest \/ SealFreeze
  BY <1>4, SampleSealed, SampleVerified, SampleFrozen
<1> QED
  BY <1>1, <1>2, <1>3, <1>4 DEF Next, Backtest, Weekly, PublishFreeze

\* Initially no job runs and nothing is sealed.
LEMMA InitSample == Init => SampleIInv
<1> SUFFICES ASSUME Init PROVE SampleIInv
  OBVIOUS
<1>1. \A j \in Jobs : job[j] = Idle
  BY DEF Init
<1>2. /\ manifest = None /\ freezes = [n \in 1..MaxManifests |-> NoFreeze]
  BY DEF Init
<1>3. \A j \in Jobs : At(j, "idle")
  BY <1>1, IdleFields DEF At
<1>4. \A n \in DOMAIN freezes : freezes[n].seal = None
  BY <1>2 DEF NoFreeze
<1>5. {"weekly", "backtest", "publish-freeze"} \subseteq Jobs
  BY DEF Jobs
<1> QED
  BY <1>2, <1>3, <1>4, <1>5 DEF SampleIInv, OneAtATime, At

\* While nothing but backtest writes the ratings it seals, every manifest, every
\* publication and every seal states ratings of its own payload.
THEOREM SampleInvariance ==
    ASSUME ~Overlap \/ "weekly" \notin Scheduled
    PROVE  Spec => []SampleIInv
<1>1. Init => SampleIInv
  BY InitSample
<1>2. IInv /\ SampleIInv /\ [Next]_vars => SampleIInv'
  BY SampleStep
<1> QED
  BY <1>1, <1>2, Invariance, PTL DEF Spec

\* What is served was computed from the sealed snapshot without its last day,
\* however the jobs overlap if the weekly refresh is not scheduled, and with it
\* if they do not overlap.
THEOREM ServedIsOutOfSample ==
    ASSUME ~Overlap \/ "weekly" \notin Scheduled
    PROVE  Spec => []ServedRatingsAreOutOfSample
<1>1. IInv /\ SampleIInv => ServedRatingsAreOutOfSample
  <2> SUFFICES ASSUME IInv, SampleIInv, Served
               PROVE  ServedSeal.ratings = FromSnapshot(ServedSeal.payload.content)
    BY DEF ServedRatingsAreOutOfSample
  <2>1. serving # None /\ serving \in DOMAIN freezes
    BY DEF Served, IInv, TypeOK, Maybe
  <2>2. freezes[serving].seal # None
    BY <2>1 DEF IInv, ServingIsSealed
  <2> QED
    BY <2>1, <2>2 DEF SampleIInv, OutOfSample, ServedSeal
<1> QED
  BY <1>1, Invariance, SampleInvariance, PTL

-----------------------------------------------------------------------------
(* What fits together when the jobs run one after the other.               *)

\* While a job runs the others are idle, and no snapshot is published.
LEMMA Alone ==
    ASSUME ~Overlap, SampleIInv
    PROVE  /\ \A j, k \in Jobs : ~At(j, "idle") /\ k # j => At(k, "idle")
           /\ \A j \in Jobs : MayStart(j) => \A k \in Jobs : At(k, "idle")
           /\ Ingest => \A k \in Jobs : At(k, "idle")
  BY DEF SampleIInv, OneAtATime, MayStart, Undisturbed, Ingest

\* Nothing is known of a job that is idle: a step that leaves the freezes and
\* the manifest alone needs to say only what it does to the jobs that run.
LEMMA SealsKept ==
    ASSUME SerialIInv, UNCHANGED <<manifest, freezes>>
    PROVE  SealsFit'
<1>1. SealsFit
  BY DEF SerialIInv
<1> QED
  BY <1>1 DEF SealsFit, Loads, AcceptedRun, SealedAs, SealOf

\* A job that dies, or a snapshot that is published: fewer jobs run.
LEMMA SerialFewer ==
    ASSUME IInv, SerialIInv,
           UNCHANGED <<archive, report, ratings, summary, manifest, freezes>>,
           \A j \in Jobs : job'[j] = job[j] \/ job'[j].pc = "idle",
           current' = current \/ \A j \in Jobs : At(j, "idle")'
    PROVE  SerialIInv'
<1>1. {"publish-snapshot", "backtest", "publish-freeze"} \subseteq Jobs
  BY DEF Jobs
<1>2. RunReadsOnce'
  BY <1>1 DEF SerialIInv, RunReadsOnce, At
<1>3. EnvelopesNameTheirSource' /\ SealsFit'
  BY SealsKept DEF SerialIInv, EnvelopesNameTheirSource
<1>4. BacktestReadsOnce'
  BY <1>1 DEF SerialIInv, BacktestReadsOnce, AcceptedRun, At
<1>5. CopiesFit'
  BY <1>1 DEF SerialIInv, CopiesFit
<1> QED
  BY <1>2, <1>3, <1>4, <1>5 DEF SerialIInv

\* A step of publish-snapshot: no other job runs.
LEMMA SerialRun ==
    ASSUME ~Overlap, IInv, SampleIInv, SerialIInv, PublishSnapshot
    PROVE  SerialIInv'
<1> DEFINE j == "publish-snapshot"
           l == job[j]
<1>1. /\ UNCHANGED <<current, ratings, summary, manifest, freezes>>
      /\ job \in [Jobs -> Locals]
      /\ {j, "backtest", "publish-freeze"} \subseteq Jobs
  BY DEF PublishSnapshot, ReadMetadata, OpenPayload, ArchiveGame, WriteReport, store, derived,
     backtested, frozen, IInv, TypeOK, Jobs
<1>2. At("backtest", "idle") /\ At("publish-freeze", "idle")
  <2>1. ~At(j, "idle") \/ MayStart(j)
    BY DEF PublishSnapshot, ReadMetadata, OpenPayload, ArchiveGame, WriteReport, At
  <2> QED
    BY <1>1, <2>1, Alone
<1>3. /\ job'["backtest"] = job["backtest"]
      /\ job'["publish-freeze"] = job["publish-freeze"]
  BY <1>1 DEF PublishSnapshot, ReadMetadata, OpenPayload, ArchiveGame, WriteReport, Ends
<1>4. BacktestReadsOnce' /\ CopiesFit'
  BY <1>1, <1>2, <1>3 DEF SerialIInv, BacktestReadsOnce, AcceptedRun, CopiesFit, At
<1>5. RunReadsOnce'
  <2>1. CASE ReadMetadata
    <3>1. l' = [Idle EXCEPT !.pc = "open", !.metadata = current]
      BY <1>1, <2>1 DEF ReadMetadata
    <3>2. l'.pc = "open" /\ l'.metadata = current
      BY <3>1, IdleFields DEF Locals
    <3> QED
      BY <1>1, <3>2 DEF RunReadsOnce, At
  <2>2. CASE OpenPayload
    <3>1. l' = [l EXCEPT !.pc = "append", !.payload = current, !.todo = Games]
          /\ l.pc = "open" /\ l \in Locals
      BY <1>1, <2>2 DEF OpenPayload, At
    <3>2. l'.pc = "append" /\ l'.payload = current /\ l'.metadata = l.metadata
      BY <3>1 DEF Locals
    <3>3. l.metadata = current
      BY <3>1 DEF SerialIInv, RunReadsOnce, At
    <3> QED
      BY <3>2, <3>3 DEF RunReadsOnce, At
  <2>3. CASE ArchiveGame
    <3>1. l.pc = "append" /\ l \in Locals
      BY <1>1, <2>3 DEF ArchiveGame, At
    <3>2. l'.pc = "append" /\ l'.payload = l.payload /\ l'.metadata = l.metadata
      <4> DEFINE known(g) == \E e \in archive : e.run = l.metadata.content /\ e.game = g
      <4>1. PICK g \in l.todo, resolves \in Resolutions :
              job' = [job EXCEPT ![j].todo = @ \ {g},
                                 ![j].accepted = IF resolves /\ ~known(g) THEN @ + 1 ELSE @,
                                 ![j].rejected = @ \/ ~resolves]
        BY <2>3 DEF ArchiveGame
      <4> HIDE DEF known
      <4> QED
        BY <1>1, <3>1, <4>1 DEF Locals
    <3>3. l.payload = l.metadata
      BY <3>1 DEF SerialIInv, RunReadsOnce, At
    <3> QED
      BY <3>2, <3>3 DEF RunReadsOnce, At
  <2>4. CASE WriteReport
    <3>1. l' = Idle
      BY <1>1, <2>4 DEF WriteReport, Ends
    <3> QED
      BY <3>1, IdleFields DEF RunReadsOnce, At
  <2> QED
    BY <2>1, <2>2, <2>3, <2>4 DEF PublishSnapshot
<1>6. EnvelopesNameTheirSource'
  <2>1. EnvelopesNameTheirSource
    BY DEF SerialIInv
  <2>2. CASE ArchiveGame
    <3>1. PICK g \in l.todo :
            archive' \subseteq archive \union
                {[run |-> l.metadata.content, game |-> g, of |-> l.payload.content]}
      BY <2>2 DEF ArchiveGame
    <3>2. l.payload = l.metadata
      BY <2>2 DEF ArchiveGame, At, SerialIInv, RunReadsOnce
    <3> QED
      BY <2>1, <3>1, <3>2 DEF EnvelopesNameTheirSource
  <2>3. CASE ~ArchiveGame
    BY <2>1, <2>3 DEF PublishSnapshot, ReadMetadata, OpenPayload, WriteReport, collection,
       EnvelopesNameTheirSource
  <2> QED
    BY <2>2, <2>3
<1> QED
  BY <1>1, <1>4, <1>5, <1>6, SealsKept DEF SerialIInv

\* A step of backtest: no other job runs, so the published snapshot is the one
\* it read and no publication is under way.
LEMMA SerialBacktest ==
    ASSUME ~Overlap, IInv, SampleIInv, SerialIInv,
           ReadSnapshot \/ BacktestAccepts \/ WriteRatings("backtest")
           \/ WriteSummary("backtest")
    PROVE  SerialIInv'
<1> DEFINE j == "backtest"
           b == job[j]
<1>1. /\ UNCHANGED <<current, archive, report, manifest, freezes>>
      /\ job \in [Jobs -> Locals]
      /\ {j, "publish-snapshot", "publish-freeze"} \subseteq Jobs
  BY DEF ReadSnapshot, BacktestAccepts, WriteRatings, WriteSummary, store, collection,
     backtested, frozen, IInv, TypeOK, Jobs
<1>2. At("publish-snapshot", "idle") /\ At("publish-freeze", "idle")
  <2>1. ~At(j, "idle") \/ MayStart(j)
    BY DEF ReadSnapshot, BacktestAccepts, WriteRatings, WriteSummary, At
  <2> QED
    BY <1>1, <2>1, Alone
<1>3. /\ job'["publish-snapshot"] = job["publish-snapshot"]
      /\ job'["publish-freeze"] = job["publish-freeze"]
  BY <1>1 DEF ReadSnapshot, BacktestAccepts, WriteRatings, WriteSummary, Goes
<1>4. RunReadsOnce' /\ CopiesFit'
  BY <1>1, <1>2, <1>3 DEF RunReadsOnce, CopiesFit, At
<1>5. manifest # None => manifest.metadata = manifest.payload
                         /\ AcceptedRun(manifest.payload, manifest.report)
  BY DEF SerialIInv, BacktestReadsOnce
<1>6. /\ b'.pc # "idle" /\ b'.payload = current
      /\ b'.pc \in {"ratings", "summary", "seal", "record"} =>
            AcceptedRun(b'.payload, b'.input.report)
  <2>1. CASE ReadSnapshot
    <3>1. b' = [Idle EXCEPT !.pc = "check", !.payload = current]
      BY <1>1, <2>1 DEF ReadSnapshot
    <3>2. b'.pc = "check" /\ b'.payload = current
      BY <3>1, IdleFields DEF Locals
    <3> QED
      BY <3>2
  <2>2. CASE BacktestAccepts
    <3>1. /\ b.pc = "check" /\ Verified(b.payload.content) /\ b \in Locals
          /\ b' = [b EXCEPT !.pc = "ratings", !.input = BacktestInput]
      BY <1>1, <2>2 DEF BacktestAccepts, At
    <3>2. b'.pc = "ratings" /\ b'.payload = b.payload /\ b'.input = BacktestInput
      BY <3>1 DEF Locals
    <3>3. b.payload = current
      BY <3>1 DEF SerialIInv, BacktestReadsOnce, At
    <3>4. AcceptedRun(b.payload, report) /\ BacktestInput.report = report
      BY <3>1 DEF Verified, AcceptedRun, BacktestInput
    <3> QED
      BY <3>2, <3>3, <3>4
  <2>3. CASE WriteRatings(j) \/ WriteSummary(j)
    <3>1. /\ b.pc \in {"ratings", "summary"}
          /\ Goes(j, "summary") \/ Goes(j, "seal")
      BY <2>3 DEF WriteRatings, WriteSummary, At
    <3>2. /\ b'.payload = b.payload /\ b'.input = b.input /\ b'.pc \in {"summary", "seal"}
      BY <1>1, <3>1, JobGoes DEF IInv
    <3>3. b.payload = current /\ AcceptedRun(b.payload, b.input.report)
      BY <3>1 DEF SerialIInv, BacktestReadsOnce, At
    <3> QED
      BY <3>2, <3>3
  <2> QED
    BY <2>1, <2>2, <2>3
<1>7. BacktestReadsOnce'
  BY <1>1, <1>5, <1>6 DEF BacktestReadsOnce, AcceptedRun, At
<1>8. EnvelopesNameTheirSource'
  BY <1>1 DEF SerialIInv, EnvelopesNameTheirSource
<1> QED
  BY <1>1, <1>4, <1>7, <1>8, SealsKept DEF SerialIInv

\* The new manifest states the metadata of its own payload; its freeze is empty.
LEMMA SerialSealed ==
    ASSUME ~Overlap, IInv, SampleIInv, SerialIInv, SealBacktest
    PROVE  SerialIInv'
<1> DEFINE j == "backtest"
           b == job[j]
<1>1. /\ b.pc = "seal" /\ Goes(j, "record") /\ Manifests < MaxManifests
      /\ UNCHANGED <<current, archive, report, freezes>>
      /\ manifest'.payload = b.payload /\ manifest'.metadata = current
      /\ manifest'.report = b.input.report /\ manifest'.no = Manifests + 1
      /\ {j, "publish-snapshot", "publish-freeze"} \subseteq Jobs
  BY DEF SealBacktest, At, store, collection, frozen, Jobs
<1>2. At("publish-snapshot", "idle") /\ At("publish-freeze", "idle")
  BY <1>1, Alone DEF At
<1>3. /\ job'[j].pc = "record" /\ job'[j].payload = b.payload /\ job'[j].input = b.input
      /\ \A k \in Jobs : k # j => job'[k] = job[k]
  BY <1>1, JobGoes DEF IInv
<1>4. /\ job'["publish-snapshot"] = job["publish-snapshot"]
      /\ job'["publish-freeze"] = job["publish-freeze"]
  BY <1>1, <1>3
<1>5. RunReadsOnce' /\ CopiesFit'
  BY <1>2, <1>4 DEF RunReadsOnce, CopiesFit, At
<1>6. b.payload = current /\ AcceptedRun(b.payload, b.input.report)
  BY <1>1 DEF SerialIInv, BacktestReadsOnce, At
<1>7. BacktestReadsOnce'
  BY <1>1, <1>3, <1>6 DEF BacktestReadsOnce, AcceptedRun
<1>8. EnvelopesNameTheirSource'
  BY <1>1 DEF SerialIInv, EnvelopesNameTheirSource
<1>9. freezes[Manifests + 1].seal = None
  <2>1. Manifests + 1 \in DOMAIN freezes /\ Manifests + 1 > Manifests
    BY <1>1, LastManifest, Numbers DEF IInv, TypeOK
  <2> QED
    BY <2>1 DEF IInv, ManifestsFit, NoFreeze
<1>10. SealsFit'
  BY <1>1, <1>9 DEF SerialIInv, SealsFit, Loads, AcceptedRun
<1> QED
  BY <1>5, <1>7, <1>8, <1>10 DEF SerialIInv

\* The weekly refresh writes while no other job runs.
LEMMA SerialWeekly ==
    ASSUME ~Overlap, IInv, SampleIInv, SerialIInv, Weekly
    PROVE  SerialIInv'
<1> DEFINE j == "weekly"
<1>1. /\ UNCHANGED <<current, archive, report, manifest, freezes>>
      /\ job \in [Jobs -> Locals]
      /\ {j, "publish-snapshot", "backtest", "publish-freeze"} \subseteq Jobs
  BY DEF Weekly, WeeklyRefresh, WriteRatings, WriteSummary, store, collection, backtested,
     frozen, IInv, TypeOK, Jobs
<1>2. At("publish-snapshot", "idle") /\ At("backtest", "idle") /\ At("publish-freeze", "idle")
  <2>1. ~At(j, "idle") \/ MayStart(j)
    BY DEF Weekly, WeeklyRefresh, WriteRatings, WriteSummary, At
  <2> QED
    BY <1>1, <2>1, Alone
<1>3. /\ job'["publish-snapshot"] = job["publish-snapshot"]
      /\ job'["backtest"] = job["backtest"]
      /\ job'["publish-freeze"] = job["publish-freeze"]
  BY <1>1 DEF Weekly, WeeklyRefresh, WriteRatings, WriteSummary, Goes, Ends
<1>4. RunReadsOnce' /\ BacktestReadsOnce' /\ CopiesFit'
  BY <1>1, <1>2, <1>3 DEF SerialIInv, RunReadsOnce, BacktestReadsOnce, AcceptedRun, CopiesFit, At
<1>5. EnvelopesNameTheirSource'
  BY <1>1 DEF SerialIInv, EnvelopesNameTheirSource
<1> QED
  BY <1>1, <1>4, <1>5, SealsKept DEF SerialIInv

\* While a publication runs, nothing else does: it has the last manifest, and
\* the disk has what that manifest states.
LEMMA SerialPublication ==
    ASSUME ~Overlap, IInv, SampleIInv, SerialIInv, job["publish-freeze"].pc # "idle"
    PROVE  /\ manifest \in Manifest /\ job["publish-freeze"].manifest = manifest
           /\ Target = manifest.no /\ Target \in DOMAIN freezes /\ freezes[Target] \in Freeze
           /\ ratings = manifest.ratings /\ summary = manifest.summary
           /\ report = manifest.report /\ archive = manifest.archive
           /\ manifest.metadata = manifest.payload
           /\ AcceptedRun(manifest.payload, manifest.report)
           /\ At("publish-snapshot", "idle") /\ At("backtest", "idle")
<1>1. /\ manifest # None /\ manifest \in Manifest
      /\ Target \in 1..MaxManifests /\ freezes[Target] \in Freeze
      /\ DOMAIN freezes = 1..MaxManifests
  BY PublicationRuns DEF IInv, TypeOK
<1>2. /\ job["publish-freeze"].manifest = manifest
      /\ ratings = manifest.ratings /\ summary = manifest.summary
      /\ report = manifest.report /\ archive = manifest.archive
  BY DEF SerialIInv, CopiesFit
<1>3. manifest.metadata = manifest.payload /\ AcceptedRun(manifest.payload, manifest.report)
  BY <1>1 DEF SerialIInv, BacktestReadsOnce
<1>4. {"publish-snapshot", "backtest", "publish-freeze"} \subseteq Jobs
  BY DEF Jobs
<1>5. At("publish-snapshot", "idle") /\ At("backtest", "idle")
  BY <1>4, Alone DEF At
<1> QED
  BY <1>1, <1>2, <1>3, <1>5 DEF Target

\* The jobs that are idle stay so, and the rest is as it was.
LEMMA SerialOthers ==
    ASSUME SerialIInv, UNCHANGED <<archive, manifest>>,
           At("publish-snapshot", "idle"), At("backtest", "idle"),
           job'["publish-snapshot"] = job["publish-snapshot"],
           job'["backtest"] = job["backtest"]
    PROVE  RunReadsOnce' /\ EnvelopesNameTheirSource' /\ BacktestReadsOnce'
<1>1. RunReadsOnce'
  BY DEF RunReadsOnce, At
<1>2. EnvelopesNameTheirSource'
  BY DEF SerialIInv, EnvelopesNameTheirSource
<1>3. BacktestReadsOnce'
  BY DEF SerialIInv, BacktestReadsOnce, AcceptedRun, At
<1> QED
  BY <1>1, <1>2, <1>3

\* A publication starts when the disk is what the manifest states.
LEMMA SerialVerified ==
    ASSUME ~Overlap, IInv, SampleIInv, SerialIInv, VerifyBacktest
    PROVE  SerialIInv'
<1> DEFINE j == "publish-freeze"
           l == [Idle EXCEPT !.pc = "copy-ratings", !.manifest = manifest]
<1>1. /\ MayStart(j) /\ job' = [job EXCEPT ![j] = l]
      /\ ratings = manifest.ratings /\ summary = manifest.summary
      /\ report = manifest.report /\ archive = manifest.archive
      /\ UNCHANGED <<current, archive, report, ratings, summary, manifest, freezes>>
  BY DEF VerifyBacktest, DiskIsAsSealed, store, collection, derived, backtested, frozen
<1>2. job \in [Jobs -> Locals] /\ {j, "publish-snapshot", "backtest"} \subseteq Jobs
  BY DEF IInv, TypeOK, Jobs
<1>3. At("publish-snapshot", "idle") /\ At("backtest", "idle")
  BY <1>1, <1>2, Alone
<1>4. /\ job'["publish-snapshot"] = job["publish-snapshot"]
      /\ job'["backtest"] = job["backtest"] /\ job'[j] = l
  BY <1>1, <1>2
<1>5. l.manifest = manifest /\ l.pc = "copy-ratings"
  BY IdleFields DEF Locals
<1> HIDE DEF l
<1>6. CopiesFit'
  BY <1>1, <1>4, <1>5 DEF CopiesFit
<1> QED
  BY <1>1, <1>3, <1>4, <1>6, SerialOthers, SealsKept DEF SerialIInv

\* The parts of the seal of a manifest.
LEMMA SealedParts ==
    ASSUME NEW m
    PROVE  LET s == SealedAs(m) IN
           /\ s.payload = m.payload /\ s.metadata = m.metadata
           /\ s.ratings = m.ratings /\ s.summary = m.summary /\ s.backtest = m
           /\ s.report = m.report /\ s.archive = m.archive
  BY DEF SealedAs, SealOf

\* A freeze that is sealed was sealed as the manifest states: a file that is
\* copied to it again is the one that it was sealed with.
LEMMA SerialCopied ==
    ASSUME ~Overlap, IInv, SampleIInv, SerialIInv, job["publish-freeze"].pc # "idle",
           NEW f, freezes' = [freezes EXCEPT ![Target] = f], UNCHANGED manifest,
           LET g == freezes[Target] IN
           /\ f.seal = g.seal
           /\ f.ratings \in {g.ratings, manifest.ratings}
           /\ f.summary \in {g.summary, manifest.summary}
           /\ f.backtest \in {g.backtest, manifest}
           /\ f.archive \in {g.archive, manifest.archive}
           /\ f.report \in {g.report, manifest.report}
    PROVE  SealsFit'
<1> DEFINE g == freezes[Target]
           s == SealedAs(manifest)
<1>1. Target = manifest.no /\ Target \in DOMAIN freezes
  BY SerialPublication
<1>2. SealsFit /\ manifest # None
  BY PublicationRuns DEF SerialIInv
<1>3. ASSUME g.seal # None
      PROVE  /\ g.seal = s
             /\ g.ratings = s.ratings /\ g.summary = s.summary /\ g.backtest = s.backtest
             /\ g.archive = s.archive /\ g.report = s.report
  BY <1>1, <1>2, <1>3 DEF SealsFit, Loads
<1>4. ASSUME g.seal # None
      PROVE  /\ f.seal = s
             /\ f.ratings = s.ratings /\ f.summary = s.summary /\ f.backtest = s.backtest
             /\ f.archive = s.archive /\ f.report = s.report
  BY <1>3, <1>4, SealedParts
<1>5. /\ freezes'[Target] = f /\ DOMAIN freezes' = DOMAIN freezes
      /\ \A n \in DOMAIN freezes : n # Target => freezes'[n] = freezes[n]
  BY <1>1
<1> HIDE DEF s
<1>6. ASSUME NEW n \in DOMAIN freezes, freezes'[n].seal # None
      PROVE  /\ Loads(n)' /\ freezes'[n].seal.metadata = freezes'[n].seal.payload
             /\ AcceptedRun(freezes'[n].seal.payload, freezes'[n].seal.report)
  <2>1. CASE n = Target
    <3>1. g.seal # None
      BY <1>5, <1>6, <2>1
    <3>2. g.seal.metadata = g.seal.payload /\ AcceptedRun(g.seal.payload, g.seal.report)
      BY <1>1, <1>2, <3>1 DEF SealsFit
    <3> QED
      BY <1>4, <1>5, <2>1, <3>1, <3>2 DEF Loads
  <2>2. CASE n # Target
    BY <1>2, <1>5, <1>6, <2>2 DEF SealsFit, Loads
  <2> QED
    BY <2>1, <2>2
<1>7. freezes'[manifest.no].seal # None => freezes'[manifest.no].seal = s
  BY <1>1, <1>4, <1>5
<1> QED
  BY <1>5, <1>6, <1>7 DEF SealsFit, AcceptedRun, s, SealedAs, SealOf

\* A publication goes on to its next file.
LEMMA SerialCopies ==
    ASSUME ~Overlap, IInv, SampleIInv, SerialIInv,
           CopyRatings \/ CopySummary \/ CopyBacktest \/ CopyArchive \/ CopyReport
    PROVE  SerialIInv'
<1> DEFINE j == "publish-freeze"
           l == job[j]
           g == freezes[Target]
           m == manifest
<1>1. /\ l.pc # "idle"
      /\ UNCHANGED <<current, archive, report, ratings, summary, manifest>>
  BY DEF CopyRatings, CopySummary, CopyBacktest, CopyArchive, CopyReport, At, store,
     collection, derived, backtested
<1>2. /\ m \in Manifest /\ l.manifest = m /\ Target = m.no
      /\ Target \in DOMAIN freezes /\ g \in Freeze
      /\ ratings = m.ratings /\ summary = m.summary
      /\ report = m.report /\ archive = m.archive
      /\ At("publish-snapshot", "idle") /\ At("backtest", "idle")
  BY <1>1, SerialPublication
<1>3. job \in [Jobs -> Locals] /\ {j, "publish-snapshot", "backtest"} \subseteq Jobs
  BY DEF IInv, TypeOK, Jobs
<1>4. /\ job'["publish-snapshot"] = job["publish-snapshot"]
      /\ job'["backtest"] = job["backtest"]
  BY <1>3 DEF CopyRatings, CopySummary, CopyBacktest, CopyArchive, CopyReport, Goes
<1>5. RunReadsOnce' /\ EnvelopesNameTheirSource' /\ BacktestReadsOnce'
  BY <1>1, <1>2, <1>4, SerialOthers
<1>6. /\ l.pc # "copy-ratings" => g.ratings = m.ratings
      /\ l.pc \notin {"copy-ratings", "copy-summary"} => g.summary = m.summary
      /\ l.pc \in {"copy-archive", "copy-report", "seal", "point"} => g.backtest = m
      /\ l.pc \in {"copy-report", "seal", "point"} => g.archive = m.archive
  BY <1>1, <1>2 DEF SerialIInv, CopiesFit
<1>7. ASSUME NEW pc, Goes(j, pc) PROVE l'.pc = pc /\ l'.manifest = m
  BY <1>2, <1>3, <1>7 DEF Goes, Locals
<1>8. ASSUME NEW f, freezes' = [freezes EXCEPT ![Target] = f] PROVE freezes'[m.no] = f
  BY <1>2, <1>8
<1>9. CASE CopyRatings
  <2> DEFINE f == [g EXCEPT !.ratings = Copied(g.ratings, ratings)]
  <2>1. /\ l.pc = "copy-ratings" /\ l'.pc = "copy-summary" /\ l'.manifest = m
        /\ freezes' = [freezes EXCEPT ![Target] = f] /\ Copied(g.ratings, ratings) = ratings
    BY <1>7, <1>9 DEF CopyRatings, At, Copied, MayCopy
  <2>2. /\ f.ratings = m.ratings /\ f.summary = g.summary /\ f.backtest = g.backtest
        /\ f.archive = g.archive /\ f.report = g.report /\ f.seal = g.seal
    BY <1>2, <2>1 DEF Freeze
  <2> HIDE DEF f
  <2>3. SealsFit'
    BY <1>1, <2>1, <2>2, SerialCopied
  <2>4. CopiesFit'
    BY <1>1, <1>2, <1>8, <2>1, <2>2 DEF CopiesFit
  <2> QED
    BY <1>5, <2>3, <2>4 DEF SerialIInv
<1>10. CASE CopySummary
  <2> DEFINE f == [g EXCEPT !.summary = Copied(g.summary, summary)]
  <2>1. /\ l.pc = "copy-summary" /\ l'.pc = "copy-backtest" /\ l'.manifest = m
        /\ freezes' = [freezes EXCEPT ![Target] = f] /\ Copied(g.summary, summary) = summary
    BY <1>7, <1>10 DEF CopySummary, At, Copied, MayCopy
  <2>2. /\ f.ratings = g.ratings /\ f.summary = m.summary /\ f.backtest = g.backtest
        /\ f.archive = g.archive /\ f.report = g.report /\ f.seal = g.seal
    BY <1>2, <2>1 DEF Freeze
  <2> HIDE DEF f
  <2>3. SealsFit'
    BY <1>1, <2>1, <2>2, SerialCopied
  <2>4. CopiesFit'
    BY <1>1, <1>2, <1>6, <1>8, <2>1, <2>2 DEF CopiesFit
  <2> QED
    BY <1>5, <2>3, <2>4 DEF SerialIInv
<1>11. CASE CopyBacktest
  <2> DEFINE f == [g EXCEPT !.backtest = Copied(g.backtest, m)]
  <2>1. /\ l.pc = "copy-backtest" /\ l'.pc = "copy-archive" /\ l'.manifest = m
        /\ freezes' = [freezes EXCEPT ![Target] = f] /\ Copied(g.backtest, m) = m
    BY <1>7, <1>11 DEF CopyBacktest, At, Copied, MayCopy
  <2>2. /\ f.ratings = g.ratings /\ f.summary = g.summary /\ f.backtest = m
        /\ f.archive = g.archive /\ f.report = g.report /\ f.seal = g.seal
    BY <1>2, <2>1 DEF Freeze
  <2> HIDE DEF f
  <2>3. SealsFit'
    BY <1>1, <2>1, <2>2, SerialCopied
  <2>4. CopiesFit'
    BY <1>1, <1>2, <1>6, <1>8, <2>1, <2>2 DEF CopiesFit
  <2> QED
    BY <1>5, <2>3, <2>4 DEF SerialIInv
<1>12. CASE CopyArchive
  <2> DEFINE f == [g EXCEPT !.archive = Copied(g.archive, archive)]
  <2>1. /\ l.pc = "copy-archive" /\ l'.pc = "copy-report" /\ l'.manifest = m
        /\ freezes' = [freezes EXCEPT ![Target] = f] /\ Copied(g.archive, archive) = archive
    BY <1>7, <1>12 DEF CopyArchive, At, Copied, MayCopy
  <2>2. /\ f.ratings = g.ratings /\ f.summary = g.summary /\ f.backtest = g.backtest
        /\ f.archive = m.archive /\ f.report = g.report /\ f.seal = g.seal
    BY <1>2, <2>1 DEF Freeze
  <2> HIDE DEF f
  <2>3. SealsFit'
    BY <1>1, <2>1, <2>2, SerialCopied
  <2>4. CopiesFit'
    BY <1>1, <1>2, <1>6, <1>8, <2>1, <2>2 DEF CopiesFit
  <2> QED
    BY <1>5, <2>3, <2>4 DEF SerialIInv
<1>13. CASE CopyReport
  <2> DEFINE f == [g EXCEPT !.report = Copied(g.report, report)]
  <2>1. /\ l.pc = "copy-report" /\ l'.pc = "seal" /\ l'.manifest = m
        /\ freezes' = [freezes EXCEPT ![Target] = f] /\ Copied(g.report, report) = report
    BY <1>7, <1>13 DEF CopyReport, At, Copied, MayCopy
  <2>2. /\ f.ratings = g.ratings /\ f.summary = g.summary /\ f.backtest = g.backtest
        /\ f.archive = g.archive /\ f.report = m.report /\ f.seal = g.seal
    BY <1>2, <2>1 DEF Freeze
  <2> HIDE DEF f
  <2>3. SealsFit'
    BY <1>1, <2>1, <2>2, SerialCopied
  <2>4. CopiesFit'
    BY <1>1, <1>2, <1>6, <1>8, <2>1, <2>2 DEF CopiesFit
  <2> QED
    BY <1>5, <2>3, <2>4 DEF SerialIInv
<1> QED
  BY <1>9, <1>10, <1>11, <1>12, <1>13

\* All files are copied: the freeze is sealed with what it holds.
LEMMA SerialFrozen ==
    ASSUME ~Overlap, IInv, SampleIInv, SerialIInv, SealFreeze
    PROVE  SerialIInv'
<1> DEFINE l == job["publish-freeze"]
           g == freezes[Target]
           m == manifest
           s == SealedAs(m)
<1>1. /\ l.pc = "seal" /\ l'.pc = "point" /\ l'.manifest = l.manifest
      /\ \A k \in Jobs : k # "publish-freeze" => job'[k] = job[k]
      /\ UNCHANGED <<current, archive, report, ratings, summary, manifest>>
      /\ Target \in DOMAIN freezes /\ g \in Freeze
      /\ freezes' = [freezes EXCEPT ![Target] = [g EXCEPT
                        !.seal = Copied(g.seal, SealOf(l.manifest, g))]]
  BY SealStep
<1>2. /\ l.manifest = m /\ Target = m.no /\ m # None
      /\ ratings = m.ratings /\ summary = m.summary
      /\ report = m.report /\ archive = m.archive
      /\ m.metadata = m.payload /\ AcceptedRun(m.payload, m.report)
      /\ At("publish-snapshot", "idle") /\ At("backtest", "idle")
  BY <1>1, SerialPublication, PublicationRuns
<1>3. /\ g.ratings = m.ratings /\ g.summary = m.summary /\ g.backtest = m
      /\ g.archive = m.archive /\ g.report = m.report
  BY <1>1, <1>2 DEF SerialIInv, CopiesFit
<1>4. SealOf(l.manifest, g) = s
  BY <1>2, <1>3 DEF SealOf, SealedAs
<1>5. SealsFit
  BY DEF SerialIInv
<1>6. Copied(g.seal, SealOf(l.manifest, g)) = s
  BY <1>1, <1>2, <1>4, <1>5 DEF Copied, SealsFit
<1> DEFINE f == [g EXCEPT !.seal = Copied(g.seal, SealOf(l.manifest, g))]
<1>7. /\ f.ratings = m.ratings /\ f.summary = m.summary /\ f.backtest = m
      /\ f.archive = m.archive /\ f.report = m.report /\ f.seal = s
  BY <1>1, <1>3, <1>6 DEF Freeze
<1> HIDE DEF f, s
<1>8. /\ freezes'[Target] = f /\ DOMAIN freezes' = DOMAIN freezes
      /\ \A n \in DOMAIN freezes : n # Target => freezes'[n] = freezes[n]
  BY <1>1 DEF f
<1>9. /\ s.payload = m.payload /\ s.metadata = m.metadata
      /\ s.ratings = m.ratings /\ s.summary = m.summary /\ s.backtest = m
      /\ s.report = m.report /\ s.archive = m.archive
  BY SealedParts DEF s
<1>10. ASSUME NEW n \in DOMAIN freezes, freezes'[n].seal # None
       PROVE  /\ Loads(n)' /\ freezes'[n].seal.metadata = freezes'[n].seal.payload
              /\ AcceptedRun(freezes'[n].seal.payload, freezes'[n].seal.report)
  <2>1. CASE n = Target
    BY <1>2, <1>7, <1>8, <1>9, <1>10, <2>1 DEF Loads
  <2>2. CASE n # Target
    BY <1>5, <1>8, <1>10, <2>2 DEF SealsFit, Loads
  <2> QED
    BY <2>1, <2>2
<1>11. freezes'[m.no].seal = s
  BY <1>2, <1>7, <1>8
<1>12. SealsFit'
  BY <1>1, <1>8, <1>10, <1>11 DEF SealsFit, AcceptedRun, s, SealedAs, SealOf
<1>13. CopiesFit'
  BY <1>1, <1>2, <1>7, <1>8 DEF CopiesFit
<1>14. /\ job'["publish-snapshot"] = job["publish-snapshot"]
       /\ job'["backtest"] = job["backtest"]
  BY <1>1 DEF Jobs
<1>15. RunReadsOnce' /\ EnvelopesNameTheirSource' /\ BacktestReadsOnce'
  BY <1>1, <1>2, <1>14, SerialOthers
<1> QED
  BY <1>12, <1>13, <1>15 DEF SerialIInv

\* A job ends: what it left on disk is what it was.
LEMMA SerialEnds ==
    ASSUME ~Overlap, IInv, SampleIInv, SerialIInv,
           \/ Ingest \/ BacktestSkips \/ RecordBacktest \/ MovePointer
           \/ (\E j \in Jobs : Fail(j)) \/ UNCHANGED vars
    PROVE  SerialIInv'
<1>1. /\ UNCHANGED <<archive, report, ratings, summary, manifest, freezes>>
      /\ job \in [Jobs -> Locals]
  BY DEF Ingest, BacktestSkips, RecordBacktest, MovePointer, Fail, collection, derived,
     backtested, frozen, vars, IInv, TypeOK
<1>2. \A j \in Jobs : job'[j] = job[j] \/ job'[j].pc = "idle"
  <2>1. job' = job \/ \E j \in Jobs : job' = [job EXCEPT ![j] = Idle]
    BY DEF Ingest, BacktestSkips, RecordBacktest, MovePointer, Fail, Ends, vars, Jobs
  <2> QED
    BY <1>1, <2>1, IdleFields
<1>3. current' = current \/ \A j \in Jobs : At(j, "idle")'
  <2>1. CASE Ingest
    BY <2>1, Alone DEF Ingest, At
  <2>2. CASE \/ BacktestSkips \/ RecordBacktest \/ MovePointer
             \/ (\E j \in Jobs : Fail(j)) \/ UNCHANGED vars
    BY <2>2 DEF BacktestSkips, RecordBacktest, MovePointer, Fail, store, vars
  <2> QED
    BY <2>1, <2>2
<1> QED
  BY <1>1, <1>2, <1>3, SerialFewer

\* Every step of jobs that run one after the other.
LEMMA SerialStep ==
    ASSUME ~Overlap, IInv, SampleIInv, SerialIInv, [Next]_vars
    PROVE  SerialIInv'
<1>1. CASE \/ Ingest \/ BacktestSkips \/ RecordBacktest \/ MovePointer
           \/ (\E j \in Jobs : Fail(j)) \/ UNCHANGED vars
  BY <1>1, SerialEnds
<1>2. CASE PublishSnapshot
  BY <1>2, SerialRun
<1>3. CASE \/ ReadSnapshot \/ BacktestAccepts \/ WriteRatings("backtest")
           \/ WriteSummary("backtest")
  BY <1>3, SerialBacktest
<1>4. CASE SealBacktest \/ VerifyBacktest \/ SealFreeze
  BY <1>4, SerialSealed, SerialVerified, SerialFrozen
<1>5. CASE Weekly
  BY <1>5, SerialWeekly
<1>6. CASE CopyRatings \/ CopySummary \/ CopyBacktest \/ CopyArchive \/ CopyReport
  BY <1>6, SerialCopies
<1> QED
  BY <1>1, <1>2, <1>3, <1>4, <1>5, <1>6 DEF Next, Backtest, PublishFreeze

\* Initially there is nothing to fit together.
LEMMA InitSerial == Init => SerialIInv
<1> SUFFICES ASSUME Init PROVE SerialIInv
  OBVIOUS
<1>1. /\ archive = {} /\ manifest = None /\ freezes = [n \in 1..MaxManifests |-> NoFreeze]
      /\ \A j \in Jobs : job[j] = Idle
  BY DEF Init
<1>2. /\ \A j \in Jobs : job[j].pc = "idle"
      /\ {"publish-snapshot", "backtest", "publish-freeze"} \subseteq Jobs
  BY <1>1, IdleFields DEF Jobs
<1>3. \A n \in DOMAIN freezes : freezes[n].seal = None
  BY <1>1 DEF NoFreeze
<1>4. RunReadsOnce /\ EnvelopesNameTheirSource /\ BacktestReadsOnce
  BY <1>1, <1>2 DEF RunReadsOnce, EnvelopesNameTheirSource, BacktestReadsOnce, At
<1>5. CopiesFit /\ SealsFit
  BY <1>1, <1>2, <1>3 DEF CopiesFit, SealsFit
<1> QED
  BY <1>4, <1>5 DEF SerialIInv

\* Jobs that run one after the other, and that may die after any step, leave a
\* manifest, an archive and freezes whose parts belong together.
THEOREM SerialInvariance ==
    ASSUME ~Overlap
    PROVE  Spec => []SerialIInv
<1>1. Init => SerialIInv
  BY InitSerial
<1>2. IInv /\ SampleIInv /\ SerialIInv /\ [Next]_vars => SerialIInv'
  BY SerialStep
<1>3. Spec => []SampleIInv
  BY SampleInvariance
<1> QED
  BY <1>1, <1>2, <1>3, Invariance, PTL DEF Spec

\* The freeze that is served loads: no half finished or repeated publication and
\* no weekly refresh leaves a file in it that is not the sealed one.
THEOREM ServedLoads ==
    ASSUME ~Overlap
    PROVE  Spec => []PublishedFreezeLoads
<1>1. IInv /\ SerialIInv => PublishedFreezeLoads
  <2> SUFFICES ASSUME IInv, SerialIInv, serving # None PROVE Loads(serving)
    BY DEF PublishedFreezeLoads
  <2>1. serving \in DOMAIN freezes /\ freezes[serving].seal # None
    BY DEF IInv, TypeOK, Maybe, ServingIsSealed
  <2> QED
    BY <2>1 DEF SerialIInv, SealsFit
<1> QED
  BY <1>1, Invariance, SerialInvariance, PTL

\* The collection run of a sealed freeze is the accepted run of its snapshot.
THEOREM SealedRunIsAccepted ==
    ASSUME ~Overlap
    PROVE  Spec => []SealedRunIsOfTheSnapshot
<1>1. SerialIInv => SealedRunIsOfTheSnapshot
  BY DEF SerialIInv, SealsFit, AcceptedRun, SealedRunIsOfTheSnapshot
<1> QED
  BY <1>1, SerialInvariance, PTL

-----------------------------------------------------------------------------
(* What a backtest skips, while nothing but backtest writes its outputs.   *)

\* Reports are numbered in the order in which they replace one another.
LEMMA ReportNumbers == \A r \in Report : r.no \in Nat
<1>1. \A r \in Report : r.no \in 1..MaxReports
  BY DEF Report
<1> QED
  BY <1>1, BoundsAssumption

\* An input that is not the present one never is again.
LEMMA RunsGoForward ==
    ASSUME NEW x, NEW y, NEW z, x.report \in Report, y.report \in Report, z.report \in Report,
           Precedes(x, y), Precedes(y, z)
    PROVE  Precedes(x, z) /\ (SameRun(x, z) => SameRun(x, y))
<1>1. x.report.no \in Nat /\ y.report.no \in Nat /\ z.report.no \in Nat
  BY ReportNumbers
<1>2. Precedes(x, z)
  BY <1>1 DEF Precedes
<1>3. ASSUME SameRun(x, z) PROVE SameRun(x, y)
  <2>1. y.report.no = x.report.no
    BY <1>1, <1>3 DEF Precedes, SameRun
  <2>2. x.report = y.report /\ x.archive = y.archive
    BY <1>3, <2>1 DEF Precedes, SameRun
  <2> QED
    BY <2>2 DEF SameRun
<1> QED
  BY <1>2, <1>3

\* What the steps do to the report and the archive.
LEMMA RunsAdvance ==
    ASSUME IInv, [Next]_vars, report # None
    PROVE  report \in Report /\ report' \in Report /\ Precedes(Now, Now')
<1>1. report \in Report
  BY DEF IInv, TypeOK, Maybe
<1>2. report.no \in Nat
  BY <1>1, ReportNumbers
<1>3. CASE WriteReport
  <2>1. report' \in Report /\ report'.no = report.no + 1
    BY <1>3, ReportWritten DEF Reports
  <2>2. archive' = archive
    BY <1>3 DEF WriteReport
  <2> QED
    BY <1>1, <1>2, <2>1, <2>2 DEF Precedes, Now
<1>4. CASE ~WriteReport
  <2>1. report' = report /\ archive \subseteq archive'
    BY <1>4 DEF Next, vars, Ingest, PublishSnapshot, ReadMetadata, OpenPayload, ArchiveGame,
       Backtest, ReadSnapshot, BacktestSkips, BacktestAccepts, WriteRatings, WriteSummary,
       SealBacktest, RecordBacktest, Weekly, WeeklyRefresh, PublishFreeze, VerifyBacktest,
       CopyRatings, CopySummary, CopyBacktest, CopyArchive, CopyReport, SealFreeze, MovePointer,
       Fail, collection
  <2> QED
    BY <1>1, <1>2, <2>1 DEF Precedes, Now
<1> QED
  BY <1>3, <1>4

\* The types of the inputs that are compared.
LEMMA InputTypes ==
    ASSUME IInv
    PROVE  /\ processed # None => processed \in Input /\ processed.report \in Report
           /\ LET b == job["backtest"] IN
              b.pc \in {"ratings", "summary", "seal", "record"} =>
                /\ b.input \in Input /\ b.input.report \in Report
                /\ b.payload \in Snapshot /\ report # None
  BY Accepted DEF IInv, TypeOK, Maybe, Input

\* A step that leaves the outputs and the record of backtest alone, and at most
\* ends the backtest or starts it again.
LEMMA SkipKept ==
    ASSUME IInv, SkipIInv, [Next]_vars,
           UNCHANGED <<processed, ratings, summary, manifest>>,
           LET b == job["backtest"] IN
           b'.pc \in {"ratings", "summary", "seal", "record"} => b' = b
    PROVE  SkipIInv'
<1> DEFINE b == job["backtest"]
           Runs == b.pc \in {"ratings", "summary", "seal", "record"}
<1>1. ASSUME report # None, NEW x, x.report \in Report, Precedes(x, Now)
      PROVE  Precedes(x, Now') /\ (SameRun(x, Now') => SameRun(x, Now))
  <2>1. report \in Report /\ report' \in Report /\ Precedes(Now, Now')
    BY <1>1, RunsAdvance
  <2>2. Now.report = report /\ Now'.report = report'
    BY DEF Now
  <2> QED
    BY <1>1, <2>1, <2>2, RunsGoForward
<1>2. report # None => report' # None
  <2> SUFFICES ASSUME report # None PROVE report' # None
    OBVIOUS
  <2>1. report' \in Report
    BY RunsAdvance
  <2> QED
    BY <2>1, PipelineNoneAssumption
<1>3. ASSUME processed # None
      PROVE  /\ ratings # None /\ summary # None /\ manifest # None /\ report' # None
             /\ OfItsRun(processed) /\ Precedes(processed, Now')
             /\ SameRun(processed, Now') => DiskIsAsSealed'
  <2>1. /\ ratings # None /\ summary # None /\ manifest # None /\ report # None
        /\ OfItsRun(processed) /\ Precedes(processed, Now)
        /\ SameRun(processed, Now) => DiskIsAsSealed
    BY <1>3 DEF SkipIInv
  <2>2. processed.report \in Report
    BY <1>3, InputTypes
  <2>3. Precedes(processed, Now') /\ (SameRun(processed, Now') => SameRun(processed, Now))
    BY <1>1, <2>1, <2>2
  <2>4. SameRun(processed, Now') => DiskIsAsSealed'
    BY <2>1, <2>3 DEF SameRun, Now, DiskIsAsSealed
  <2> QED
    BY <1>2, <2>1, <2>3, <2>4
<1>4. ASSUME b'.pc \in {"ratings", "summary", "seal", "record"}
      PROVE  /\ b' = b /\ OfItsRun(b.input) /\ Precedes(b.input, Now')
             /\ processed # None => Precedes(processed, b.input) /\ ~SameRun(processed, b.input)
             /\ b.pc = "record" =>
                 /\ manifest # None /\ SameRun(manifest, b.input)
                 /\ ratings = manifest.ratings /\ summary = manifest.summary
  <2>1. b' = b /\ Runs
    BY <1>4
  <2>2. /\ OfItsRun(b.input) /\ Precedes(b.input, Now)
        /\ processed # None => Precedes(processed, b.input) /\ ~SameRun(processed, b.input)
    BY <2>1 DEF SkipIInv
  <2>3. Precedes(b.input, Now')
    BY <1>1, <2>1, <2>2, InputTypes
  <2> QED
    BY <2>1, <2>2, <2>3 DEF SkipIInv
<1> QED
  BY <1>3, <1>4 DEF SkipIInv, OfItsRun, Precedes, SameRun

\* The input that a backtest accepts is later than the recorded one: of the
\* same report and archive it would have been skipped.
LEMMA SkipAccepts ==
    ASSUME IInv, SkipIInv, [Next]_vars, BacktestAccepts
    PROVE  SkipIInv'
<1> DEFINE j == "backtest"
           b == job[j]
           i == BacktestInput
<1>1. /\ b.pc = "check" /\ Verified(b.payload.content) /\ ~Skips /\ j \in Jobs
      /\ job' = [job EXCEPT ![j] = [b EXCEPT !.pc = "ratings", !.input = i]]
      /\ UNCHANGED <<archive, report, ratings, summary, manifest, processed>>
  BY DEF BacktestAccepts, At, collection, derived, backtested, Jobs
<1>2. /\ b'.pc = "ratings" /\ b'.input = i /\ report \in Report /\ report # None
  BY <1>1 DEF IInv, TypeOK, Maybe, Locals, Verified
<1>3. i.payload = b.payload.content /\ i.report = report /\ i.archive = archive
  BY DEF BacktestInput
<1>4. OfItsRun(i)
  BY <1>1, <1>3 DEF Verified, OfItsRun
<1>5. Precedes(i, Now)
  BY <1>2, <1>3, ReportNumbers DEF Precedes, Now
<1>6. ASSUME processed # None PROVE Precedes(processed, i) /\ ~SameRun(processed, i)
  <2>1. /\ ratings # None /\ summary # None /\ manifest # None
        /\ OfItsRun(processed) /\ Precedes(processed, Now)
    BY <1>6 DEF SkipIInv
  <2>2. Precedes(processed, i)
    BY <1>3, <2>1 DEF Precedes, Now
  <2>3. ASSUME SameRun(processed, i) PROVE FALSE
    <3>1. processed.payload = i.payload
      BY <1>4, <2>1, <2>3 DEF OfItsRun, SameRun
    <3>2. processed = [payload |-> processed.payload, report |-> processed.report,
                       archive |-> processed.archive]
      BY <1>6, InputTypes DEF Input
    <3>3. processed = i
      BY <1>3, <2>3, <3>1, <3>2 DEF SameRun, BacktestInput
    <3> QED
      BY <1>1, <2>1, <3>3 DEF Skips
  <2> QED
    BY <2>2, <2>3
<1>7. Now' = Now /\ DiskIsAsSealed' = DiskIsAsSealed
  BY <1>1 DEF Now, DiskIsAsSealed
<1> HIDE DEF i
<1>8. processed' # None =>
        /\ ratings' # None /\ summary' # None /\ manifest' # None /\ report' # None
        /\ OfItsRun(processed') /\ Precedes(processed', Now')
        /\ SameRun(processed', Now') => DiskIsAsSealed'
  BY <1>1, <1>7 DEF SkipIInv
<1> QED
  BY <1>1, <1>2, <1>4, <1>5, <1>6, <1>7, <1>8 DEF SkipIInv, OfItsRun, Precedes, SameRun

\* While a backtest runs, the recorded input is not the present one: it may
\* rewrite what was sealed with it.
LEMMA SkipRewrites ==
    ASSUME IInv, SkipIInv, [Next]_vars,
           WriteRatings("backtest") \/ WriteSummary("backtest") \/ SealBacktest
    PROVE  SkipIInv'
<1> DEFINE j == "backtest"
           b == job[j]
<1>1. /\ b.pc \in {"ratings", "summary", "seal"} /\ j \in Jobs
      /\ UNCHANGED <<archive, report, processed>>
  BY DEF WriteRatings, WriteSummary, SealBacktest, At, collection, backtested, Jobs
<1>2. /\ b'.input = b.input
      /\ b'.pc \in {"ratings", "summary", "seal", "record"}
      /\ b'.pc = "record" => SealBacktest
  <2>1. CASE SealBacktest
    <3>1. Goes(j, "record")
      BY <2>1 DEF SealBacktest
    <3> QED
      BY <1>1, <2>1, <3>1, JobGoes DEF IInv
  <2>2. CASE WriteRatings(j)
    <3>1. Goes(j, "summary")
      BY <2>2 DEF WriteRatings
    <3>2. b'.input = b.input /\ b'.pc = "summary"
      BY <1>1, <3>1, JobGoes DEF IInv
    <3> QED
      BY <3>2
  <2>3. CASE WriteSummary(j)
    <3>1. Goes(j, "seal")
      BY <2>3 DEF WriteSummary
    <3>2. b'.input = b.input /\ b'.pc = "seal"
      BY <1>1, <3>1, JobGoes DEF IInv
    <3> QED
      BY <3>2
  <2> QED
    BY <2>1, <2>2, <2>3
<1>3. /\ OfItsRun(b.input) /\ Precedes(b.input, Now)
      /\ processed # None => Precedes(processed, b.input) /\ ~SameRun(processed, b.input)
  BY <1>1 DEF SkipIInv
<1>4. Now' = Now
  BY <1>1 DEF Now
<1>5. processed # None => ~SameRun(processed, Now)
  <2> SUFFICES ASSUME processed # None, SameRun(processed, Now)
               PROVE  SameRun(processed, b.input)
    BY <1>3
  <2>1. /\ processed.report \in Report /\ b.input.report \in Report /\ Now.report \in Report
    BY <1>1, InputTypes DEF IInv, TypeOK, Maybe, Now
  <2>2. Precedes(processed, b.input) /\ Precedes(b.input, Now)
    BY <1>3
  <2> QED
    BY <2>1, <2>2, RunsGoForward
<1>6. processed # None => ratings' # None /\ summary' # None /\ manifest' # None
  <2>1. processed # None => ratings # None /\ summary # None /\ manifest # None
    BY DEF SkipIInv
  <2>2. CASE SealBacktest
    <3>1. manifest' # None
      BY <2>2, ManifestWritten
    <3> QED
      BY <2>1, <2>2, <3>1 DEF SealBacktest, derived
  <2>3. CASE WriteRatings(j) \/ WriteSummary(j)
    <3>1. Source(j) \in Derived
      BY <2>3, Sources DEF WriteRatings, WriteSummary, At
    <3> QED
      BY <2>1, <2>3, <3>1, PipelineNoneAssumption
      DEF WriteRatings, WriteSummary, backtested
  <2> QED
    BY <2>2, <2>3
<1>7. processed # None => report # None /\ OfItsRun(processed) /\ Precedes(processed, Now)
  BY DEF SkipIInv
<1>8. SealBacktest => /\ manifest' # None /\ SameRun(manifest', b.input)
                      /\ ratings' = manifest'.ratings /\ summary' = manifest'.summary
  <2> SUFFICES ASSUME SealBacktest
               PROVE  /\ manifest' # None /\ SameRun(manifest', b.input)
                      /\ ratings' = manifest'.ratings /\ summary' = manifest'.summary
    OBVIOUS
  <2>1. manifest' # None
    BY ManifestWritten
  <2>2. /\ manifest'.report = b.input.report /\ manifest'.archive = b.input.archive
        /\ ratings' = manifest'.ratings /\ summary' = manifest'.summary
    BY DEF SealBacktest, derived
  <2> QED
    BY <2>1, <2>2 DEF SameRun
<1>9. processed' # None =>
        /\ ratings' # None /\ summary' # None /\ manifest' # None /\ report' # None
        /\ OfItsRun(processed') /\ Precedes(processed', Now') /\ ~SameRun(processed', Now')
  BY <1>1, <1>4, <1>5, <1>6, <1>7
<1>10. /\ OfItsRun(b.input') /\ Precedes(b.input', Now')
       /\ processed' # None => Precedes(processed', b.input') /\ ~SameRun(processed', b.input')
  BY <1>1, <1>2, <1>3, <1>4
<1>11. b'.pc = "record" => /\ manifest' # None /\ SameRun(manifest', b.input')
                           /\ ratings' = manifest'.ratings /\ summary' = manifest'.summary
  BY <1>2, <1>8
<1> QED
  BY <1>9, <1>10, <1>11 DEF SkipIInv, OfItsRun, Precedes, SameRun

\* The input that was processed is recorded: the disk is as it was sealed with it.
LEMMA SkipRecorded ==
    ASSUME IInv, SkipIInv, [Next]_vars, RecordBacktest
    PROVE  SkipIInv'
<1> DEFINE j == "backtest"
           b == job[j]
<1>1. /\ b.pc = "record" /\ j \in Jobs /\ processed' = b.input
      /\ job' = [job EXCEPT ![j] = Idle]
      /\ UNCHANGED <<archive, report, ratings, summary, manifest>>
  BY DEF RecordBacktest, At, Ends, collection, derived, Jobs
<1>2. b'.pc = "idle"
  BY <1>1, IdleFields DEF IInv, TypeOK
<1>3. /\ OfItsRun(b.input) /\ Precedes(b.input, Now)
      /\ manifest # None /\ SameRun(manifest, b.input)
      /\ ratings = manifest.ratings /\ summary = manifest.summary
  BY <1>1 DEF SkipIInv
<1>4. manifest \in Manifest /\ report # None
  BY <1>1, <1>3, InputTypes DEF IInv, TypeOK, Maybe
<1>5. ratings # None /\ summary # None
  BY <1>3, <1>4, PipelineNoneAssumption DEF Manifest
<1>6. SameRun(b.input, Now) => DiskIsAsSealed
  BY <1>3 DEF SameRun, Now, DiskIsAsSealed
<1>7. Now' = Now /\ DiskIsAsSealed' = DiskIsAsSealed
  BY <1>1 DEF Now, DiskIsAsSealed
<1>8. /\ ratings' # None /\ summary' # None /\ manifest' # None /\ report' # None
      /\ OfItsRun(processed') /\ Precedes(processed', Now')
      /\ SameRun(processed', Now') => DiskIsAsSealed'
  BY <1>1, <1>3, <1>4, <1>5, <1>6, <1>7
<1> QED
  BY <1>2, <1>8 DEF SkipIInv, OfItsRun, Precedes, SameRun

\* Every step, when no weekly refresh is scheduled.
LEMMA SkipStep ==
    ASSUME "weekly" \notin Scheduled, IInv, SampleIInv, SkipIInv, [Next]_vars
    PROVE  SkipIInv'
<1> DEFINE b == job["backtest"]
<1>1. ~Weekly
  BY DEF SampleIInv, Weekly, WeeklyRefresh, WriteRatings, WriteSummary, MayStart, At
<1>2. CASE BacktestAccepts
  BY <1>2, SkipAccepts
<1>3. CASE WriteRatings("backtest") \/ WriteSummary("backtest") \/ SealBacktest
  BY <1>3, SkipRewrites
<1>4. CASE RecordBacktest
  BY <1>4, SkipRecorded
<1>5. CASE \/ Ingest \/ PublishSnapshot \/ ReadSnapshot \/ BacktestSkips \/ PublishFreeze
           \/ (\E j \in Jobs : Fail(j)) \/ UNCHANGED vars
  <2>1. UNCHANGED <<processed, ratings, summary, manifest>>
    BY <1>5 DEF Ingest, PublishSnapshot, ReadMetadata, OpenPayload, ArchiveGame, WriteReport,
       ReadSnapshot, BacktestSkips, PublishFreeze, VerifyBacktest, CopyRatings, CopySummary,
       CopyBacktest, CopyArchive, CopyReport, SealFreeze, MovePointer, Fail, derived,
       backtested, vars
  <2>2. b'.pc \in {"ratings", "summary", "seal", "record"} => b' = b
    <3>1. job \in [Jobs -> Locals] /\ Idle.pc = "idle" /\ "backtest" \in Jobs
      BY IdleFields DEF IInv, TypeOK, Jobs
    <3>2. CASE ReadSnapshot
      <4>1. b' = [Idle EXCEPT !.pc = "check", !.payload = current]
        BY <3>1, <3>2 DEF ReadSnapshot
      <4>2. b'.pc = "check"
        BY <4>1, IdleFields DEF Locals
      <4> QED
        BY <4>2
    <3>3. CASE BacktestSkips \/ (\E j \in Jobs : Fail(j))
      <4>1. b' \in {b, Idle}
        BY <3>1, <3>3 DEF BacktestSkips, Fail, Ends
      <4> QED
        BY <3>1, <4>1
    <3>4. CASE Ingest \/ PublishSnapshot \/ PublishFreeze \/ UNCHANGED vars
      <4>1. b' = b
        BY <3>1, <3>4 DEF Ingest, PublishSnapshot, ReadMetadata, OpenPayload, ArchiveGame,
           WriteReport, PublishFreeze, VerifyBacktest, CopyRatings, CopySummary,
           CopyBacktest, CopyArchive, CopyReport, SealFreeze, MovePointer, Goes, Ends, vars
      <4> QED
        BY <4>1
    <3> QED
      BY <1>5, <3>2, <3>3, <3>4
  <2> QED
    BY <2>1, <2>2, SkipKept
<1> QED
  BY <1>1, <1>2, <1>3, <1>4, <1>5 DEF Next, Backtest

\* Before the first success there is nothing to skip.
LEMMA InitSkip == Init => SkipIInv
<1> SUFFICES ASSUME Init PROVE SkipIInv
  OBVIOUS
<1>1. processed = None /\ job["backtest"] = Idle
  BY DEF Init, Jobs
<1> QED
  BY <1>1, IdleFields DEF SkipIInv

\* While nothing but backtest writes its outputs, what it skips is what the last
\* manifest states, however the jobs interleave and wherever they die.
THEOREM SkippedStaysPublishable ==
    ASSUME "weekly" \notin Scheduled
    PROVE  Spec => SkippedIsAsSealed
<1>1. Init => SkipIInv
  BY InitSkip
<1>2. IInv /\ SampleIInv /\ SkipIInv /\ [Next]_vars => SkipIInv'
  BY SkipStep
<1>3. Spec => []SampleIInv
  BY SampleInvariance
<1>4. IInv /\ SkipIInv /\ [Next]_vars => [BacktestSkips => DiskIsAsSealed]_job
  <2> SUFFICES ASSUME IInv, SkipIInv, BacktestSkips PROVE DiskIsAsSealed
    OBVIOUS
  <2>1. job["backtest"].pc = "check" /\ report # None /\ processed = BacktestInput
    BY DEF BacktestSkips, At, Verified, Skips
  <2>2. job["backtest"].payload.content \in Content /\ report \in Report
        /\ archive \in SUBSET Envelope
    BY <2>1 DEF IInv, BacktestIsBacked, TypeOK, Maybe, Snapshot
  <2>3. processed \in Input
    BY <2>1, <2>2 DEF BacktestInput, Input
  <2>4. processed # None /\ processed.report = report /\ processed.archive = archive
    BY <2>1, <2>3, PipelineNoneAssumption DEF BacktestInput
  <2> QED
    BY <2>4 DEF SkipIInv, SameRun, Now
<1> QED
  BY <1>1, <1>2, <1>3, <1>4, Invariance, PTL DEF Spec, SkippedIsAsSealed
=============================================================================

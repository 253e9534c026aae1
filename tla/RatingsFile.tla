---------------------------- MODULE RatingsFile ----------------------------
(***************************************************************************)
(* The ratings, data/ratings.json, and who writes them: sessions of        *)
(* EloModel.update_ratings (src/src/model.py), the weekly refresh of       *)
(* src/scripts/atualiza_semanal_payload.py, which regenerates the file     *)
(* from lol.db and seals it in runtime_artifacts.json, and the scheduled   *)
(* job backtest of src/src/operations.py, which regenerates it from the    *)
(* current snapshot without its last day.                                  *)
(*                                                                         *)
(* Sessions take the lock of the file, rebase on what is there and replace *)
(* it; the two regenerations, both by backtest_walkforward.py, take no     *)
(* lock and write in place.  A rating is kept as what it was computed      *)
(* from: a version of the games, with or without their last day, and how   *)
(* often each update was applied after it.                                 *)
(***************************************************************************)
EXTENDS Naturals

CONSTANTS
    Teams,
    Updates,         \* matches recorded with update_ratings
    Players,         \* the two teams of each
    FirstIn,         \* first version of lol.db with a game of the team
    Sessions,        \* instances of EloModel
    Nobody,
    Versions,        \* bound: versions of the games that the source publishes
    Regenerating     \* bound: which of Writers run

ASSUME RatingsAssumption ==
    /\ Versions \in Nat /\ FirstIn \in [Teams -> Nat \ {0}]
    /\ Players \in [Updates -> SUBSET Teams]
    /\ Nobody \notin Sessions

VARIABLES
    snapshot,    \* version of the games in the current snapshot
    database,    \* version of the games in data/lol.db
    file,        \* data/ratings.json
    handle,      \* the file as each regeneration has it open
    fileLock,    \* holder of ratings.json.lock
    session,     \* each EloModel, and the update it is in
    refresh,     \* the weekly refresh, with its locals
    manifest,    \* data/runtime_artifacts.json
    exit,        \* exit code of the last refresh
    done,        \* history: updates that returned
    recent,      \* history: those written since the file was regenerated
    failed,      \* history: those whose call did not return once it had changed ratings
    displaced    \* history: since the walk-forward of the refresh wrote, and before
                 \* the manifest hashed it, another wrote what is not built upon it

history == <<done, recent, failed, displaced>>
ratingsVars == <<snapshot, database, file, handle, fileLock, session, refresh, manifest,
                 exit, history>>

-----------------------------------------------------------------------------
\* "held": without the last day of the games; 2: twice or more.
Rating == [base: 0..Versions, held: BOOLEAN, applied: [Updates -> 0..2]]
Unapplied == [u \in Updates |-> 0]
Seed == [base |-> 0, held |-> FALSE, applied |-> Unapplied]
NoTable == [t \in {} |-> Seed]

\* A file that is "torn" cannot be read: it is empty, cut short or a mixture.
Whole(table) == [state |-> "whole", table |-> table]
Torn == [state |-> "torn", table |-> NoTable]

\* _persistable is "alive"; between two calls a session is "loaded".
NewSession == [pc |-> "new", ratings |-> [t \in Teams |-> Seed], alive |-> {}, update |-> {}]
\* "code" is the exit code so far; "fresh" that the file was written since the
\* refresh began.
NoBasis == [t \in {} |-> [base |-> 0, held |-> FALSE]]
RefreshAtRest == [pc |-> "idle", code |-> "0", fresh |-> FALSE, sealed |-> NoBasis]

\* The two processes in which backtest_walkforward.py writes the file.
Writers == {"refresh", "backtest"}
\* "orphan": the file was replaced since it was opened, and no name leads to
\* what is written; "over": the other wrote to the same file since.
Handle == [open: BOOLEAN, base: 0..Versions, orphan: BOOLEAN, over: BOOLEAN]
Closed == [open |-> FALSE, base |-> 0, orphan |-> FALSE, over |-> FALSE]

Tables == UNION {[S -> Rating] : S \in SUBSET Teams}
Bases == UNION {[S -> [base: 0..Versions, held: BOOLEAN]] : S \in SUBSET Teams}
SessionState == [pc: {"new", "loaded", "locked", "replaced"}, ratings: [Teams -> Rating],
                 alive: SUBSET Teams, update: SUBSET Updates]
RefreshState == [pc: {"idle", "steps", "ratings", "writing", "check", "hash", "manifest"},
                 code: {"0", "10", "1"}, fresh: BOOLEAN, sealed: Bases]

RatingsTypeOK ==
    /\ snapshot \in 0..Versions /\ database \in 0..Versions
    /\ file \in [state: {"absent", "whole", "torn"}, table: Tables]
    /\ handle \in [Writers -> Handle]
    /\ handle["refresh"].open <=> refresh.pc = "writing"
    /\ fileLock \in Sessions \union {Nobody}
    /\ session \in [Sessions -> SessionState]
    /\ \A m \in Sessions : session[m].pc \in {"locked", "replaced"} <=> fileLock = m
    /\ refresh \in RefreshState
    /\ manifest \in [ratings: Bases, database: 0..Versions]
    /\ exit \in {"none", "0", "10", "1"}
    /\ done \subseteq Updates /\ recent \subseteq Updates /\ failed \subseteq Updates
    /\ displaced \in BOOLEAN

RatingsInit ==
    /\ snapshot = 0 /\ database = 0
    /\ file = [state |-> "absent", table |-> NoTable]
    /\ handle = [w \in Writers |-> Closed]
    /\ fileLock = Nobody
    /\ session = [m \in Sessions |-> NewSession]
    /\ refresh = RefreshAtRest
    /\ manifest = [ratings |-> NoBasis, database |-> 0]
    /\ exit = "none"
    /\ done = {} /\ recent = {} /\ failed = {} /\ displaced = FALSE

-----------------------------------------------------------------------------
(* EloModel                                                                *)

\* The ratings of a session with those of a table over them.
Over(ratings, table) == [t \in Teams |-> IF t \in DOMAIN table THEN table[t] ELSE ratings[t]]

\* __init__: the seeds of all teams, with the file over them; a torn file raises.
LoadModel(m) ==
    /\ session[m].pc = "new"
    /\ file.state # "torn"
    /\ session' = [session EXCEPT ![m] =
            [pc |-> "loaded", ratings |-> Over(@.ratings, file.table),
             alive |-> DOMAIN file.table, update |-> {}]]
    /\ UNCHANGED <<snapshot, database, file, handle, fileLock, refresh, manifest, exit, history>>

\* Faulty variant: the session writes what it loaded at its start.
NotRebased(s) == s

\* The ratings and names of a session once it has read the latest file.
Rebased(s) == [s EXCEPT !.ratings = Over(@, file.table), !.alive = @ \union DOMAIN file.table]
Counted(rating, u) == [rating EXCEPT !.applied[u] = IF @ = 0 THEN 1 ELSE 2]
Updated(s, u) ==
    [s EXCEPT !.ratings = [t \in Teams |-> IF t \in Players[u] THEN Counted(@[t], u) ELSE @[t]],
              !.alive = @ \union Players[u]]

\* update_ratings up to the rebase under the lock.  A call that did not return
\* may be repeated, one that did is not.
UpdateReads(m, u) ==
    /\ session[m].pc = "loaded"
    /\ fileLock = Nobody
    /\ u \notin done
    /\ file.state # "torn"
    /\ fileLock' = m
    /\ session' = [session EXCEPT ![m] = [Rebased(@) EXCEPT !.pc = "locked", !.update = {u}]]
    /\ UNCHANGED <<snapshot, database, file, handle, refresh, manifest, exit, history>>

\* The file is no longer what the session read under the lock.
ReadIsStale(m) ==
    \/ \E w \in Writers : handle[w].open
    \/ file.state = "whole" /\ \E t \in DOMAIN file.table : file.table[t] # session[m].ratings[t]

\* What the refresh does with the file is not over: it may still be displaced.
Unsealed == refresh.pc \in {"writing", "check", "hash"}
Touched == IF refresh.pc = "idle" THEN refresh ELSE [refresh EXCEPT !.fresh = TRUE]

\* _atomic_json_write replaces the file.  A regeneration that has it open goes
\* on writing to the file that was replaced.
UpdateReplaces(m) ==
    /\ session[m].pc = "locked"
    /\ \E u \in session[m].update :
        LET s == Updated(session[m], u) IN
        /\ session' = [session EXCEPT ![m] = [s EXCEPT !.pc = "replaced"]]
        /\ file' = Whole([t \in s.alive |-> s.ratings[t]])
        /\ recent' = recent \union {u}
    /\ handle' = [w \in Writers |-> [handle[w] EXCEPT !.orphan = handle[w].open]]
    /\ refresh' = Touched
    /\ displaced' = (displaced \/ (Unsealed /\ ReadIsStale(m)))
    /\ UNCHANGED <<snapshot, database, fileLock, manifest, exit, done, failed>>

UpdateReturns(m) ==
    /\ session[m].pc = "replaced"
    /\ session' = [session EXCEPT ![m].pc = "loaded", ![m].update = {}]
    /\ done' = done \union session[m].update
    /\ fileLock' = Nobody
    /\ UNCHANGED <<snapshot, database, file, handle, refresh, manifest, exit, recent, failed,
                   displaced>>

\* The write raises: the disk is full, or Windows does not replace a file that
\* is open.  The ratings of the session were changed before it.  Bound: it
\* happens once, and to a call that is not a repetition.
UpdateFails(m) ==
    /\ session[m].pc = "locked"
    /\ failed = {}
    /\ \E u \in session[m].update :
        session' = [session EXCEPT ![m] = [Updated(@, u) EXCEPT !.pc = "loaded", !.update = {}]]
    /\ failed' = session[m].update
    /\ fileLock' = Nobody
    /\ UNCHANGED <<snapshot, database, file, handle, refresh, manifest, exit, done, recent,
                   displaced>>

\* Faulty variant: the lock is a file that the dead process leaves behind.
EndsHoldingLock(m) ==
    /\ session[m].pc # "new"
    /\ session' = [session EXCEPT ![m] = NewSession]
    /\ UNCHANGED <<snapshot, database, file, handle, fileLock, refresh, manifest, exit, history>>

\* The process of the session ends, perhaps after it replaced the file and
\* before it could say so; the system releases its lock.
SessionEnds(m) ==
    /\ session[m].pc # "new"
    /\ session' = [session EXCEPT ![m] = NewSession]
    /\ fileLock' = IF fileLock = m THEN Nobody ELSE fileLock
    /\ failed' = IF session[m].pc = "replaced" THEN failed \union session[m].update ELSE failed
    /\ UNCHANGED <<snapshot, database, file, handle, refresh, manifest, exit, done, recent,
                   displaced>>

-----------------------------------------------------------------------------
(* backtest_walkforward.py writes the file.  Path.write_text truncates it  *)
(* when it opens it and writes the text, which is short, when it closes it.*)

Opened(w, version) ==
    /\ handle' = [handle EXCEPT ![w] = [Closed EXCEPT !.open = TRUE, !.base = version]]
    /\ file' = Torn

\* The other has the same file open and keeps its position in it.
LeftBehind(w) ==
    [v \in Writers |->
        IF v = w THEN Closed
        ELSE [handle[v] EXCEPT !.over =
                    @ \/ (handle[v].open /\ ~handle[v].orphan /\ ~handle[w].orphan)]]

\* A text written over a longer one leaves the end of it.
Written(w, table) ==
    /\ IF handle[w].orphan THEN UNCHANGED file
       ELSE \/ file' = Whole(table)
            \/ handle[w].over /\ file' = Torn
    /\ recent' = IF handle[w].orphan THEN recent ELSE {}
    /\ handle' = LeftBehind(w)

\* The process fails or ends before the text is written, or in the middle.
GivenUp(w) ==
    \/ handle' = [handle EXCEPT ![w] = Closed] /\ UNCHANGED file
    \/ /\ handle[w].open /\ ~handle[w].orphan
       /\ file' = Torn
       /\ handle' = LeftBehind(w)

Regenerated(teams, version, held) ==
    [t \in teams |-> [base |-> version, held |-> held, applied |-> Unapplied]]
TeamsIn(version) == {t \in Teams : FirstIn[t] <= version}

-----------------------------------------------------------------------------
(* The job backtest of operations.py.  Its payload may have been current   *)
(* some time before; a team may have played on the last day only.          *)

BacktestOpens ==
    /\ "backtest" \in Regenerating /\ ~handle["backtest"].open
    /\ \E version \in 1..snapshot : Opened("backtest", version)
    /\ refresh' = Touched
    /\ displaced' = (displaced \/ Unsealed)
    /\ UNCHANGED <<snapshot, database, fileLock, session, manifest, exit, done, recent, failed>>

BacktestWrites ==
    /\ handle["backtest"].open
    /\ LET version == handle["backtest"].base IN
       \E teams \in SUBSET TeamsIn(version) :
            Written("backtest", Regenerated(teams, version, TRUE))
    /\ refresh' = IF handle["backtest"].orphan THEN refresh ELSE Touched
    /\ displaced' = (displaced \/ (Unsealed /\ ~handle["backtest"].orphan))
    /\ UNCHANGED <<snapshot, database, fileLock, session, manifest, exit, done, failed>>

BacktestFails ==
    /\ handle["backtest"].open
    /\ GivenUp("backtest")
    /\ displaced' = (displaced \/ (Unsealed /\ file' # file))
    /\ UNCHANGED <<snapshot, database, fileLock, session, refresh, manifest, exit, done, recent,
                   failed>>

-----------------------------------------------------------------------------
(* main of atualiza_semanal_payload.py: every step runs, whatever became   *)
(* of the one before.                                                      *)

\* The sources are tried in their order until one publishes or answers 304.
Download ==
    /\ "refresh" \in Regenerating /\ refresh.pc = "idle"
    /\ \E ok \in BOOLEAN :
        /\ snapshot' \in IF ok /\ snapshot < Versions THEN {snapshot, snapshot + 1} ELSE {snapshot}
        /\ refresh' = [RefreshAtRest EXCEPT !.pc = "steps", !.code = IF ok THEN "0" ELSE "10"]
    /\ exit' = "none" /\ displaced' = FALSE
    /\ UNCHANGED <<database, file, handle, fileLock, session, manifest, done, recent, failed>>

\* The job ingest publishes to the same store.
IngestJob ==
    /\ snapshot < Versions
    /\ snapshot' = snapshot + 1
    /\ UNCHANGED <<database, file, handle, fileLock, session, refresh, manifest, exit, history>>

\* Ingestion and the two H4 steps, which touch no file of this module.  Rows
\* are replaced in batches: a failed ingestion may have written them all.
Ingest ==
    /\ refresh.pc = "steps"
    /\ \/ /\ snapshot > 0
          /\ database' = snapshot
          /\ refresh' = [refresh EXCEPT !.pc = "ratings"]
       \/ /\ database' \in {database, snapshot}
          /\ refresh' = [refresh EXCEPT !.pc = "ratings", !.code = "1"]
    /\ UNCHANGED <<snapshot, file, handle, fileLock, session, manifest, exit, history>>

WalkForwardOpens ==
    /\ refresh.pc = "ratings"
    /\ database > 0
    /\ Opened("refresh", database)
    /\ refresh' = [refresh EXCEPT !.pc = "writing", !.fresh = TRUE]
    /\ UNCHANGED <<snapshot, database, fileLock, session, manifest, exit, history>>

\* The files written after the ratings may still fail.
WalkForwardWrites ==
    /\ refresh.pc = "writing"
    /\ LET version == handle["refresh"].base IN
       Written("refresh", Regenerated(TeamsIn(version), version, FALSE))
    /\ \E ok \in BOOLEAN :
        refresh' = [refresh EXCEPT !.pc = "check", !.code = IF ok THEN @ ELSE "1"]
    /\ displaced' = IF handle["refresh"].orphan THEN displaced ELSE file' = Torn
    /\ UNCHANGED <<snapshot, database, fileLock, session, manifest, exit, done, failed>>

\* Faulty variant: main does not look at the return code of the step.
FailsQuietly ==
    /\ refresh.pc \in {"ratings", "writing"}
    /\ GivenUp("refresh")
    /\ refresh' = [refresh EXCEPT !.pc = "check"]
    /\ UNCHANGED <<snapshot, database, fileLock, session, manifest, exit, history>>

\* Before the file is opened, or in the middle of it.
WalkForwardFails ==
    /\ refresh.pc \in {"ratings", "writing"}
    /\ GivenUp("refresh")
    /\ refresh' = [refresh EXCEPT !.pc = "check", !.code = "1"]
    /\ UNCHANGED <<snapshot, database, fileLock, session, manifest, exit, history>>

\* ratings_valid: whole, not empty and written since the refresh began.
RatingsValid == file.state = "whole" /\ DOMAIN file.table # {} /\ refresh.fresh

CheckRatings ==
    /\ refresh.pc = "check"
    /\ IF RatingsValid
       THEN refresh' = [refresh EXCEPT !.pc = "hash"] /\ UNCHANGED exit
       ELSE refresh' = RefreshAtRest /\ exit' = "1"
    /\ UNCHANGED <<snapshot, database, file, handle, fileLock, session, manifest, history>>

\* The games that a table was computed from, which is what a hash of it tells.
Basis(table) == [t \in DOMAIN table |-> [base |-> table[t].base, held |-> table[t].held]]

\* The manifest hashes the ratings first, whatever is in the file by then.
HashRatings ==
    /\ refresh.pc = "hash"
    /\ refresh' = [refresh EXCEPT !.pc = "manifest", !.sealed = Basis(file.table)]
    /\ UNCHANGED <<snapshot, database, file, handle, fileLock, session, manifest, exit, history>>

PublishManifest ==
    /\ refresh.pc = "manifest"
    /\ \E ok \in BOOLEAN :
        /\ manifest' = IF ok THEN [ratings |-> refresh.sealed, database |-> database] ELSE manifest
        /\ exit' = IF ok THEN refresh.code ELSE "1"
    /\ refresh' = RefreshAtRest
    /\ UNCHANGED <<snapshot, database, file, handle, fileLock, session, history>>

RefreshDies ==
    /\ refresh.pc # "idle"
    /\ GivenUp("refresh")
    /\ refresh' = RefreshAtRest
    /\ UNCHANGED <<snapshot, database, fileLock, session, manifest, exit, history>>

RatingsNext ==
    \/ \E m \in Sessions :
        \/ LoadModel(m) \/ UpdateReplaces(m) \/ UpdateReturns(m) \/ UpdateFails(m)
        \/ SessionEnds(m)
        \/ \E u \in Updates : UpdateReads(m, u)
    \/ BacktestOpens \/ BacktestWrites \/ BacktestFails
    \/ Download \/ IngestJob \/ Ingest \/ WalkForwardOpens \/ WalkForwardWrites
    \/ WalkForwardFails \/ CheckRatings \/ HashRatings \/ PublishManifest \/ RefreshDies

RatingsSpec == RatingsInit /\ [][RatingsNext]_ratingsVars

-----------------------------------------------------------------------------
(* Properties.                                                             *)

\* Sessions that loaded different files do not undo each other: an update
\* written since the file was regenerated is in the ratings of both teams, and
\* once, whatever regenerations and other updates came between, unless a call
\* for it ended without returning after it had changed the ratings of the
\* session (model.py:275) or the file (model.py:96).
EachUpdateCountsOnce ==
    file.state = "whole" =>
        \A u \in recent \ failed :
            \A t \in Players[u] : t \in DOMAIN file.table /\ file.table[t].applied[u] = 1

\* A table that was computed from a version of the games with their last day.
IsOfVersion(table, version) ==
    \A t \in TeamsIn(version) :
        t \in DOMAIN table /\ table[t].base = version /\ ~table[t].held

\* A refresh that reports success sealed ratings that it had refreshed
\* (atualiza_semanal_payload.py:164-166, "sem refresh nesta execucao"): those
\* of the database that its manifest names.
SealedIsRefreshed ==
    exit \in {"0", "10"} => IsOfVersion(manifest.ratings, manifest.database)

\* Its return codes, the age of the file and its check see to that if no other
\* writer displaces the ratings between the walk-forward and their hash.
SuccessMeansRefreshed == ~displaced => SealedIsRefreshed
-----------------------------------------------------------------------------
(* The inductive invariants behind those properties.                       *)

\* An update that never changed a rating for good is in none, and a call that
\* holds the lock is for an update that no call returned from.
Changed == done \union failed \union
           UNION {session[m].update : m \in {n \in Sessions : session[n].pc = "replaced"}}
NewIsUnapplied ==
    /\ recent \subseteq Changed
    /\ \A u \in Updates \ Changed :
        /\ \A t \in DOMAIN file.table : file.table[t].applied[u] = 0
        /\ \A m \in Sessions : \A t \in Teams : session[m].ratings[t].applied[u] = 0
    /\ \A m \in Sessions : session[m].pc = "locked" => session[m].update \intersect done = {}

\* Who holds the lock has every update that the file must not lose.
LockedHasRecent ==
    /\ file.state = "absent" => recent = {}
    /\ \A m \in Sessions : session[m].pc = "locked" =>
        \A u \in recent \ failed : \A t \in Players[u] :
            t \in session[m].alive /\ session[m].ratings[t].applied[u] = 1

UpdatesIInv == RatingsTypeOK /\ NewIsUnapplied /\ LockedHasRecent /\ EachUpdateCountsOnce

\* What was rated from games was read from the file, and is kept.
RatedIsAlive ==
    \A m \in Sessions :
        /\ session[m].pc = "new" => session[m].alive = {}
        /\ \A t \in Teams : session[m].ratings[t].base > 0 => t \in session[m].alive

\* How far a refresh without a failed step has come.
RefreshGoesWell ==
    /\ refresh.pc # "idle" => exit = "none"
    /\ refresh.pc = "writing" => handle["refresh"].base = database
    /\ handle["refresh"].orphan => handle["refresh"].open /\ displaced
    /\ refresh.pc \in {"check", "hash"} /\ refresh.code # "1" /\ ~displaced =>
        file.state = "whole" /\ IsOfVersion(file.table, database)
    /\ refresh.pc = "manifest" /\ refresh.code # "1" /\ ~displaced =>
        IsOfVersion(refresh.sealed, database)

RefreshIInv == RatingsTypeOK /\ RatedIsAlive /\ RefreshGoesWell /\ SuccessMeansRefreshed

RatingsIInv == UpdatesIInv /\ RefreshIInv
=============================================================================

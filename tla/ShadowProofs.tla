---------------------------- MODULE ShadowProofs ----------------------------
(***************************************************************************)
(* The rest of the shadow operation, for any teams, updates, bets and      *)
(* runs: the ratings file, the log of paper bets and the holdout.          *)
(***************************************************************************)
EXTENDS RatingsFile, PaperBets, Holdout, SequenceTheorems, TLAPS

-----------------------------------------------------------------------------
(* The ratings file: lemmas about its operators.                           *)

FileState == [state: {"absent", "whole", "torn"}, table: Tables]

\* A table rates some of the teams.
LEMMA TableForm ==
    ASSUME NEW table
    PROVE  table \in Tables <=> /\ DOMAIN table \subseteq Teams
                                /\ table = [t \in DOMAIN table |-> table[t]]
                                /\ \A t \in DOMAIN table : table[t] \in Rating
  BY DEF Tables

\* The initial ratings are seeds, which no update was applied to.
LEMMA SeedForm ==
    /\ Seed \in Rating /\ Seed.base = 0 /\ \A u \in Updates : Seed.applied[u] = 0
    /\ NoTable \in Tables /\ DOMAIN NoTable = {} /\ NoBasis \in Bases
    /\ NewSession \in SessionState
    /\ RefreshAtRest \in RefreshState /\ RefreshAtRest.pc = "idle"
    /\ Closed \in Handle /\ ~Closed.open /\ ~Closed.orphan
    /\ Torn \in FileState /\ Torn.state = "torn" /\ DOMAIN Torn.table = {}
<1>1. Seed \in Rating /\ Seed.base = 0 /\ \A u \in Updates : Seed.applied[u] = 0
  BY RatingsAssumption DEF Seed, Unapplied, Rating
<1>2. NoTable \in Tables /\ DOMAIN NoTable = {}
  BY TableForm DEF NoTable
<1>3. NoBasis \in Bases
  <2> DEFINE B == [base: 0..Versions, held: BOOLEAN]
  <2>1. NoBasis \in [{} -> B]
    BY DEF NoBasis
  <2> QED
    BY <2>1, Zenon DEF Bases
<1>4. NewSession \in SessionState
  BY <1>1 DEF NewSession, SessionState
<1>5. RefreshAtRest \in RefreshState /\ RefreshAtRest.pc = "idle"
  BY <1>3 DEF RefreshAtRest, RefreshState
<1>6. Closed \in Handle /\ ~Closed.open /\ ~Closed.orphan
  BY RatingsAssumption DEF Closed, Handle
<1>7. Torn \in FileState /\ Torn.state = "torn" /\ DOMAIN Torn.table = {}
  BY <1>2 DEF Torn, FileState
<1> QED
  BY <1>1, <1>2, <1>3, <1>4, <1>5, <1>6, <1>7

\* A table that is written is the file.
LEMMA WholeForm ==
    ASSUME NEW table \in Tables
    PROVE  Whole(table) \in FileState /\ Whole(table).state = "whole" /\ Whole(table).table = table
  BY DEF Whole, FileState

\* What a hash tells of a table.
LEMMA BasisForm ==
    ASSUME NEW table \in Tables
    PROVE  /\ Basis(table) \in Bases
           /\ \A version : IsOfVersion(table, version) => IsOfVersion(Basis(table), version)
<1> DEFINE B == [base: 0..Versions, held: BOOLEAN]
<1>1. DOMAIN table \subseteq Teams /\ \A t \in DOMAIN table : table[t] \in Rating
  BY TableForm
<1>2. \A t \in DOMAIN table : [base |-> table[t].base, held |-> table[t].held] \in B
  BY <1>1 DEF Rating
<1> HIDE DEF B
<1>3. Basis(table) \in [DOMAIN table -> B]
  BY <1>2 DEF Basis
<1>4. Basis(table) \in Bases
  BY <1>1, <1>3, Zenon DEF Bases, B
<1>5. ASSUME NEW version, IsOfVersion(table, version)
      PROVE  IsOfVersion(Basis(table), version)
  BY <1>5 DEF IsOfVersion, Basis
<1> QED
  BY <1>4, <1>5

\* What the walk-forward computes is of its version, and forgets the updates.
LEMMA RegeneratedForm ==
    ASSUME NEW version \in 0..Versions, NEW teams \in SUBSET Teams, NEW held \in BOOLEAN
    PROVE  /\ Regenerated(teams, version, held) \in Tables
           /\ \A t \in DOMAIN Regenerated(teams, version, held) : \A u \in Updates :
                Regenerated(teams, version, held)[t].applied[u] = 0
           /\ IsOfVersion(Regenerated(TeamsIn(version), version, FALSE), version)
<1>1. [base |-> version, held |-> held, applied |-> Unapplied] \in Rating
  BY DEF Rating, Unapplied
<1>2. Regenerated(teams, version, held) \in Tables
  BY <1>1, TableForm DEF Regenerated
<1> QED
  BY <1>2 DEF Regenerated, Unapplied, IsOfVersion

\* Ratings with a table over them.
LEMMA OverForm ==
    ASSUME NEW ratings \in [Teams -> Rating], NEW table \in Tables
    PROVE  /\ Over(ratings, table) \in [Teams -> Rating]
           /\ \A t \in DOMAIN table : t \in Teams /\ Over(ratings, table)[t] = table[t]
           /\ \A t \in Teams \ DOMAIN table : Over(ratings, table)[t] = ratings[t]
  BY TableForm DEF Over

\* An update counts once more for its two teams, and for nothing else.
LEMMA UpdatedForm ==
    ASSUME NEW s \in SessionState, NEW u \in Updates
    PROVE  /\ Updated(s, u) \in SessionState
           /\ Updated(s, u).pc = s.pc /\ Updated(s, u).update = s.update
           /\ Updated(s, u).alive = s.alive \union Players[u]
           /\ \A t \in Teams :
                /\ Updated(s, u).ratings[t].base = s.ratings[t].base
                /\ Updated(s, u).ratings[t].held = s.ratings[t].held
                /\ \A v \in Updates \ {u} :
                    Updated(s, u).ratings[t].applied[v] = s.ratings[t].applied[v]
                /\ t \in Players[u] /\ s.ratings[t].applied[u] = 0 =>
                    Updated(s, u).ratings[t].applied[u] = 1
<1> DEFINE New(t) == IF t \in Players[u] THEN Counted(s.ratings[t], u) ELSE s.ratings[t]
<1>1. s.ratings \in [Teams -> Rating] /\ s.alive \subseteq Teams /\ Players[u] \subseteq Teams
  BY RatingsAssumption DEF SessionState
<1>2. Updated(s, u) = [s EXCEPT !.ratings = [t \in Teams |-> New(t)],
                                !.alive = s.alive \union Players[u]]
  BY DEF Updated
<1>3. ASSUME NEW t \in Teams
      PROVE  /\ New(t) \in Rating /\ New(t).base = s.ratings[t].base
             /\ New(t).held = s.ratings[t].held
             /\ \A v \in Updates \ {u} : New(t).applied[v] = s.ratings[t].applied[v]
             /\ t \in Players[u] /\ s.ratings[t].applied[u] = 0 => New(t).applied[u] = 1
  <2>1. s.ratings[t] \in Rating
    BY <1>1
  <2> QED
    BY <2>1 DEF Rating, Counted
<1> HIDE DEF New
<1>4. [t \in Teams |-> New(t)] \in [Teams -> Rating]
  BY <1>3
<1>5. Updated(s, u) \in SessionState
  BY <1>1, <1>2, <1>4 DEF SessionState
<1>6. /\ Updated(s, u).pc = s.pc /\ Updated(s, u).update = s.update
      /\ Updated(s, u).alive = s.alive \union Players[u]
      /\ Updated(s, u).ratings = [t \in Teams |-> New(t)]
  BY <1>2 DEF SessionState
<1> QED
  BY <1>3, <1>5, <1>6

\* A regeneration closes the file; the handle of the other is as it was, but
\* that it may be over what was written.
LEMMA LeftBehindForm ==
    ASSUME handle \in [Writers -> Handle], NEW w \in Writers
    PROVE  /\ LeftBehind(w) \in [Writers -> Handle] /\ LeftBehind(w)[w] = Closed
           /\ \A v \in Writers \ {w} : /\ LeftBehind(w)[v].open = handle[v].open
                                       /\ LeftBehind(w)[v].base = handle[v].base
                                       /\ LeftBehind(w)[v].orphan = handle[v].orphan
<1> DEFINE Left(v) == [handle[v] EXCEPT !.over =
                            @ \/ (handle[v].open /\ ~handle[v].orphan /\ ~handle[w].orphan)]
<1>1. ASSUME NEW v \in Writers
      PROVE  /\ Left(v) \in Handle /\ Left(v).open = handle[v].open
             /\ Left(v).base = handle[v].base /\ Left(v).orphan = handle[v].orphan
  BY DEF Handle
<1>2. LeftBehind(w) = [v \in Writers |-> IF v = w THEN Closed ELSE Left(v)]
  BY DEF LeftBehind
<1> HIDE DEF Left
<1> QED
  BY <1>1, <1>2, SeedForm

\* A regeneration that gives up leaves the file alone or torn.
LEMMA GivenUpForm ==
    ASSUME handle \in [Writers -> Handle], NEW w \in Writers, GivenUp(w)
    PROVE  /\ handle' \in [Writers -> Handle] /\ handle'[w] = Closed
           /\ \A v \in Writers \ {w} : /\ handle'[v].open = handle[v].open
                                       /\ handle'[v].base = handle[v].base
                                       /\ handle'[v].orphan = handle[v].orphan
           /\ file' = file \/ file' = Torn
<1>1. CASE handle' = [handle EXCEPT ![w] = Closed] /\ UNCHANGED file
  BY <1>1, SeedForm
<1>2. CASE file' = Torn /\ handle' = LeftBehind(w)
  BY <1>2, LeftBehindForm
<1> QED
  BY <1>1, <1>2 DEF GivenUp

\* A regeneration that writes: nowhere, or the file, which may be torn of it.
LEMMA WrittenForm ==
    ASSUME handle \in [Writers -> Handle], NEW w \in Writers, NEW table, Written(w, table)
    PROVE  /\ handle' \in [Writers -> Handle] /\ handle'[w] = Closed
           /\ \A v \in Writers \ {w} : /\ handle'[v].open = handle[v].open
                                       /\ handle'[v].base = handle[v].base
                                       /\ handle'[v].orphan = handle[v].orphan
           /\ handle[w].orphan => file' = file /\ recent' = recent
           /\ ~handle[w].orphan => recent' = {} /\ (file' = Whole(table) \/ file' = Torn)
  BY LeftBehindForm DEF Written

-----------------------------------------------------------------------------
(* The ratings file: the initial state and the steps.                      *)

\* No file, and sessions that have loaded nothing.
LEMMA RatingsInitIInv == RatingsInit => RatingsIInv
<1> SUFFICES ASSUME RatingsInit PROVE RatingsIInv
  OBVIOUS
<1> USE DEF RatingsInit
<1>1. \A m \in Sessions : session[m] = NewSession /\ session[m] \in SessionState
  BY SeedForm
<1>2. \A m \in Sessions : /\ session[m].pc = "new" /\ session[m].alive = {}
                          /\ \A t \in Teams : session[m].ratings[t] = Seed
  BY <1>1 DEF NewSession
<1>3. handle \in [Writers -> Handle] /\ \A w \in Writers : ~handle[w].open /\ ~handle[w].orphan
  BY SeedForm
<1>4. refresh \in RefreshState /\ refresh.pc = "idle"
  BY SeedForm
<1>5. RatingsTypeOK
  <2>1. snapshot \in 0..Versions /\ database \in 0..Versions
    BY RatingsAssumption
  <2>2. /\ file \in [state: {"absent", "whole", "torn"}, table: Tables]
        /\ manifest \in [ratings: Bases, database: 0..Versions]
    BY SeedForm, RatingsAssumption
  <2>3. session \in [Sessions -> SessionState]
    BY SeedForm
  <2>4. \A m \in Sessions : session[m].pc \in {"locked", "replaced"} <=> fileLock = m
    BY <1>2, RatingsAssumption
  <2>5. handle["refresh"].open <=> refresh.pc = "writing"
    BY <1>3, <1>4 DEF Writers
  <2> QED
    BY <1>3, <1>4, <2>1, <2>2, <2>3, <2>4, <2>5 DEF RatingsTypeOK
<1>6. NewIsUnapplied /\ LockedHasRecent /\ EachUpdateCountsOnce
  BY <1>2, SeedForm DEF NewIsUnapplied, LockedHasRecent, EachUpdateCountsOnce
<1>7. RatedIsAlive /\ RefreshGoesWell /\ SuccessMeansRefreshed
  BY <1>2, <1>3, <1>4, SeedForm
     DEF RatedIsAlive, RefreshGoesWell, SuccessMeansRefreshed, SealedIsRefreshed, Writers
<1> QED
  BY <1>5, <1>6, <1>7 DEF RatingsIInv, UpdatesIInv, RefreshIInv

\* A step that lets the sessions be: the file is as it was, torn, or
\* regenerated without any update.
LEMMA TableKept ==
    ASSUME RatingsIInv, UNCHANGED <<session, fileLock, done, failed>>, file' \in FileState,
           \/ file' = file /\ recent' = recent
           \/ file'.state = "torn" /\ DOMAIN file'.table = {} /\ recent' \subseteq recent
           \/ /\ file'.state = "whole" /\ recent' = {}
              /\ \A t \in DOMAIN file'.table : \A u \in Updates : file'.table[t].applied[u] = 0
    PROVE  NewIsUnapplied' /\ LockedHasRecent' /\ EachUpdateCountsOnce' /\ RatedIsAlive'
<1>1. NewIsUnapplied /\ LockedHasRecent /\ EachUpdateCountsOnce /\ RatedIsAlive
  BY DEF RatingsIInv, UpdatesIInv, RefreshIInv
<1>2. Changed' = Changed /\ recent' \subseteq recent
  BY DEF Changed
<1>3. NewIsUnapplied'
  BY <1>1, <1>2 DEF NewIsUnapplied
<1>4. LockedHasRecent'
  BY <1>1, <1>2 DEF LockedHasRecent, FileState
<1>5. EachUpdateCountsOnce'
  BY <1>1 DEF EachUpdateCountsOnce
<1>6. RatedIsAlive'
  BY <1>1 DEF RatedIsAlive
<1> QED
  BY <1>3, <1>4, <1>5, <1>6

\* A step of another process lets the refresh be, but that its ratings are
\* fresh, and says so when it displaces them.
LEMMA RefreshKept ==
    ASSUME RatingsIInv, UNCHANGED <<database, manifest, exit>>,
           refresh' = refresh \/ refresh' = Touched,
           handle'["refresh"].open = handle["refresh"].open,
           handle'["refresh"].base = handle["refresh"].base,
           handle'["refresh"].orphan => handle'["refresh"].open /\ displaced',
           displaced => displaced',
           refresh.pc \in {"check", "hash"} /\ refresh.code # "1" /\ ~displaced' =>
                file'.state = "whole" /\ IsOfVersion(file'.table, database)
    PROVE  /\ refresh' \in RefreshState /\ refresh'.pc = refresh.pc
           /\ RefreshGoesWell' /\ SuccessMeansRefreshed'
<1>1. RefreshGoesWell /\ SuccessMeansRefreshed /\ refresh \in RefreshState
  BY DEF RatingsIInv, RefreshIInv, RatingsTypeOK
<1>2. /\ refresh' \in RefreshState /\ refresh'.pc = refresh.pc
      /\ refresh'.code = refresh.code /\ refresh'.sealed = refresh.sealed
  BY <1>1 DEF Touched, RefreshState
<1>3. RefreshGoesWell'
  BY <1>1, <1>2 DEF RefreshGoesWell, IsOfVersion
<1>4. SuccessMeansRefreshed'
  BY <1>1 DEF SuccessMeansRefreshed, SealedIsRefreshed, IsOfVersion
<1> QED
  BY <1>2, <1>3, <1>4

\* A session that loads the ratings, or ends and lets go of the lock.
LEMMA LoadSteps ==
    ASSUME RatingsIInv, NEW m \in Sessions, LoadModel(m) \/ SessionEnds(m)
    PROVE  RatingsIInv'
<1> DEFINE l == session'[m]
<1>1. UNCHANGED <<snapshot, database, file, handle, refresh, manifest, exit, done, recent, displaced>>
  BY DEF LoadModel, SessionEnds, history
<1>2. /\ session \in [Sessions -> SessionState] /\ session[m] \in SessionState
      /\ file.table \in Tables
      /\ \A n \in Sessions : session[n].pc \in {"locked", "replaced"} <=> fileLock = n
  BY DEF RatingsIInv, UpdatesIInv, RatingsTypeOK
<1>3. /\ session' = [session EXCEPT ![m] = l] /\ l \in SessionState
      /\ l.pc \notin {"locked", "replaced"}
      /\ fileLock' = IF fileLock = m THEN Nobody ELSE fileLock
      /\ failed' = IF session[m].pc = "replaced" THEN failed \union session[m].update ELSE failed
      /\ l.pc = "new" => l.alive = {}
      /\ \A t \in Teams :
            \/ l.ratings[t] = Seed
            \/ t \in DOMAIN file.table /\ l.ratings[t] = file.table[t] /\ t \in l.alive
            \/ l.ratings[t] = session[m].ratings[t] /\ session[m].pc = "new"
  <2>1. CASE LoadModel(m)
    <3> DEFINE k == [pc |-> "loaded", ratings |-> Over(session[m].ratings, file.table),
                     alive |-> DOMAIN file.table, update |-> {}]
    <3>1. /\ session' = [session EXCEPT ![m] = k] /\ session[m].pc = "new"
          /\ fileLock' = fileLock /\ failed' = failed
      BY <2>1 DEF LoadModel, history
    <3>2. session[m].ratings \in [Teams -> Rating]
      BY <1>2 DEF SessionState
    <3>3. Over(session[m].ratings, file.table) \in [Teams -> Rating]
          /\ DOMAIN file.table \subseteq Teams
      BY <1>2, <3>2, OverForm, TableForm
    <3>4. k \in SessionState
      BY <3>3 DEF SessionState
    <3>5. l = k
      BY <1>2, <3>1
    <3>6. \A t \in Teams :
            \/ t \in DOMAIN file.table /\ k.ratings[t] = file.table[t] /\ t \in k.alive
            \/ k.ratings[t] = session[m].ratings[t]
      BY <1>2, <3>2, OverForm
    <3>7. fileLock # m
      BY <1>2, <3>1
    <3> HIDE DEF k
    <3>8. k.pc = "loaded"
      BY DEF k
    <3> QED
      BY <3>1, <3>4, <3>5, <3>6, <3>7, <3>8
  <2>2. CASE SessionEnds(m)
    <3>1. l = NewSession
      BY <1>2, <2>2 DEF SessionEnds
    <3>2. NewSession.pc = "new" /\ NewSession.alive = {}
          /\ \A t \in Teams : NewSession.ratings[t] = Seed
      BY DEF NewSession
    <3> HIDE DEF l
    <3>3. session' = [session EXCEPT ![m] = l]
          /\ fileLock' = (IF fileLock = m THEN Nobody ELSE fileLock)
          /\ failed' = (IF session[m].pc = "replaced" THEN failed \union session[m].update
                        ELSE failed)
      BY <2>2, <3>1 DEF SessionEnds
    <3> QED
      BY <3>1, <3>2, <3>3, SeedForm
  <2> QED
    BY <2>1, <2>2
<1> HIDE DEF l
<1>4. \A n \in Sessions : session'[n] = IF n = m THEN l ELSE session[n]
  BY <1>2, <1>3
<1>5. Changed' = Changed /\ failed \subseteq failed' /\ failed' \subseteq Updates
  <2>1. failed \subseteq Updates /\ session[m].update \subseteq Updates
    BY <1>2 DEF RatingsIInv, UpdatesIInv, RatingsTypeOK, SessionState
  <2> QED
    BY <1>1, <1>3, <1>4, <2>1 DEF Changed
<1>6. RatingsTypeOK'
  <2>1. \A n \in Sessions : session'[n].pc \in {"locked", "replaced"} <=> fileLock' = n
    BY <1>2, <1>3, <1>4, RatingsAssumption
  <2> QED
    BY <1>1, <1>2, <1>3, <1>5, <2>1 DEF RatingsIInv, UpdatesIInv, RatingsTypeOK
<1>7. NewIsUnapplied'
  <2>1. \A u \in Updates \ Changed : \A t \in Teams : l.ratings[t].applied[u] = 0
    BY <1>3, SeedForm DEF RatingsIInv, UpdatesIInv, NewIsUnapplied
  <2> QED
    BY <1>1, <1>3, <1>4, <1>5, <2>1 DEF RatingsIInv, UpdatesIInv, NewIsUnapplied
<1>8. LockedHasRecent' /\ EachUpdateCountsOnce'
  BY <1>1, <1>3, <1>4, <1>5
     DEF RatingsIInv, UpdatesIInv, LockedHasRecent, EachUpdateCountsOnce
<1>9. RatedIsAlive'
  <2>1. \A t \in Teams : l.ratings[t].base > 0 => t \in l.alive
    BY <1>3, SeedForm DEF RatingsIInv, RefreshIInv, RatedIsAlive
  <2> QED
    BY <1>3, <1>4, <2>1 DEF RatingsIInv, RefreshIInv, RatedIsAlive
<1>10. RefreshGoesWell' /\ SuccessMeansRefreshed'
  BY <1>1 DEF RatingsIInv, RefreshIInv, RefreshGoesWell, SuccessMeansRefreshed,
              SealedIsRefreshed, IsOfVersion
<1> QED
  BY <1>6, <1>7, <1>8, <1>9, <1>10 DEF RatingsIInv, UpdatesIInv, RefreshIInv

\* update_ratings takes the lock and reads the file: what the file must not
\* lose is now in the session.
LEMMA ReadSteps ==
    ASSUME RatingsIInv, NEW m \in Sessions, NEW u \in Updates, UpdateReads(m, u)
    PROVE  RatingsIInv'
<1> DEFINE l == [Rebased(session[m]) EXCEPT !.pc = "locked", !.update = {u}]
           old == session[m]
<1>1. /\ UNCHANGED <<snapshot, database, file, handle, refresh, manifest, exit>>
      /\ UNCHANGED <<done, recent, failed, displaced>>
      /\ session' = [session EXCEPT ![m] = l] /\ fileLock = Nobody /\ fileLock' = m
      /\ u \notin done /\ file.state # "torn"
  BY DEF UpdateReads, history
<1>2. /\ session \in [Sessions -> SessionState] /\ old \in SessionState
      /\ old.ratings \in [Teams -> Rating] /\ old.alive \subseteq Teams
      /\ file.table \in Tables /\ file.state \in {"absent", "whole", "torn"}
      /\ \A n \in Sessions : session[n].pc \notin {"locked", "replaced"}
  BY <1>1, RatingsAssumption DEF RatingsIInv, UpdatesIInv, RatingsTypeOK, SessionState
<1>3. /\ Over(old.ratings, file.table) \in [Teams -> Rating]
      /\ DOMAIN file.table \subseteq Teams
      /\ \A t \in DOMAIN file.table : Over(old.ratings, file.table)[t] = file.table[t]
      /\ \A t \in Teams \ DOMAIN file.table : Over(old.ratings, file.table)[t] = old.ratings[t]
  BY <1>2, OverForm, TableForm
<1>4. /\ l \in SessionState /\ l.pc = "locked" /\ l.update = {u}
      /\ l.alive = old.alive \union DOMAIN file.table
      /\ l.ratings = Over(old.ratings, file.table)
  BY <1>2, <1>3 DEF SessionState, Rebased
<1> HIDE DEF l
<1>5. \A n \in Sessions : session'[n] = IF n = m THEN l ELSE session[n]
  BY <1>1, <1>2
<1>6. RatingsTypeOK'
  <2>1. \A n \in Sessions : session'[n].pc \in {"locked", "replaced"} <=> fileLock' = n
    BY <1>1, <1>2, <1>4, <1>5
  <2>2. session' \in [Sessions -> SessionState] /\ fileLock' \in Sessions
    BY <1>1, <1>2, <1>4
  <2> QED
    BY <1>1, <2>1, <2>2 DEF RatingsIInv, UpdatesIInv, RatingsTypeOK
<1>7. NewIsUnapplied'
  <2>1. Changed' = Changed
    BY <1>1, <1>2, <1>4, <1>5 DEF Changed
  <2>2. ASSUME NEW v \in Updates \ Changed, NEW t \in Teams
        PROVE  l.ratings[t].applied[v] = 0
    <3>1. old.ratings[t].applied[v] = 0
      BY DEF RatingsIInv, UpdatesIInv, NewIsUnapplied
    <3>2. t \in DOMAIN file.table => file.table[t].applied[v] = 0
      BY DEF RatingsIInv, UpdatesIInv, NewIsUnapplied
    <3> QED
      BY <1>3, <1>4, <3>1, <3>2
  <2>3. \A n \in Sessions : session'[n].pc = "locked" => session'[n].update \intersect done = {}
    BY <1>1, <1>2, <1>4, <1>5
  <2> QED
    BY <1>1, <1>5, <2>1, <2>2, <2>3 DEF RatingsIInv, UpdatesIInv, NewIsUnapplied
<1>8. LockedHasRecent'
  <2>1. ASSUME NEW v \in recent \ failed, NEW t \in Players[v]
        PROVE  t \in l.alive /\ l.ratings[t].applied[v] = 1
    <3>1. file.state = "whole"
      BY <1>1, <1>2 DEF RatingsIInv, UpdatesIInv, LockedHasRecent
    <3>2. t \in DOMAIN file.table /\ file.table[t].applied[v] = 1
      BY <3>1 DEF RatingsIInv, UpdatesIInv, EachUpdateCountsOnce
    <3> QED
      BY <1>3, <1>4, <3>2
  <2> QED
    BY <1>1, <1>2, <1>5, <2>1 DEF RatingsIInv, UpdatesIInv, LockedHasRecent
<1>9. EachUpdateCountsOnce'
  BY <1>1 DEF RatingsIInv, UpdatesIInv, EachUpdateCountsOnce
<1>10. RatedIsAlive'
  <2>1. \A t \in Teams : l.ratings[t].base > 0 => t \in l.alive
    BY <1>3, <1>4 DEF RatingsIInv, RefreshIInv, RatedIsAlive
  <2> QED
    BY <1>4, <1>5, <2>1 DEF RatingsIInv, RefreshIInv, RatedIsAlive
<1>11. RefreshGoesWell' /\ SuccessMeansRefreshed'
  BY <1>1 DEF RatingsIInv, RefreshIInv, RefreshGoesWell, SuccessMeansRefreshed,
              SealedIsRefreshed, IsOfVersion
<1> QED
  BY <1>6, <1>7, <1>8, <1>9, <1>10, <1>11 DEF RatingsIInv, UpdatesIInv, RefreshIInv

\* What an update leaves of its session, whether its write succeeds or fails.
LEMMA UpdateLeaves ==
    ASSUME RatingsIInv, NEW m \in Sessions, NEW u \in Updates, session[m].pc = "locked",
           u \in session[m].update, NEW pc \in {"loaded", "replaced"},
           NEW update \in SUBSET Updates,
           session' = [session EXCEPT ![m] =
                [Updated(session[m], u) EXCEPT !.pc = pc, !.update = update]]
    PROVE  /\ u \notin done
           /\ session' \in [Sessions -> SessionState]
           /\ session'[m].pc = pc /\ session'[m].update = update
           /\ \A n \in Sessions \ {m} : session'[n].pc \notin {"locked", "replaced"}
           /\ Changed = done \union failed
           /\ \A v \in Updates \ (Changed \union {u}) :
                \A n \in Sessions : \A t \in Teams : session'[n].ratings[t].applied[v] = 0
           /\ RatedIsAlive'
<1> DEFINE l == [Updated(session[m], u) EXCEPT !.pc = pc, !.update = update]
<1>1. /\ session \in [Sessions -> SessionState] /\ session[m] \in SessionState
      /\ \A n \in Sessions \ {m} : session[n].pc \notin {"locked", "replaced"}
  BY DEF RatingsIInv, UpdatesIInv, RatingsTypeOK
<1>2. /\ Updated(session[m], u) \in SessionState
      /\ Updated(session[m], u).alive = session[m].alive \union Players[u]
      /\ \A t \in Teams :
            /\ Updated(session[m], u).ratings[t].base = session[m].ratings[t].base
            /\ \A v \in Updates \ {u} :
                Updated(session[m], u).ratings[t].applied[v] = session[m].ratings[t].applied[v]
  BY <1>1, UpdatedForm
<1>3. /\ l \in SessionState /\ l.pc = pc /\ l.update = update
      /\ l.alive = session[m].alive \union Players[u]
      /\ l.ratings = Updated(session[m], u).ratings
  BY <1>2 DEF SessionState
<1> HIDE DEF l
<1>4. /\ session' \in [Sessions -> SessionState]
      /\ \A n \in Sessions : session'[n] = IF n = m THEN l ELSE session[n]
  BY <1>1, <1>3 DEF l
<1>5. u \notin done
  BY DEF RatingsIInv, UpdatesIInv, NewIsUnapplied
<1>6. Changed = done \union failed
  BY <1>1 DEF Changed
<1>7. ASSUME NEW v \in Updates \ (Changed \union {u}), NEW n \in Sessions, NEW t \in Teams
      PROVE  session'[n].ratings[t].applied[v] = 0
  <2>1. session[n].ratings[t].applied[v] = 0
    BY DEF RatingsIInv, UpdatesIInv, NewIsUnapplied
  <2> QED
    BY <1>2, <1>3, <1>4, <2>1
<1>8. RatedIsAlive'
  <2>1. \A t \in Teams : l.ratings[t].base > 0 => t \in l.alive
    BY <1>2, <1>3 DEF RatingsIInv, RefreshIInv, RatedIsAlive
  <2> QED
    BY <1>3, <1>4, <2>1 DEF RatingsIInv, RefreshIInv, RatedIsAlive
<1> QED
  BY <1>1, <1>3, <1>4, <1>5, <1>6, <1>7, <1>8

\* The write raises: the session keeps what it changed, the file what it had.
LEMMA FailSteps ==
    ASSUME RatingsIInv, NEW m \in Sessions, UpdateFails(m)
    PROVE  RatingsIInv'
<1>1. /\ UNCHANGED <<snapshot, database, file, handle, refresh, manifest, exit>>
      /\ UNCHANGED <<done, recent, displaced>>
      /\ session[m].pc = "locked" /\ fileLock' = Nobody
      /\ failed = {} /\ failed' = session[m].update
  BY DEF UpdateFails
<1>2. PICK u \in session[m].update :
        session' = [session EXCEPT ![m] =
                [Updated(session[m], u) EXCEPT !.pc = "loaded", !.update = {}]]
  BY DEF UpdateFails
<1>3. u \in Updates /\ session[m].update \subseteq Updates
  BY DEF RatingsIInv, UpdatesIInv, RatingsTypeOK, SessionState
<1>4. /\ session' \in [Sessions -> SessionState] /\ session'[m].pc = "loaded"
      /\ \A n \in Sessions \ {m} : session'[n].pc \notin {"locked", "replaced"}
      /\ Changed = done \union failed
      /\ \A v \in Updates \ (Changed \union {u}) :
            \A n \in Sessions : \A t \in Teams : session'[n].ratings[t].applied[v] = 0
      /\ RatedIsAlive'
  <2> DEFINE pc == "loaded"
             update == {}
  <2>1. pc \in {"loaded", "replaced"} /\ update \in SUBSET Updates /\ pc = "loaded"
    OBVIOUS
  <2>2. session' = [session EXCEPT ![m] =
                [Updated(session[m], u) EXCEPT !.pc = pc, !.update = update]]
    BY <1>2
  <2> HIDE DEF pc, update
  <2> QED
    BY <1>1, <1>3, <2>1, <2>2, UpdateLeaves
<1>5. Changed' = Changed \union session[m].update
  BY <1>1, <1>4 DEF Changed
<1>6. RatingsTypeOK'
  BY <1>1, <1>3, <1>4, RatingsAssumption DEF RatingsIInv, UpdatesIInv, RatingsTypeOK
<1>7. NewIsUnapplied'
  BY <1>1, <1>2, <1>4, <1>5 DEF RatingsIInv, UpdatesIInv, NewIsUnapplied
<1>8. LockedHasRecent' /\ EachUpdateCountsOnce'
  BY <1>1, <1>4 DEF RatingsIInv, UpdatesIInv, LockedHasRecent, EachUpdateCountsOnce
<1>9. RefreshGoesWell' /\ SuccessMeansRefreshed'
  BY <1>1 DEF RatingsIInv, RefreshIInv, RefreshGoesWell, SuccessMeansRefreshed,
              SealedIsRefreshed, IsOfVersion
<1> QED
  BY <1>4, <1>6, <1>7, <1>8, <1>9 DEF RatingsIInv, UpdatesIInv, RefreshIInv

\* The file is replaced by what the session made of what it had read: every
\* update that counted still counts, and what was computed from the games
\* stays unless the read was stale.
LEMMA ReplaceSteps ==
    ASSUME RatingsIInv, NEW m \in Sessions, UpdateReplaces(m)
    PROVE  RatingsIInv'
<1> DEFINE old == session[m]
<1>1. /\ UNCHANGED <<snapshot, database, fileLock, manifest, exit, done, failed>>
      /\ old.pc = "locked" /\ refresh' = Touched
      /\ handle' = [w \in Writers |-> [handle[w] EXCEPT !.orphan = handle[w].open]]
      /\ displaced' = (displaced \/ (Unsealed /\ ReadIsStale(m)))
  BY DEF UpdateReplaces
<1>2. PICK u \in old.update :
        /\ session' = [session EXCEPT ![m] = [Updated(old, u) EXCEPT !.pc = "replaced"]]
        /\ file' = Whole([t \in Updated(old, u).alive |-> Updated(old, u).ratings[t]])
        /\ recent' = recent \union {u}
  BY DEF UpdateReplaces
<1>3. /\ old \in SessionState /\ u \in Updates /\ old.update \subseteq Updates
      /\ refresh \in RefreshState /\ displaced \in BOOLEAN
      /\ handle \in [Writers -> Handle] /\ (handle["refresh"].open <=> refresh.pc = "writing")
  BY DEF RatingsIInv, UpdatesIInv, RatingsTypeOK, SessionState
<1>4. /\ Updated(old, u) \in SessionState /\ Updated(old, u).update = old.update
      /\ Updated(old, u).ratings \in [Teams -> Rating]
      /\ Updated(old, u).alive = old.alive \union Players[u]
      /\ Updated(old, u).alive \subseteq Teams /\ Players[u] \subseteq Teams
      /\ \A t \in Teams :
            /\ Updated(old, u).ratings[t].base = old.ratings[t].base
            /\ Updated(old, u).ratings[t].held = old.ratings[t].held
            /\ \A v \in Updates \ {u} :
                Updated(old, u).ratings[t].applied[v] = old.ratings[t].applied[v]
            /\ t \in Players[u] /\ old.ratings[t].applied[u] = 0 =>
                Updated(old, u).ratings[t].applied[u] = 1
  BY <1>3, UpdatedForm, RatingsAssumption DEF SessionState
<1>5. /\ u \notin done
      /\ session' \in [Sessions -> SessionState] /\ session'[m].pc = "replaced"
      /\ session'[m].update = old.update
      /\ \A n \in Sessions \ {m} : session'[n].pc \notin {"locked", "replaced"}
      /\ Changed = done \union failed
      /\ \A v \in Updates \ (Changed \union {u}) :
            \A n \in Sessions : \A t \in Teams : session'[n].ratings[t].applied[v] = 0
      /\ RatedIsAlive'
  <2> DEFINE pc == "replaced"
             update == old.update
  <2>1. /\ pc \in {"loaded", "replaced"} /\ pc = "replaced"
        /\ update \in SUBSET Updates /\ update = old.update
        /\ session[m].pc = "locked" /\ u \in session[m].update /\ u \in Updates
    BY <1>1, <1>3
  <2>2. [Updated(old, u) EXCEPT !.pc = pc, !.update = update]
            = [Updated(old, u) EXCEPT !.pc = "replaced"]
    BY <1>4 DEF SessionState
  <2>3. session' = [session EXCEPT ![m] =
                [Updated(session[m], u) EXCEPT !.pc = pc, !.update = update]]
    BY <1>2, <2>2
  <2> HIDE DEF pc, update, old
  <2> QED
    BY <2>1, <2>3, UpdateLeaves
<1> DEFINE table == [t \in Updated(old, u).alive |-> Updated(old, u).ratings[t]]
<1>6. /\ file' \in FileState /\ file'.state = "whole" /\ file'.table = table
      /\ table \in Tables /\ DOMAIN table = old.alive \union Players[u]
      /\ \A t \in DOMAIN table : t \in Teams /\ table[t] = Updated(old, u).ratings[t]
  <2>1. table \in Tables
    BY <1>4, TableForm
  <2>2. file' = Whole(table)
    BY <1>2
  <2> QED
    BY <1>4, <2>1, <2>2, WholeForm
<1> HIDE DEF table
<1>7. /\ handle' \in [Writers -> Handle]
      /\ handle'["refresh"].open = handle["refresh"].open
      /\ handle'["refresh"].base = handle["refresh"].base
      /\ handle'["refresh"].orphan = handle["refresh"].open
  BY <1>1, <1>3 DEF Writers, Handle
<1>8. handle["refresh"].open => displaced'
  BY <1>1, <1>3 DEF Unsealed, ReadIsStale, Writers
<1>9. ASSUME refresh.pc \in {"check", "hash"}, refresh.code # "1", ~displaced'
      PROVE  IsOfVersion(table, database)
  <2>1. /\ file.state = "whole" /\ IsOfVersion(file.table, database)
        /\ \A t \in DOMAIN file.table : file.table[t] = old.ratings[t]
    BY <1>1, <1>9 DEF RatingsIInv, RefreshIInv, RefreshGoesWell, ReadIsStale, Unsealed
  <2>2. ASSUME NEW t \in TeamsIn(database)
        PROVE  t \in DOMAIN table /\ table[t].base = database /\ ~table[t].held
    <3>1. t \in DOMAIN file.table /\ old.ratings[t].base = database /\ ~old.ratings[t].held
      BY <2>1 DEF IsOfVersion
    <3>2. database > 0 /\ t \in Teams
      <4>1. t \in Teams /\ FirstIn[t] <= database /\ FirstIn[t] \in Nat \ {0} /\ database \in Nat
        BY RatingsAssumption DEF TeamsIn, RatingsIInv, UpdatesIInv, RatingsTypeOK
      <4> QED
        BY <4>1
    <3>3. t \in old.alive
      BY <3>1, <3>2 DEF RatingsIInv, RefreshIInv, RatedIsAlive
    <3> QED
      BY <1>4, <1>6, <3>1, <3>2, <3>3
  <2> QED
    BY <2>2 DEF IsOfVersion
<1>10. /\ refresh' \in RefreshState /\ refresh'.pc = refresh.pc
       /\ RefreshGoesWell' /\ SuccessMeansRefreshed'
  <2>1. displaced => displaced'
    BY <1>1
  <2> QED
    BY <1>1, <1>6, <1>7, <1>8, <1>9, <2>1, RefreshKept
<1>11. Changed' = Changed \union old.update
  BY <1>1, <1>5 DEF Changed
<1>12. RatingsTypeOK'
  <2>1. recent' \subseteq Updates /\ displaced' \in BOOLEAN
    BY <1>1, <1>2, <1>3 DEF RatingsIInv, UpdatesIInv, RatingsTypeOK
  <2>2. \A n \in Sessions : session'[n].pc \in {"locked", "replaced"} <=> fileLock' = n
    BY <1>1, <1>5, RatingsAssumption DEF RatingsIInv, UpdatesIInv, RatingsTypeOK
  <2>3. handle'["refresh"].open <=> refresh'.pc = "writing"
    BY <1>3, <1>7, <1>10
  <2> QED
    BY <1>1, <1>5, <1>6, <1>7, <1>10, <2>1, <2>2, <2>3
       DEF RatingsIInv, UpdatesIInv, RatingsTypeOK, FileState
<1>13. NewIsUnapplied'
  <2>1. ASSUME NEW v \in Updates \ Changed', NEW t \in DOMAIN table
        PROVE  table[t].applied[v] = 0
    <3>1. old.ratings[t].applied[v] = 0 /\ v # u
      BY <1>6, <1>11 DEF RatingsIInv, UpdatesIInv, NewIsUnapplied
    <3> QED
      BY <1>4, <1>6, <3>1
  <2>2. recent' \subseteq Changed'
    BY <1>2, <1>11 DEF RatingsIInv, UpdatesIInv, NewIsUnapplied
  <2> QED
    BY <1>5, <1>6, <1>11, <2>1, <2>2 DEF NewIsUnapplied
<1>14. LockedHasRecent'
  BY <1>5, <1>6 DEF LockedHasRecent
<1>15. EachUpdateCountsOnce'
  <2>1. SUFFICES ASSUME NEW v \in recent' \ failed', NEW t \in Players[v]
                 PROVE  t \in DOMAIN table /\ table[t].applied[v] = 1
    BY <1>6 DEF EachUpdateCountsOnce
  <2>2. CASE v = u
    <3>1. u \notin Changed /\ t \in Teams
      BY <1>1, <1>4, <1>5, <2>1, <2>2
    <3>2. old.ratings[t].applied[u] = 0
      BY <1>3, <3>1 DEF RatingsIInv, UpdatesIInv, NewIsUnapplied
    <3> QED
      BY <1>4, <1>6, <2>2, <3>1, <3>2
  <2>3. CASE v # u
    <3>1. v \in recent \ failed /\ v \in Updates
      BY <1>1, <1>2, <2>3 DEF RatingsIInv, UpdatesIInv, RatingsTypeOK
    <3>2. t \in old.alive /\ old.ratings[t].applied[v] = 1
      BY <1>1, <3>1 DEF RatingsIInv, UpdatesIInv, LockedHasRecent
    <3> QED
      BY <1>4, <1>6, <2>3, <3>1, <3>2
  <2> QED
    BY <2>2, <2>3
<1> QED
  BY <1>5, <1>10, <1>12, <1>13, <1>14, <1>15 DEF RatingsIInv, UpdatesIInv, RefreshIInv

\* The call returns: what it changed is done.
LEMMA ReturnSteps ==
    ASSUME RatingsIInv, NEW m \in Sessions, UpdateReturns(m)
    PROVE  RatingsIInv'
<1> DEFINE l == [session[m] EXCEPT !.pc = "loaded", !.update = {}]
<1>1. /\ UNCHANGED <<snapshot, database, file, handle, refresh, manifest, exit>>
      /\ UNCHANGED <<recent, failed, displaced>>
      /\ session[m].pc = "replaced" /\ fileLock' = Nobody
      /\ done' = done \union session[m].update
  BY DEF UpdateReturns
<1>2. /\ session \in [Sessions -> SessionState] /\ session[m] \in SessionState
      /\ done \subseteq Updates /\ session[m].update \subseteq Updates
      /\ \A n \in Sessions \ {m} : session[n].pc \notin {"locked", "replaced"}
  BY <1>1 DEF RatingsIInv, UpdatesIInv, RatingsTypeOK, SessionState
<1>3. session' = [session EXCEPT ![m] = l]
  BY <1>2 DEF UpdateReturns
<1>4. /\ l \in SessionState /\ l.pc = "loaded"
      /\ l.ratings = session[m].ratings /\ l.alive = session[m].alive
  BY <1>2 DEF SessionState
<1> HIDE DEF l
<1>5. /\ session' \in [Sessions -> SessionState]
      /\ \A n \in Sessions : /\ session'[n].pc \notin {"locked", "replaced"}
                             /\ session'[n].ratings = session[n].ratings
                             /\ session'[n].alive = session[n].alive
                             /\ session'[n].pc = "new" => session[n].pc = "new"
  BY <1>1, <1>2, <1>3, <1>4
<1>6. Changed' = Changed
  BY <1>1, <1>2, <1>5 DEF Changed
<1>7. RatingsTypeOK'
  BY <1>1, <1>2, <1>5, RatingsAssumption DEF RatingsIInv, UpdatesIInv, RatingsTypeOK
<1>8. NewIsUnapplied'
  BY <1>1, <1>5, <1>6 DEF RatingsIInv, UpdatesIInv, NewIsUnapplied
<1>9. LockedHasRecent' /\ EachUpdateCountsOnce' /\ RatedIsAlive'
  BY <1>1, <1>5 DEF RatingsIInv, UpdatesIInv, RefreshIInv, LockedHasRecent,
                    EachUpdateCountsOnce, RatedIsAlive
<1>10. RefreshGoesWell' /\ SuccessMeansRefreshed'
  BY <1>1 DEF RatingsIInv, RefreshIInv, RefreshGoesWell, SuccessMeansRefreshed,
              SealedIsRefreshed, IsOfVersion
<1> QED
  BY <1>7, <1>8, <1>9, <1>10 DEF RatingsIInv, UpdatesIInv, RefreshIInv

\* The walk-forward of the weekly refresh opens the file and writes it, which
\* forgets the updates; if it was replaced meanwhile, what is written goes
\* nowhere.
LEMMA WalkForwardSteps ==
    ASSUME RatingsIInv, WalkForwardOpens \/ WalkForwardWrites
    PROVE  RatingsIInv'
<1>1. UNCHANGED <<snapshot, database, fileLock, session, manifest, exit, done, failed>>
  BY DEF WalkForwardOpens, WalkForwardWrites, history
<1>2. /\ refresh \in RefreshState /\ database \in 0..Versions /\ displaced \in BOOLEAN
      /\ handle \in [Writers -> Handle] /\ file \in FileState
      /\ handle["refresh"].base \in 0..Versions
      /\ handle["refresh"].open <=> refresh.pc = "writing"
  BY DEF RatingsIInv, UpdatesIInv, RatingsTypeOK, Handle, Writers, FileState
<1>3. RefreshGoesWell
  BY DEF RatingsIInv, RefreshIInv
<1>4. CASE WalkForwardOpens
  <2>1. /\ refresh.pc = "ratings" /\ UNCHANGED <<recent, displaced>>
        /\ refresh' = [refresh EXCEPT !.pc = "writing", !.fresh = TRUE]
        /\ handle' = [handle EXCEPT !["refresh"] = [Closed EXCEPT !.open = TRUE, !.base = database]]
        /\ file' = Torn
    BY <1>4 DEF WalkForwardOpens, Opened, history
  <2>2. file' \in FileState /\ file'.state = "torn" /\ DOMAIN file'.table = {}
    BY <2>1, SeedForm
  <2>3. refresh' \in RefreshState /\ refresh'.pc = "writing"
    BY <1>2, <2>1 DEF RefreshState
  <2>4. /\ handle' \in [Writers -> Handle] /\ handle'["refresh"].open
        /\ handle'["refresh"].base = database /\ ~handle'["refresh"].orphan
    BY <1>2, <2>1, SeedForm DEF Writers, Handle
  <2>5. RatingsTypeOK'
    BY <1>1, <2>1, <2>2, <2>3, <2>4 DEF RatingsIInv, UpdatesIInv, RatingsTypeOK, FileState
  <2>6. NewIsUnapplied' /\ LockedHasRecent' /\ EachUpdateCountsOnce' /\ RatedIsAlive'
    BY <1>1, <2>1, <2>2, TableKept
  <2>7. RefreshGoesWell' /\ SuccessMeansRefreshed'
    BY <1>1, <1>3, <2>1, <2>3, <2>4
       DEF RefreshGoesWell, SuccessMeansRefreshed, SealedIsRefreshed
  <2> QED
    BY <2>5, <2>6, <2>7 DEF RatingsIInv, UpdatesIInv, RefreshIInv
<1>5. CASE WalkForwardWrites
  <2> DEFINE version == handle["refresh"].base
             new == Regenerated(TeamsIn(version), version, FALSE)
  <2>1. PICK ok \in BOOLEAN :
          refresh' = [refresh EXCEPT !.pc = "check", !.code = IF ok THEN refresh.code ELSE "1"]
    BY <1>5 DEF WalkForwardWrites
  <2>2. /\ refresh.pc = "writing" /\ Written("refresh", new)
        /\ displaced' = (IF handle["refresh"].orphan THEN displaced ELSE file' = Torn)
    BY <1>5 DEF WalkForwardWrites
  <2>3. /\ new \in Tables /\ \A t \in DOMAIN new : \A u \in Updates : new[t].applied[u] = 0
        /\ IsOfVersion(new, database) /\ exit = "none"
        /\ handle["refresh"].orphan => displaced
    <3>1. TeamsIn(version) \in SUBSET Teams /\ FALSE \in BOOLEAN /\ version \in 0..Versions
      BY <1>2 DEF TeamsIn
    <3>2. version = database
      BY <1>3, <2>2 DEF RefreshGoesWell
    <3> HIDE DEF version
    <3>3. /\ new \in Tables /\ \A t \in DOMAIN new : \A u \in Updates : new[t].applied[u] = 0
          /\ IsOfVersion(new, version)
      BY <3>1, RegeneratedForm
    <3> QED
      BY <1>3, <2>2, <3>2, <3>3 DEF RefreshGoesWell
  <2> HIDE DEF new
  <2>4. /\ handle' \in [Writers -> Handle] /\ handle'["refresh"] = Closed
        /\ handle["refresh"].orphan => file' = file /\ recent' = recent
        /\ ~handle["refresh"].orphan => recent' = {} /\ (file' = Whole(new) \/ file' = Torn)
    BY <1>2, <2>2, WrittenForm DEF Writers
  <2>5. file' \in FileState
    BY <1>2, <2>3, <2>4, WholeForm, SeedForm
  <2>6. refresh' \in RefreshState /\ refresh'.pc = "check"
    BY <1>2, <2>1 DEF RefreshState
  <2>7. RatingsTypeOK'
    <3>1. displaced' \in BOOLEAN /\ recent' \subseteq Updates
      BY <1>2, <2>2, <2>4 DEF RatingsIInv, UpdatesIInv, RatingsTypeOK
    <3> QED
      BY <1>1, <2>4, <2>5, <2>6, <3>1, SeedForm
         DEF RatingsIInv, UpdatesIInv, RatingsTypeOK, FileState
  <2>8. NewIsUnapplied' /\ LockedHasRecent' /\ EachUpdateCountsOnce' /\ RatedIsAlive'
    BY <1>1, <2>3, <2>4, <2>5, WholeForm, SeedForm, TableKept
  <2>9. ASSUME ~displaced'
        PROVE  file'.state = "whole" /\ IsOfVersion(file'.table, database)
    BY <2>2, <2>3, <2>4, <2>9, WholeForm
  <2>10. RefreshGoesWell'
    BY <1>1, <2>3, <2>4, <2>6, <2>9, SeedForm DEF RefreshGoesWell, IsOfVersion
  <2>11. SuccessMeansRefreshed'
    BY <1>1, <2>3 DEF SuccessMeansRefreshed, SealedIsRefreshed
  <2> QED
    BY <2>7, <2>8, <2>10, <2>11 DEF RatingsIInv, UpdatesIInv, RefreshIInv
<1> QED
  BY <1>4, <1>5

\* The job backtest opens the file, writes it or gives up: it displaces what
\* the refresh has not sealed unless it writes nowhere.
LEMMA BacktestSteps ==
    ASSUME RatingsIInv, BacktestOpens \/ BacktestWrites \/ BacktestFails
    PROVE  RatingsIInv'
<1>1. UNCHANGED <<snapshot, database, fileLock, session, manifest, exit, done, failed>>
  BY DEF BacktestOpens, BacktestWrites, BacktestFails
<1>2. /\ handle \in [Writers -> Handle] /\ file \in FileState /\ displaced \in BOOLEAN
      /\ snapshot \in Nat /\ snapshot <= Versions /\ Versions \in Nat
      /\ handle["backtest"].base \in 0..Versions
      /\ recent \subseteq Updates /\ "backtest" \in Writers /\ "refresh" \in Writers \ {"backtest"}
      /\ handle["refresh"].open <=> refresh.pc = "writing"
  BY RatingsAssumption
     DEF RatingsIInv, UpdatesIInv, RatingsTypeOK, Handle, Writers, FileState
<1>3. SUFFICES /\ handle' \in [Writers -> Handle] /\ displaced' \in BOOLEAN
               /\ file' \in FileState
               /\ handle'["refresh"].open = handle["refresh"].open
               /\ handle'["refresh"].base = handle["refresh"].base
               /\ handle'["refresh"].orphan = handle["refresh"].orphan
               /\ refresh' = refresh \/ refresh' = Touched
               /\ displaced => displaced'
               /\ Unsealed /\ ~displaced' => file' = file
               /\ \/ file' = file /\ recent' = recent
                  \/ file' = Torn /\ recent' \subseteq recent
                  \/ /\ file'.state = "whole" /\ recent' = {}
                     /\ \A t \in DOMAIN file'.table : \A u \in Updates :
                            file'.table[t].applied[u] = 0
  <2>1. NewIsUnapplied' /\ LockedHasRecent' /\ EachUpdateCountsOnce' /\ RatedIsAlive'
    BY <1>1, <1>3, SeedForm, TableKept
  <2>2. handle["refresh"].orphan => handle["refresh"].open /\ displaced
    BY DEF RatingsIInv, RefreshIInv, RefreshGoesWell
  <2>3. refresh.pc \in {"check", "hash"} /\ refresh.code # "1" /\ ~displaced' =>
            file'.state = "whole" /\ IsOfVersion(file'.table, database)
    BY <1>3 DEF RatingsIInv, RefreshIInv, RefreshGoesWell, Unsealed
  <2>4. /\ refresh' \in RefreshState /\ refresh'.pc = refresh.pc
        /\ RefreshGoesWell' /\ SuccessMeansRefreshed'
    BY <1>1, <1>3, <2>2, <2>3, RefreshKept
  <2>5. RatingsTypeOK'
    BY <1>1, <1>2, <1>3, <2>4 DEF RatingsIInv, UpdatesIInv, RatingsTypeOK, FileState
  <2> QED
    BY <2>1, <2>4, <2>5 DEF RatingsIInv, UpdatesIInv, RefreshIInv
<1>4. CASE BacktestOpens
  <2>1. PICK version \in 1..snapshot :
          /\ handle' = [handle EXCEPT !["backtest"] = [Closed EXCEPT !.open = TRUE, !.base = version]]
          /\ file' = Torn
    BY <1>4 DEF BacktestOpens, Opened
  <2>2. /\ refresh' = Touched /\ displaced' = (displaced \/ Unsealed) /\ recent' = recent
    BY <1>4 DEF BacktestOpens
  <2>3. [Closed EXCEPT !.open = TRUE, !.base = version] \in Handle
    <3>1. version \in 0..Versions
      BY <1>2
    <3> QED
      BY <3>1 DEF Closed, Handle
  <2> QED
    BY <1>2, <2>1, <2>2, <2>3, SeedForm DEF Unsealed
<1>5. CASE BacktestWrites
  <2> DEFINE version == handle["backtest"].base
  <2>1. PICK teams \in SUBSET TeamsIn(version) :
          Written("backtest", Regenerated(teams, version, TRUE))
    BY <1>5 DEF BacktestWrites
  <2> DEFINE new == Regenerated(teams, version, TRUE)
  <2>2. /\ refresh' = IF handle["backtest"].orphan THEN refresh ELSE Touched
        /\ displaced' = (displaced \/ (Unsealed /\ ~handle["backtest"].orphan))
    BY <1>5 DEF BacktestWrites
  <2>3. new \in Tables /\ \A t \in DOMAIN new : \A u \in Updates : new[t].applied[u] = 0
    <3>1. teams \in SUBSET Teams /\ version \in 0..Versions
      BY <1>2 DEF TeamsIn
    <3> HIDE DEF version
    <3> QED
      BY <3>1, RegeneratedForm
  <2>4. Written("backtest", new)
    BY <2>1
  <2> HIDE DEF new
  <2>5. /\ handle' \in [Writers -> Handle]
        /\ handle'["refresh"].open = handle["refresh"].open
        /\ handle'["refresh"].base = handle["refresh"].base
        /\ handle'["refresh"].orphan = handle["refresh"].orphan
        /\ handle["backtest"].orphan => file' = file /\ recent' = recent
        /\ ~handle["backtest"].orphan => recent' = {} /\ (file' = Whole(new) \/ file' = Torn)
    BY <1>2, <2>4, WrittenForm
  <2>6. /\ file' \in FileState
        /\ \/ file' = file /\ recent' = recent
           \/ file' = Torn /\ recent' \subseteq recent
           \/ /\ file'.state = "whole" /\ recent' = {}
              /\ \A t \in DOMAIN file'.table : \A u \in Updates : file'.table[t].applied[u] = 0
    BY <1>2, <2>3, <2>5, WholeForm, SeedForm
  <2> QED
    BY <1>2, <2>2, <2>5, <2>6 DEF Unsealed
<1>6. CASE BacktestFails
  <2>1. /\ GivenUp("backtest") /\ refresh' = refresh /\ recent' = recent
        /\ displaced' = (displaced \/ (Unsealed /\ file' # file))
    BY <1>6 DEF BacktestFails
  <2>2. /\ handle' \in [Writers -> Handle]
        /\ handle'["refresh"].open = handle["refresh"].open
        /\ handle'["refresh"].base = handle["refresh"].base
        /\ handle'["refresh"].orphan = handle["refresh"].orphan
        /\ file' = file \/ file' = Torn
    BY <1>2, <2>1, GivenUpForm
  <2> QED
    BY <1>2, <2>1, <2>2, SeedForm DEF Unsealed
<1> QED
  BY <1>4, <1>5, <1>6

\* The other steps of the weekly refresh, which do not write the file, but
\* that one that dies or fails may leave it torn.
LEMMA RefreshSteps ==
    ASSUME RatingsIInv,
           \/ Download \/ Ingest \/ WalkForwardFails \/ CheckRatings \/ HashRatings
           \/ PublishManifest \/ RefreshDies
    PROVE  RatingsIInv'
<1>1. UNCHANGED <<fileLock, session, done, recent, failed>>
  BY DEF Download, Ingest, WalkForwardFails, CheckRatings, HashRatings, PublishManifest,
         RefreshDies, history
<1>2. /\ snapshot \in 0..Versions /\ database \in 0..Versions /\ Versions \in Nat
      /\ refresh \in RefreshState /\ file \in FileState /\ file.table \in Tables
      /\ manifest \in [ratings: Bases, database: 0..Versions]
      /\ exit \in {"none", "0", "10", "1"}
      /\ handle \in [Writers -> Handle] /\ "refresh" \in Writers /\ displaced \in BOOLEAN
      /\ handle["refresh"].open <=> refresh.pc = "writing"
  BY RatingsAssumption DEF RatingsIInv, UpdatesIInv, RatingsTypeOK, FileState, Writers
<1>3. /\ RefreshAtRest \in RefreshState /\ RefreshAtRest.pc = "idle"
      /\ ~Closed.open /\ ~Closed.orphan
  BY SeedForm
<1>4. RefreshGoesWell /\ SuccessMeansRefreshed
  BY DEF RatingsIInv, RefreshIInv
<1>5. SUFFICES /\ snapshot' \in 0..Versions /\ database' \in 0..Versions
               /\ refresh' \in RefreshState /\ exit' \in {"none", "0", "10", "1"}
               /\ manifest' \in [ratings: Bases, database: 0..Versions]
               /\ handle' \in [Writers -> Handle] /\ displaced' \in BOOLEAN
               /\ handle'["refresh"].open <=> refresh'.pc = "writing"
               /\ file' = file \/ file' = Torn
               /\ RefreshGoesWell' /\ SuccessMeansRefreshed'
  <2>1. NewIsUnapplied' /\ LockedHasRecent' /\ EachUpdateCountsOnce' /\ RatedIsAlive'
    BY <1>1, <1>2, <1>5, SeedForm, TableKept
  <2>2. file' \in FileState
    BY <1>2, <1>5, SeedForm
  <2>3. RatingsTypeOK'
    BY <1>1, <1>5, <2>2 DEF RatingsIInv, UpdatesIInv, RatingsTypeOK, FileState
  <2> QED
    BY <1>5, <2>1, <2>3 DEF RatingsIInv, UpdatesIInv, RefreshIInv
<1>6. CASE Download
  <2>1. PICK ok \in BOOLEAN :
          /\ snapshot' \in IF ok /\ snapshot < Versions THEN {snapshot, snapshot + 1} ELSE {snapshot}
          /\ refresh' = [RefreshAtRest EXCEPT !.pc = "steps", !.code = IF ok THEN "0" ELSE "10"]
    BY <1>6 DEF Download
  <2>2. /\ UNCHANGED <<database, file, handle, manifest>>
        /\ exit' = "none" /\ displaced' = FALSE /\ refresh.pc = "idle"
    BY <1>6 DEF Download
  <2>3. refresh' \in RefreshState /\ refresh'.pc = "steps"
    BY <1>3, <2>1 DEF RefreshState
  <2>4. snapshot' \in 0..Versions
    BY <1>2, <2>1
  <2>5. ~handle["refresh"].orphan
    BY <1>2, <1>4, <2>2 DEF RefreshGoesWell
  <2>6. RefreshGoesWell' /\ SuccessMeansRefreshed'
    BY <2>2, <2>3, <2>5 DEF RefreshGoesWell, SuccessMeansRefreshed, SealedIsRefreshed
  <2> QED
    BY <1>2, <2>2, <2>3, <2>4, <2>6
<1>7. CASE Ingest
  <2>1. /\ UNCHANGED <<snapshot, file, handle, manifest, exit, displaced>>
        /\ refresh.pc = "steps" /\ database' \in {database, snapshot}
        /\ \/ refresh' = [refresh EXCEPT !.pc = "ratings"]
           \/ refresh' = [refresh EXCEPT !.pc = "ratings", !.code = "1"]
    BY <1>7 DEF Ingest, history
  <2>2. refresh' \in RefreshState /\ refresh'.pc = "ratings"
    BY <1>2, <2>1 DEF RefreshState
  <2>3. RefreshGoesWell' /\ SuccessMeansRefreshed'
    BY <1>4, <2>1, <2>2 DEF RefreshGoesWell, SuccessMeansRefreshed, SealedIsRefreshed
  <2> QED
    BY <1>2, <2>1, <2>2, <2>3
<1>8. CASE WalkForwardFails
  <2>1. /\ UNCHANGED <<snapshot, database, manifest, exit, displaced>>
        /\ refresh.pc \in {"ratings", "writing"} /\ GivenUp("refresh")
        /\ refresh' = [refresh EXCEPT !.pc = "check", !.code = "1"]
    BY <1>8 DEF WalkForwardFails, history
  <2>2. refresh' \in RefreshState /\ refresh'.pc = "check" /\ refresh'.code = "1"
    BY <1>2, <2>1 DEF RefreshState
  <2>3. /\ handle' \in [Writers -> Handle] /\ handle'["refresh"] = Closed
        /\ file' = file \/ file' = Torn
    BY <1>2, <2>1, GivenUpForm
  <2>4. RefreshGoesWell' /\ SuccessMeansRefreshed'
    BY <1>3, <1>4, <2>1, <2>2, <2>3
       DEF RefreshGoesWell, SuccessMeansRefreshed, SealedIsRefreshed
  <2> QED
    BY <1>2, <1>3, <2>1, <2>2, <2>3, <2>4
<1>9. CASE CheckRatings
  <2>1. UNCHANGED <<snapshot, database, file, handle, manifest, displaced>> /\ refresh.pc = "check"
    BY <1>9 DEF CheckRatings, history
  <2>2. CASE RatingsValid
    <3>1. refresh' = [refresh EXCEPT !.pc = "hash"] /\ UNCHANGED exit
      BY <1>9, <2>2 DEF CheckRatings
    <3>2. refresh' \in RefreshState /\ refresh'.pc = "hash" /\ refresh'.code = refresh.code
      BY <1>2, <3>1 DEF RefreshState
    <3>3. RefreshGoesWell' /\ SuccessMeansRefreshed'
      BY <1>2, <1>4, <2>1, <3>1, <3>2
         DEF RefreshGoesWell, SuccessMeansRefreshed, SealedIsRefreshed, IsOfVersion
    <3> QED
      BY <1>2, <2>1, <3>1, <3>2, <3>3
  <2>3. CASE ~RatingsValid
    <3>1. refresh' = RefreshAtRest /\ exit' = "1"
      BY <1>9, <2>3 DEF CheckRatings
    <3>2. RefreshGoesWell' /\ SuccessMeansRefreshed'
      BY <1>2, <1>3, <1>4, <2>1, <3>1
         DEF RefreshGoesWell, SuccessMeansRefreshed, SealedIsRefreshed
    <3> QED
      BY <1>2, <1>3, <2>1, <3>1, <3>2
  <2> QED
    BY <2>2, <2>3
<1>10. CASE HashRatings
  <2>1. /\ UNCHANGED <<snapshot, database, file, handle, manifest, exit, displaced>>
        /\ refresh.pc = "hash"
        /\ refresh' = [refresh EXCEPT !.pc = "manifest", !.sealed = Basis(file.table)]
    BY <1>10 DEF HashRatings, history
  <2>2. /\ Basis(file.table) \in Bases
        /\ IsOfVersion(file.table, database) => IsOfVersion(Basis(file.table), database)
    BY <1>2, BasisForm
  <2>3. /\ refresh' \in RefreshState /\ refresh'.pc = "manifest" /\ refresh'.code = refresh.code
        /\ refresh'.sealed = Basis(file.table)
    BY <1>2, <2>1, <2>2 DEF RefreshState
  <2>4. RefreshGoesWell'
    <3>1. refresh.code # "1" /\ ~displaced => IsOfVersion(Basis(file.table), database)
      BY <1>4, <2>1, <2>2 DEF RefreshGoesWell
    <3>2. ~handle["refresh"].open /\ ~handle["refresh"].orphan /\ exit = "none"
      BY <1>2, <1>4, <2>1 DEF RefreshGoesWell
    <3> QED
      BY <2>1, <2>3, <3>1, <3>2 DEF RefreshGoesWell, IsOfVersion
  <2>5. SuccessMeansRefreshed'
    BY <1>4, <2>1 DEF SuccessMeansRefreshed, SealedIsRefreshed, IsOfVersion
  <2> QED
    BY <1>2, <2>1, <2>3, <2>4, <2>5
<1>11. CASE PublishManifest
  <2>1. PICK ok \in BOOLEAN :
          /\ manifest' = IF ok THEN [ratings |-> refresh.sealed, database |-> database] ELSE manifest
          /\ exit' = IF ok THEN refresh.code ELSE "1"
    BY <1>11 DEF PublishManifest
  <2>2. /\ UNCHANGED <<snapshot, database, file, handle, displaced>>
        /\ refresh.pc = "manifest" /\ refresh' = RefreshAtRest
    BY <1>11 DEF PublishManifest, history
  <2>3. RefreshGoesWell'
    BY <1>2, <1>3, <1>4, <2>2 DEF RefreshGoesWell
  <2>4. refresh.sealed \in Bases /\ refresh.code \in {"0", "10", "1"}
    BY <1>2 DEF RefreshState
  <2>5. CASE ok
    <3>1. manifest' = [ratings |-> refresh.sealed, database |-> database] /\ exit' = refresh.code
      BY <2>1, <2>5
    <3>2. SuccessMeansRefreshed'
      BY <1>4, <2>2, <3>1 DEF RefreshGoesWell, SuccessMeansRefreshed, SealedIsRefreshed, IsOfVersion
    <3> QED
      BY <1>2, <1>3, <2>2, <2>3, <2>4, <3>1, <3>2
  <2>6. CASE ~ok
    <3>1. manifest' = manifest /\ exit' = "1"
      BY <2>1, <2>6
    <3>2. SuccessMeansRefreshed'
      BY <3>1 DEF SuccessMeansRefreshed, SealedIsRefreshed
    <3> QED
      BY <1>2, <1>3, <2>2, <2>3, <3>1, <3>2
  <2> QED
    BY <2>5, <2>6
<1>12. CASE RefreshDies
  <2>1. /\ UNCHANGED <<snapshot, database, manifest, exit, displaced>>
        /\ refresh' = RefreshAtRest /\ GivenUp("refresh")
    BY <1>12 DEF RefreshDies, history
  <2>2. /\ handle' \in [Writers -> Handle] /\ handle'["refresh"] = Closed
        /\ file' = file \/ file' = Torn
    BY <1>2, <2>1, GivenUpForm
  <2>3. RefreshGoesWell' /\ SuccessMeansRefreshed'
    BY <1>3, <1>4, <2>1, <2>2 DEF RefreshGoesWell, SuccessMeansRefreshed, SealedIsRefreshed
  <2> QED
    BY <1>2, <1>3, <2>1, <2>2, <2>3
<1> QED
  BY <1>6, <1>7, <1>8, <1>9, <1>10, <1>11, <1>12

\* Every step keeps the invariants of the ratings file.
LEMMA RatingsStepIInv == RatingsIInv /\ [RatingsNext]_ratingsVars => RatingsIInv'
<1> SUFFICES ASSUME RatingsIInv, [RatingsNext]_ratingsVars PROVE RatingsIInv'
  OBVIOUS
<1>1. ASSUME NEW m \in Sessions, LoadModel(m) \/ SessionEnds(m) PROVE RatingsIInv'
  BY <1>1, LoadSteps
<1>2. ASSUME NEW m \in Sessions, NEW u \in Updates, UpdateReads(m, u) PROVE RatingsIInv'
  BY <1>2, ReadSteps
<1>3. ASSUME NEW m \in Sessions, UpdateReplaces(m) PROVE RatingsIInv'
  BY <1>3, ReplaceSteps
<1>4. ASSUME NEW m \in Sessions, UpdateReturns(m) PROVE RatingsIInv'
  BY <1>4, ReturnSteps
<1>5. ASSUME NEW m \in Sessions, UpdateFails(m) PROVE RatingsIInv'
  BY <1>5, FailSteps
<1>6. CASE BacktestOpens \/ BacktestWrites \/ BacktestFails
  BY <1>6, BacktestSteps
<1>7. CASE WalkForwardOpens \/ WalkForwardWrites
  BY <1>7, WalkForwardSteps
<1>8. CASE \/ Download \/ Ingest \/ WalkForwardFails \/ CheckRatings \/ HashRatings
           \/ PublishManifest \/ RefreshDies
  BY <1>8, RefreshSteps
<1>9. CASE IngestJob
  <2>1. /\ UNCHANGED <<database, file, handle, fileLock, session, refresh, manifest, exit>>
        /\ UNCHANGED <<done, recent, failed, displaced>>
    BY <1>9 DEF IngestJob, history
  <2>2. snapshot' \in 0..Versions
    BY <1>9, RatingsAssumption DEF IngestJob, RatingsIInv, UpdatesIInv, RatingsTypeOK
  <2> QED
    BY <2>1, <2>2 DEF RatingsIInv, UpdatesIInv, RefreshIInv, RatingsTypeOK, NewIsUnapplied,
                Changed, LockedHasRecent, EachUpdateCountsOnce, RatedIsAlive, RefreshGoesWell,
                SuccessMeansRefreshed, SealedIsRefreshed, IsOfVersion
<1>10. CASE UNCHANGED ratingsVars
  <2>1. /\ UNCHANGED <<snapshot, database, file, handle, fileLock, session, refresh, manifest>>
        /\ UNCHANGED <<exit, done, recent, failed, displaced>>
    BY <1>10 DEF ratingsVars, history
  <2> QED
    BY <2>1 DEF RatingsIInv, UpdatesIInv, RefreshIInv, RatingsTypeOK, NewIsUnapplied,
                Changed, LockedHasRecent, EachUpdateCountsOnce, RatedIsAlive, RefreshGoesWell,
                SuccessMeansRefreshed, SealedIsRefreshed, IsOfVersion
<1> QED
  BY <1>1, <1>2, <1>3, <1>4, <1>5, <1>6, <1>7, <1>8, <1>9, <1>10 DEF RatingsNext

\* The file, the sessions, the regenerations and the refresh agree at every
\* moment.
THEOREM RatingsInvariant == RatingsSpec => []RatingsIInv
<1> QED
  BY RatingsInitIInv, RatingsStepIInv, PTL DEF RatingsSpec

\* The file, who has it open, the sessions, the refresh and the manifest keep
\* their types.
THEOREM RatingsTypeCorrect == RatingsSpec => []RatingsTypeOK
<1>1. RatingsIInv => RatingsTypeOK
  BY DEF RatingsIInv, UpdatesIInv
<1> QED
  BY <1>1, RatingsInvariant, PTL

\* Sessions that loaded the ratings at any times, and two regenerations that
\* take no lock, lose no update that returned and count none twice, but those
\* of a call that ended before it returned.
THEOREM UpdatesCountOnce == RatingsSpec => []EachUpdateCountsOnce
<1>1. RatingsIInv => EachUpdateCountsOnce
  BY DEF RatingsIInv, UpdatesIInv
<1> QED
  BY <1>1, RatingsInvariant, PTL

\* A refresh whose ratings no other writer displaced before their hash reports
\* success only with ratings of the database it names in its manifest.
THEOREM SuccessIsRefreshed == RatingsSpec => []SuccessMeansRefreshed
<1>1. RatingsIInv => SuccessMeansRefreshed
  BY DEF RatingsIInv, RefreshIInv
<1> QED
  BY <1>1, RatingsInvariant, PTL

-----------------------------------------------------------------------------
(* The log of paper bets.                                                  *)

\* What is written into the log lengthens it by a line at most, and a
\* settlement in it is one that was there or the row itself, in a new line.
LEMMA AppendedLog ==
    ASSUME bets \in Seq(LogRow), NEW row \in LogRow, NEW log, log = Appended(row)
    PROVE  /\ log \in Seq(LogRow) /\ Len(bets) <= Len(log) /\ Len(log) <= Len(bets) + 1
           /\ \A i \in DOMAIN log : log[i].kind = "settlement" =>
                \/ i \in DOMAIN bets /\ log[i] = bets[i]
                \/ i = Len(bets) + 1 /\ log[i] = row
<1>1. Len(bets) \in Nat /\ DOMAIN bets = 1..Len(bets) /\ \A i \in DOMAIN bets : bets[i] \in LogRow
  OBVIOUS
<1>2. CASE bets # <<>> /\ bets[Len(bets)].kind = "torn"
  <2> DEFINE n == Len(bets)
             torn == [bets[n] EXCEPT !.kind = IF row.kind = "torn" THEN "torn" ELSE "glued"]
  <2>1. n \in DOMAIN bets /\ bets[n] \in LogRow
    BY <1>1, <1>2
  <2>2. torn \in LogRow /\ torn.kind # "settlement"
    BY <2>1 DEF LogRow
  <2>3. log = [bets EXCEPT ![n] = torn]
    BY <1>2, <2>1 DEF Appended
  <2> HIDE DEF torn
  <2>4. log \in Seq(LogRow) /\ Len(log) = Len(bets)
    BY <2>1, <2>2, <2>3
  <2>5. \A i \in DOMAIN log : i \in DOMAIN bets /\ log[i] = IF i = n THEN torn ELSE bets[i]
    BY <2>3
  <2> QED
    BY <1>1, <2>2, <2>4, <2>5
<1>3. CASE ~(bets # <<>> /\ bets[Len(bets)].kind = "torn")
  <2>1. log = Append(bets, row)
    BY <1>3 DEF Appended
  <2> QED
    BY <1>1, <2>1
<1> QED
  BY <1>2, <1>3

\* A row with which the invariant lives on: a settlement is of a call that had
\* read the log before any settlement of the bet.
LEMMA LogSteps ==
    ASSUME BetsIInv, NEW row \in LogRow, Room, bets' = Appended(row),
           row.kind = "settlement" => \A i \in Settlements(row.bet) : row.read < i,
           settler' = settler \/ \E s \in Settlers : settler' = [settler EXCEPT ![s] = AtRest]
    PROVE  BetsIInv'
<1>1. /\ bets \in Seq(LogRow) /\ Len(bets) \in Nat /\ Len(bets) < MaxRows
      /\ settler \in [Settlers -> [pc: {"idle", "append"}, bet: SUBSET Bets, won: BOOLEAN,
                                   read: 0..MaxRows]]
  BY DEF BetsIInv, BetsTypeOK, Room
<1>2. /\ bets' \in Seq(LogRow) /\ Len(bets) <= Len(bets') /\ Len(bets') <= Len(bets) + 1
      /\ \A i \in DOMAIN bets' : bets'[i].kind = "settlement" =>
            \/ i \in DOMAIN bets /\ bets'[i] = bets[i]
            \/ i = Len(bets) + 1 /\ bets'[i] = row
  BY <1>1, AppendedLog
<1>3. AtRest \in [pc: {"idle", "append"}, bet: SUBSET Bets, won: BOOLEAN, read: 0..MaxRows]
      /\ AtRest.pc = "idle"
  BY RowsAssumption DEF AtRest
<1>4. \A s \in Settlers : settler'[s] = settler[s] \/ settler'[s].pc = "idle"
  BY <1>1, <1>3
<1>5. BetsTypeOK'
  <2>1. Len(bets') <= MaxRows
    BY <1>1, <1>2, RowsAssumption
  <2> QED
    BY <1>1, <1>2, <1>3, <2>1 DEF BetsTypeOK
<1>6. ReadIsUnsettled'
  <2>1. SUFFICES ASSUME NEW s \in Settlers, settler'[s].pc = "append"
                 PROVE  /\ settler'[s].read <= Len(bets')
                        /\ \A b \in settler'[s].bet : \A i \in Settlements(b)' :
                            settler'[s].read < i
    BY DEF ReadIsUnsettled
  <2>2. /\ settler'[s] = settler[s] /\ settler[s].read \in Nat /\ settler[s].read <= Len(bets)
        /\ \A b \in settler[s].bet : \A i \in Settlements(b) : settler[s].read < i
    BY <1>1, <1>4, <2>1 DEF BetsIInv, ReadIsUnsettled
  <2>3. ASSUME NEW b \in settler[s].bet, NEW i \in Settlements(b)'
        PROVE  settler[s].read < i
    <3>1. i \in Settlements(b) \/ i = Len(bets) + 1
      BY <1>2 DEF Settlements
    <3> QED
      BY <1>1, <2>2, <3>1
  <2>4. settler[s].read <= Len(bets')
    BY <1>1, <1>2, <2>2
  <2> QED
    BY <2>2, <2>3, <2>4
<1>7. SettledTwiceOnlyByOverlap'
  <2>1. SUFFICES ASSUME NEW i \in DOMAIN bets', NEW j \in DOMAIN bets',
                        i < j, bets'[i].bet = bets'[j].bet,
                        bets'[i].kind = "settlement", bets'[j].kind = "settlement"
                 PROVE  bets'[j].read < i
    BY DEF SettledTwiceOnlyByOverlap
  <2>2. j <= Len(bets) + 1 /\ i \in Nat /\ j \in Nat
    BY <1>1, <1>2
  <2>3. i \in DOMAIN bets /\ bets'[i] = bets[i]
    BY <1>1, <1>2, <2>1, <2>2
  <2>4. CASE j \in DOMAIN bets /\ bets'[j] = bets[j]
    BY <2>1, <2>3, <2>4 DEF BetsIInv, SettledTwiceOnlyByOverlap
  <2>5. CASE j = Len(bets) + 1 /\ bets'[j] = row
    <3>1. i \in Settlements(row.bet)
      BY <2>1, <2>3, <2>5 DEF Settlements
    <3> QED
      BY <2>1, <2>5, <3>1
  <2> QED
    BY <1>2, <2>1, <2>4, <2>5
<1> QED
  BY <1>5, <1>6, <1>7 DEF BetsIInv

\* Every step keeps the invariant of the log.
LEMMA BetsStepIInv == BetsIInv /\ [BetsNext]_betsVars => BetsIInv'
<1> SUFFICES ASSUME BetsIInv, [BetsNext]_betsVars PROVE BetsIInv'
  OBVIOUS
<1>1. /\ bets \in Seq(LogRow) /\ Len(bets) \in Nat /\ Len(bets) <= MaxRows
      /\ settler \in [Settlers -> [pc: {"idle", "append"}, bet: SUBSET Bets, won: BOOLEAN,
                                   read: 0..MaxRows]]
  BY DEF BetsIInv, BetsTypeOK
<1>2. \A k \in {"bet", "torn"}, b \in Bets :
        [kind |-> k, bet |-> b, won |-> FALSE, read |-> 0] \in LogRow
  BY RowsAssumption DEF LogRow
<1>3. CASE RecordBet
  <2>1. PICK b \in Bets : bets' = Appended([kind |-> "bet", bet |-> b, won |-> FALSE, read |-> 0])
    BY <1>3 DEF RecordBet
  <2>2. Room /\ settler' = settler
    BY <1>3 DEF RecordBet
  <2> QED
    BY <1>2, <2>1, <2>2, LogSteps
<1>4. CASE AppendIsCut
  <2>1. PICK b \in Bets : bets' = Appended([kind |-> "torn", bet |-> b, won |-> FALSE, read |-> 0])
    BY <1>4 DEF AppendIsCut
  <2>2. Room /\ (settler' = settler \/ \E s \in Settlers : settler' = [settler EXCEPT ![s] = AtRest])
    BY <1>4 DEF AppendIsCut
  <2> QED
    BY <1>2, <2>1, <2>2, LogSteps
<1>5. ASSUME NEW s \in Settlers, AppendSettlement(s) PROVE BetsIInv'
  <2>1. PICK b \in settler[s].bet :
          bets' = Appended([kind |-> "settlement", bet |-> b, won |-> settler[s].won,
                            read |-> settler[s].read])
    BY <1>5 DEF AppendSettlement
  <2>2. Room /\ settler' = [settler EXCEPT ![s] = AtRest] /\ settler[s].pc = "append"
    BY <1>5 DEF AppendSettlement
  <2> DEFINE row == [kind |-> "settlement", bet |-> b, won |-> settler[s].won,
                     read |-> settler[s].read]
  <2>3. row \in LogRow
    BY <1>1, <2>1 DEF LogRow
  <2>4. \A i \in Settlements(row.bet) : row.read < i
    BY <2>1, <2>2 DEF BetsIInv, ReadIsUnsettled
  <2> HIDE DEF row
  <2>5. bets' = Appended(row)
    BY <2>1 DEF row
  <2> QED
    BY <2>2, <2>3, <2>4, <2>5, LogSteps
<1>6. ASSUME NEW s \in Settlers, NEW b \in Bets, SettleBet(s, b) PROVE BetsIInv'
  <2>1. PICK won \in BOOLEAN :
          settler' = [settler EXCEPT ![s] =
            [pc |-> "append", bet |-> {b}, won |-> won, read |-> Len(bets)]]
    BY <1>6 DEF SettleBet
  <2>2. Settlements(b) = {} /\ bets' = bets
    BY <1>6 DEF SettleBet
  <2>3. Len(bets) \in 0..MaxRows
    BY <1>1, RowsAssumption
  <2>4. BetsTypeOK'
    BY <1>1, <2>1, <2>2, <2>3 DEF BetsTypeOK
  <2>5. \A q \in Settlers : settler'[q] =
          IF q = s THEN [pc |-> "append", bet |-> {b}, won |-> won, read |-> Len(bets)]
          ELSE settler[q]
    BY <1>1, <2>1
  <2>6. ReadIsUnsettled'
    BY <1>1, <2>2, <2>5 DEF BetsIInv, ReadIsUnsettled, Settlements
  <2>7. SettledTwiceOnlyByOverlap'
    BY <2>2 DEF BetsIInv, SettledTwiceOnlyByOverlap
  <2> QED
    BY <2>4, <2>6, <2>7 DEF BetsIInv
<1>7. CASE UNCHANGED betsVars
  BY <1>7 DEF betsVars, BetsIInv, BetsTypeOK, ReadIsUnsettled, Settlements,
              SettledTwiceOnlyByOverlap
<1> QED
  BY <1>3, <1>4, <1>5, <1>6, <1>7 DEF BetsNext

\* An empty log and no call.
LEMMA BetsInitIInv == BetsInit => BetsIInv
<1> SUFFICES ASSUME BetsInit PROVE BetsIInv
  OBVIOUS
<1>1. bets = <<>> /\ bets \in Seq(LogRow) /\ Len(bets) = 0 /\ DOMAIN bets = {}
  BY DEF BetsInit
<1>2. settler = [s \in Settlers |-> AtRest] /\ AtRest.pc = "idle"
      /\ AtRest \in [pc: {"idle", "append"}, bet: SUBSET Bets, won: BOOLEAN, read: 0..MaxRows]
  BY RowsAssumption DEF BetsInit, AtRest
<1> QED
  BY <1>1, <1>2, RowsAssumption DEF BetsIInv, BetsTypeOK, ReadIsUnsettled,
                                    SettledTwiceOnlyByOverlap

\* The calls about to append agree with the log at every moment.
THEOREM BetsInvariant == BetsSpec => []BetsIInv
<1> QED
  BY BetsInitIInv, BetsStepIInv, PTL DEF BetsSpec

\* The log and the calls keep their types.
THEOREM BetsTypeCorrect == BetsSpec => []BetsTypeOK
<1>1. BetsIInv => BetsTypeOK
  BY DEF BetsIInv
<1> QED
  BY <1>1, BetsInvariant, PTL

\* However many calls settle a bet, and wherever they die, only calls that
\* overlapped settle it twice.
THEOREM OnlyOverlapSettlesTwice == BetsSpec => []SettledTwiceOnlyByOverlap
<1>1. BetsIInv => SettledTwiceOnlyByOverlap
  BY DEF BetsIInv
<1> QED
  BY <1>1, BetsInvariant, PTL

-----------------------------------------------------------------------------
(* The holdout.                                                            *)

\* What a run at rest holds.
LEMMA NoRunForm ==
    /\ NoRun \in RunState /\ NoRun.pc = "idle" /\ NoRun.at = 0
    /\ NoRun.events = {} /\ NoRun.left = {} /\ NoRun.event = {} /\ NoRun.quotes = {}
    /\ NoRun.errors = {}
  BY HoldoutAssumption DEF NoRun, RunState, Hours

\* A run that takes a step of its own, keeping to what it listed and when it
\* began, while the other files only grow.
LEMMA OwnRun ==
    ASSUME HoldoutIInv, NEW r \in Runs, NEW l \in RunState, run' = [run EXCEPT ![r] = l],
           UNCHANGED <<clock, payload, latest>>, copies \subseteq copies', copies' \subseteq Payloads,
           captures \subseteq captures', captures' \subseteq Capture,
           l.at <= clock, l.left \subseteq l.events, l.quotes \subseteq l.events,
           QuotesAndErrors(l),
           l.pc \in {"idle", "copy", "discover"} => l.events = {},
           l.pc \notin {"idle", "copy"} => l.source \subseteq copies',
           l.pc \in {"next", "books"} <=> l.left # {},
           l.pc = "books" <=> l.event # {},
           \A read \in l.event : read[1] \in l.left,
           l.pc = "pointer" =>
                [at |-> l.at, source |-> l.source, events |-> l.events, quotes |-> l.quotes,
                 errors |-> l.errors] \in captures'
    PROVE  HoldoutIInv'
<1>1. \A q \in Runs : run'[q] = IF q = r THEN l ELSE run[q]
  BY DEF HoldoutIInv, HoldoutTypeOK
<1>2. HoldoutTypeOK'
  BY <1>1 DEF HoldoutIInv, HoldoutTypeOK
<1>3. RunLocals'
  <2>1. SUFFICES ASSUME NEW q \in Runs
                 PROVE  /\ QuotesAndErrors(run'[q])
                        /\ run'[q].pc \in {"idle", "copy", "discover"} => run'[q].events = {}
                        /\ run'[q].pc \notin {"idle", "copy"} => run'[q].source \subseteq copies'
                        /\ run'[q].pc \in {"next", "books"} <=> run'[q].left # {}
                        /\ run'[q].pc = "books" <=> run'[q].event # {}
                        /\ \A read \in run'[q].event : read[1] \in run'[q].left
                        /\ run'[q].pc = "pointer" => CaptureOf(q)' \in captures'
    BY DEF RunLocals, QuotesAndErrors
  <2>2. CASE q = r
    BY <1>1, <2>2 DEF CaptureOf
  <2>3. CASE q # r
    <3>1. run'[q] = run[q]
      BY <1>1, <2>3
    <3> QED
      BY <3>1 DEF HoldoutIInv, RunLocals, CaptureOf
  <2> QED
    BY <2>2, <2>3
<1>4. LatestIsComplete'
  BY DEF HoldoutIInv, LatestIsComplete
<1> QED
  BY <1>2, <1>3, <1>4 DEF HoldoutIInv

\* A run that begins, copies the payload, lists the matches or dies.
LEMMA ListingSteps ==
    ASSUME HoldoutIInv, NEW r \in Runs, Begin(r) \/ CopyPayload(r) \/ Discover(r) \/ RunDies(r)
    PROVE  HoldoutIInv'
<1>1. /\ run \in [Runs -> RunState] /\ run[r] \in RunState /\ clock \in Hours /\ clock \in Nat
      /\ payload \subseteq Payloads /\ copies \subseteq Payloads /\ captures \subseteq Capture
      /\ run[r].at <= clock /\ run[r].at \in Nat /\ run[r].source \subseteq Payloads
  BY HoldoutAssumption DEF HoldoutIInv, HoldoutTypeOK, Hours, RunState
<1>2. CASE Begin(r)
  <2> DEFINE l == [NoRun EXCEPT !.pc = IF payload = {} THEN "discover" ELSE "copy",
                                !.at = clock, !.source = payload]
  <2>1. run' = [run EXCEPT ![r] = l] /\ UNCHANGED <<clock, payload, copies, captures, latest>>
    BY <1>2 DEF Begin
  <2>2. /\ l \in RunState /\ l.at = clock /\ l.source = payload
        /\ l.pc = IF payload = {} THEN "discover" ELSE "copy"
        /\ l.events = {} /\ l.left = {} /\ l.event = {} /\ l.quotes = {} /\ l.errors = {}
    BY <1>1, NoRunForm DEF RunState
  <2> HIDE DEF l
  <2>3. QuotesAndErrors(l)
    BY <2>2 DEF QuotesAndErrors
  <2>4. /\ l.pc \in {"copy", "discover"}
        /\ l.pc \notin {"idle", "copy"} => l.source \subseteq copies
        /\ l.at <= clock
    BY <1>1, <2>2
  <2> QED
    BY <1>1, <2>1, <2>2, <2>3, <2>4, OwnRun
<1>3. CASE CopyPayload(r)
  <2> DEFINE l == [run[r] EXCEPT !.pc = "discover"]
  <2>1. /\ run[r].pc = "copy" /\ copies' = copies \union run[r].source
        /\ UNCHANGED <<clock, payload, captures, latest>>
        /\ run' = [run EXCEPT ![r] = l]
    BY <1>1, <1>3 DEF CopyPayload
  <2>2. /\ l \in RunState /\ l.pc = "discover" /\ l.at = run[r].at /\ l.source = run[r].source
        /\ l.events = run[r].events /\ l.left = run[r].left /\ l.event = run[r].event
        /\ l.quotes = run[r].quotes /\ l.errors = run[r].errors
    BY <1>1 DEF RunState
  <2> HIDE DEF l
  <2>3. /\ run[r].events = {} /\ run[r].left = {} /\ run[r].event = {}
        /\ run[r].quotes \subseteq run[r].events /\ QuotesAndErrors(run[r])
    BY <2>1 DEF HoldoutIInv, HoldoutTypeOK, RunLocals
  <2>4. QuotesAndErrors(l)
    BY <2>1, <2>2, <2>3 DEF QuotesAndErrors
  <2> QED
    BY <1>1, <2>1, <2>2, <2>3, <2>4, OwnRun
<1>4. CASE Discover(r)
  <2>1. /\ run[r].pc = "discover" /\ UNCHANGED <<clock, payload, copies, captures, latest>>
    BY <1>4 DEF Discover
  <2>2. /\ run[r].events = {} /\ run[r].left = {} /\ run[r].event = {} /\ run[r].quotes = {}
        /\ run[r].source \subseteq copies /\ run[r].errors = {}
    BY <2>1 DEF HoldoutIInv, HoldoutTypeOK, RunLocals, QuotesAndErrors
  <2>3. ASSUME NEW found \in SUBSET Fixtures,
               run' = [run EXCEPT ![r].pc = IF found = {} THEN "capture" ELSE "next",
                                  ![r].events = found, ![r].left = found]
        PROVE  HoldoutIInv'
    <3> DEFINE l == [run[r] EXCEPT !.pc = IF found = {} THEN "capture" ELSE "next",
                                   !.events = found, !.left = found]
    <3>1. run' = [run EXCEPT ![r] = l]
      BY <1>1, <2>3
    <3>2. /\ l \in RunState /\ l.at = run[r].at /\ l.source = run[r].source
          /\ l.pc = IF found = {} THEN "capture" ELSE "next"
          /\ l.events = found /\ l.left = found /\ l.event = run[r].event
          /\ l.quotes = run[r].quotes /\ l.errors = run[r].errors
      BY <1>1 DEF RunState
    <3> HIDE DEF l
    <3>3. QuotesAndErrors(l)
      BY <2>2, <3>2 DEF QuotesAndErrors
    <3> QED
      BY <1>1, <2>1, <2>2, <3>1, <3>2, <3>3, OwnRun
  <2>4. ASSUME run' = [run EXCEPT ![r].pc = "capture", ![r].errors = {"DISCOVERY"}]
        PROVE  HoldoutIInv'
    <3> DEFINE l == [run[r] EXCEPT !.pc = "capture", !.errors = {"DISCOVERY"}]
    <3>1. run' = [run EXCEPT ![r] = l]
      BY <1>1, <2>4
    <3>2. /\ l \in RunState /\ l.at = run[r].at /\ l.source = run[r].source
          /\ l.pc = "capture" /\ l.errors = {"DISCOVERY"}
          /\ l.events = run[r].events /\ l.left = run[r].left /\ l.event = run[r].event
          /\ l.quotes = run[r].quotes
      BY <1>1 DEF RunState
    <3> HIDE DEF l
    <3>3. QuotesAndErrors(l)
      BY <2>2, <3>2 DEF QuotesAndErrors
    <3> QED
      BY <1>1, <2>1, <2>2, <3>1, <3>2, <3>3, OwnRun
  <2> QED
    BY <1>4, <2>3, <2>4 DEF Discover, ListUpcomingMatches
<1>5. CASE RunDies(r)
  <2>1. run' = [run EXCEPT ![r] = NoRun] /\ UNCHANGED <<clock, payload, copies, captures, latest>>
    BY <1>5 DEF RunDies
  <2>2. QuotesAndErrors(NoRun)
    BY NoRunForm DEF QuotesAndErrors
  <2> DEFINE l == NoRun
  <2>3. /\ l \in RunState /\ l.pc = "idle" /\ l.at <= clock /\ QuotesAndErrors(l)
        /\ l.events = {} /\ l.left = {} /\ l.event = {} /\ l.quotes = {}
    BY <1>1, <2>2, NoRunForm
  <2>4. run' = [run EXCEPT ![r] = l]
    BY <2>1
  <2> HIDE DEF l
  <2> QED
    BY <1>1, <2>1, <2>3, <2>4, OwnRun
<1> QED
  BY <1>2, <1>3, <1>4, <1>5

\* A run that reads the market and writes its capture.
LEMMA ReadingSteps ==
    ASSUME HoldoutIInv, NEW r \in Runs, ReadEvent(r) \/ ReadBooks(r) \/ WriteCapture(r)
    PROVE  HoldoutIInv'
<1>1. /\ run \in [Runs -> RunState] /\ run[r] \in RunState
      /\ copies \subseteq Payloads /\ captures \subseteq Capture /\ run[r].at <= clock
      /\ run[r].left \subseteq run[r].events /\ run[r].quotes \subseteq run[r].events
  BY DEF HoldoutIInv, HoldoutTypeOK
<1>2. /\ QuotesAndErrors(run[r])
      /\ run[r].pc \notin {"idle", "copy"} => run[r].source \subseteq copies
      /\ run[r].pc \in {"next", "books"} <=> run[r].left # {}
      /\ run[r].pc = "books" <=> run[r].event # {}
      /\ \A read \in run[r].event : read[1] \in run[r].left
  BY DEF HoldoutIInv, RunLocals
<1>3. ASSUME NEW e \in run[r].left, NEW q, NEW d, {q, d} = {{}, {e}},
             run' = [run EXCEPT ![r] = Done(run[r], e, q, d)],
             UNCHANGED <<clock, payload, copies, captures, latest>>
      PROVE  HoldoutIInv'
  <2> DEFINE l == Done(run[r], e, q, d)
  <2>1. /\ l \in RunState /\ QuotesAndErrors(l)
        /\ l.pc = IF l.left = {} THEN "capture" ELSE "next"
        /\ l.left \subseteq l.events /\ l.quotes \subseteq l.events /\ l.event = {}
        /\ l.at = run[r].at /\ l.source = run[r].source
    <3> DEFINE s == run[r]
    <3>1. /\ s \in RunState /\ QuotesAndErrors(s) /\ s.pc \in {"next", "books"}
          /\ s.left \subseteq s.events /\ s.quotes \subseteq s.events
          /\ e \in s.left /\ {q, d} = {{}, {e}} /\ l = Done(s, e, q, d)
      BY <1>1, <1>2, <1>3
    <3> HIDE DEF s, l
    <3>2. /\ l \in RunState /\ QuotesAndErrors(l)
          /\ l.pc = IF l.left = {} THEN "capture" ELSE "next"
          /\ l.left \subseteq l.events /\ l.quotes \subseteq l.events /\ l.event = {}
          /\ l.at = s.at /\ l.source = s.source
      <4>1. /\ s.left \subseteq Fixtures /\ s.quotes \subseteq Fixtures
            /\ s.errors \subseteq Fixtures /\ s.events \subseteq Fixtures
            /\ s.events \ s.left = s.quotes \union s.errors /\ s.quotes \intersect s.errors = {}
        BY <3>1 DEF QuotesAndErrors, RunState
      <4>2. \/ q = {} /\ d = {e}
            \/ q = {e} /\ d = {}
        BY <3>1
      <4>3. /\ l.pc = IF s.left = {e} THEN "capture" ELSE "next"
            /\ l.left = s.left \ {e} /\ l.event = {} /\ l.quotes = s.quotes \union q
            /\ l.errors = s.errors \union d /\ l.events = s.events
            /\ l.at = s.at /\ l.source = s.source
        BY <3>1 DEF Done, RunState
      <4>4. l \in RunState
        <5>1. /\ s.left \ {e} \subseteq Fixtures /\ s.quotes \union q \subseteq Fixtures
              /\ s.errors \union d \subseteq Fixtures \union {"DISCOVERY"}
          BY <3>1, <4>1, <4>2
        <5> QED
          BY <3>1, <5>1 DEF Done, RunState
      <4>5. QuotesAndErrors(l)
        BY <3>1, <4>1, <4>2, <4>3 DEF QuotesAndErrors
      <4>6. l.pc = IF l.left = {} THEN "capture" ELSE "next"
        BY <3>1, <4>3
      <4> QED
        BY <3>1, <4>1, <4>2, <4>3, <4>4, <4>5, <4>6
    <3> QED
      BY <3>2 DEF s
  <2>2. run' = [run EXCEPT ![r] = l]
    BY <1>3
  <2> HIDE DEF l
  <2>3. run[r].pc \in {"next", "books"}
    BY <1>2, <1>3
  <2> QED
    BY <1>1, <1>2, <1>3, <2>1, <2>2, <2>3, OwnRun
<1>4. CASE ReadEvent(r)
  <2>1. run[r].pc = "next" /\ UNCHANGED <<clock, payload, copies, captures, latest>>
    BY <1>4 DEF ReadEvent
  <2>2. ASSUME NEW e \in run[r].left, NEW start \in Starts,
               run' = [run EXCEPT ![r].pc = "books", ![r].event = {<<e, start>>}]
        PROVE  HoldoutIInv'
    <3> DEFINE l == [run[r] EXCEPT !.pc = "books", !.event = {<<e, start>>}]
    <3>1. run' = [run EXCEPT ![r] = l]
      BY <1>1, <2>2
    <3>2. {<<e, start>>} \in SUBSET (Fixtures \X Starts)
      BY <1>1, <2>2 DEF RunState
    <3>3. /\ l \in RunState /\ l.pc = "books" /\ l.event = {<<e, start>>}
          /\ l.at = run[r].at /\ l.source = run[r].source /\ l.events = run[r].events
          /\ l.left = run[r].left /\ l.quotes = run[r].quotes /\ l.errors = run[r].errors
      BY <1>1, <3>2 DEF RunState
    <3> HIDE DEF l
    <3>4. QuotesAndErrors(l)
      BY <1>2, <2>1, <3>3 DEF QuotesAndErrors
    <3>5. \A read \in l.event : read[1] \in l.left
      BY <2>2, <3>3
    <3> QED
      BY <1>1, <1>2, <2>1, <3>1, <3>3, <3>4, <3>5, OwnRun
  <2>3. PICK e \in run[r].left :
          \/ \E start \in Starts :
              run' = [run EXCEPT ![r].pc = "books", ![r].event = {<<e, start>>}]
          \/ run' = [run EXCEPT ![r] = Done(run[r], e, {}, {e})]
    BY <1>4 DEF ReadEvent
  <2>4. CASE run' = [run EXCEPT ![r] = Done(run[r], e, {}, {e})]
    BY <1>3, <2>1, <2>4
  <2> QED
    BY <2>2, <2>3, <2>4
<1>5. CASE ReadBooks(r)
  <2>1. UNCHANGED <<clock, payload, copies, captures, latest>>
    BY <1>5 DEF ReadBooks
  <2>2. PICK read \in run[r].event :
          \/ run' = [run EXCEPT ![r] = Done(run[r], read[1], {read[1]}, {})]
          \/ run' = [run EXCEPT ![r] = Done(run[r], read[1], {}, {read[1]})]
    BY <1>5 DEF ReadBooks
  <2> DEFINE e == read[1]
  <2>3. e \in run[r].left
    BY <1>2
  <2>4. \/ run' = [run EXCEPT ![r] = Done(run[r], e, {e}, {})]
        \/ run' = [run EXCEPT ![r] = Done(run[r], e, {}, {e})]
    BY <2>2
  <2> HIDE DEF e
  <2>5. CASE run' = [run EXCEPT ![r] = Done(run[r], e, {e}, {})]
    <3>1. {{e}, {}} = {{}, {e}}
      OBVIOUS
    <3> QED
      BY <1>3, <2>1, <2>3, <2>5, <3>1
  <2>6. CASE run' = [run EXCEPT ![r] = Done(run[r], e, {}, {e})]
    BY <1>3, <2>1, <2>3, <2>6
  <2> QED
    BY <2>4, <2>5, <2>6
<1>6. CASE WriteCapture(r)
  <2> DEFINE l == [run[r] EXCEPT !.pc = "pointer"]
  <2>1. /\ run[r].pc = "capture" /\ UNCHANGED <<clock, payload, copies, latest>>
        /\ captures' = captures \union {CaptureOf(r)} /\ run' = [run EXCEPT ![r] = l]
    BY <1>1, <1>6 DEF WriteCapture
  <2>2. /\ l \in RunState /\ l.pc = "pointer" /\ l.at = run[r].at /\ l.source = run[r].source
        /\ l.events = run[r].events /\ l.left = run[r].left /\ l.event = run[r].event
        /\ l.quotes = run[r].quotes /\ l.errors = run[r].errors
    BY <1>1 DEF RunState
  <2> HIDE DEF l
  <2>3. QuotesAndErrors(l)
    BY <1>2, <2>1, <2>2 DEF QuotesAndErrors
  <2>4. /\ CaptureOf(r) \in Capture
        /\ CaptureOf(r) = [at |-> l.at, source |-> l.source, events |-> l.events,
                           quotes |-> l.quotes, errors |-> l.errors]
    BY <1>1, <2>2 DEF CaptureOf, Capture, RunState
  <2> QED
    BY <1>1, <1>2, <2>1, <2>2, <2>3, <2>4, OwnRun
<1> QED
  BY <1>4, <1>5, <1>6

\* The pointer is replaced and the run ends.
LEMMA PointerSteps ==
    ASSUME HoldoutIInv, NEW r \in Runs, ReplaceLatest(r)
    PROVE  HoldoutIInv'
<1> DEFINE c == CaptureOf(r)
           status == IF run[r].errors = {} THEN "COLLECTED" ELSE "DEGRADED"
<1>1. /\ run[r].pc = "pointer" /\ latest' = {[capture |-> c, status |-> status]}
      /\ UNCHANGED <<clock, payload, copies, captures>>
      /\ run' = [run EXCEPT ![r] = NoRun]
  BY DEF ReplaceLatest
<1>2. /\ run \in [Runs -> RunState] /\ captures \subseteq Capture
      /\ run[r].at <= clock
  BY DEF HoldoutIInv, HoldoutTypeOK
<1>3. /\ c \in captures /\ run[r].source \subseteq copies /\ run[r].left = {}
      /\ QuotesAndErrors(run[r]) /\ run[r].quotes \subseteq run[r].events
  BY <1>1 DEF HoldoutIInv, HoldoutTypeOK, RunLocals
<1>4. /\ c.at = run[r].at /\ c.source = run[r].source /\ c.events = run[r].events
      /\ c.quotes = run[r].quotes /\ c.errors = run[r].errors
  BY DEF CaptureOf
<1>5. \A q \in Runs : run'[q] = IF q = r THEN NoRun ELSE run[q]
  BY <1>1, <1>2
<1>6. HoldoutTypeOK'
  <2>1. run' \in [Runs -> RunState]
    BY <1>1, <1>2, NoRunForm
  <2>2. latest' \subseteq Pointer /\ \A p, q \in latest' : p = q
    BY <1>1, <1>2, <1>3 DEF Pointer
  <2>3. \A q \in Runs : /\ run'[q].at <= clock'
                        /\ run'[q].left \subseteq run'[q].events
                        /\ run'[q].quotes \subseteq run'[q].events
    <3>1. clock \in Nat
      BY HoldoutAssumption DEF HoldoutIInv, HoldoutTypeOK, Hours
    <3> QED
      BY <1>1, <1>5, <3>1, NoRunForm DEF HoldoutIInv, HoldoutTypeOK
  <2> QED
    BY <1>1, <2>1, <2>2, <2>3 DEF HoldoutIInv, HoldoutTypeOK
<1>7. RunLocals'
  <2>1. QuotesAndErrors(NoRun)
    BY NoRunForm DEF QuotesAndErrors
  <2>2. SUFFICES ASSUME NEW q \in Runs
                 PROVE  /\ QuotesAndErrors(run'[q])
                        /\ run'[q].pc \in {"idle", "copy", "discover"} => run'[q].events = {}
                        /\ run'[q].pc \notin {"idle", "copy"} => run'[q].source \subseteq copies'
                        /\ run'[q].pc \in {"next", "books"} <=> run'[q].left # {}
                        /\ run'[q].pc = "books" <=> run'[q].event # {}
                        /\ \A read \in run'[q].event : read[1] \in run'[q].left
                        /\ run'[q].pc = "pointer" => CaptureOf(q)' \in captures'
    BY DEF RunLocals, QuotesAndErrors
  <2>3. CASE q = r
    BY <1>5, <2>1, <2>3, NoRunForm
  <2>4. CASE q # r
    <3>1. run'[q] = run[q] /\ CaptureOf(q)' = CaptureOf(q)
      BY <1>5, <2>4 DEF CaptureOf
    <3> QED
      BY <1>1, <3>1 DEF HoldoutIInv, RunLocals
  <2> QED
    BY <2>3, <2>4
<1>8. LatestIsComplete'
  <2>1. /\ c.events \subseteq c.quotes \union c.errors /\ c.quotes \intersect c.errors = {}
        /\ status = "COLLECTED" <=> (c.errors = {} /\ c.quotes = c.events)
    BY <1>3, <1>4 DEF QuotesAndErrors
  <2> HIDE DEF c, status
  <2> QED
    BY <1>1, <1>3, <1>4, <2>1 DEF LatestIsComplete
<1> QED
  BY <1>6, <1>7, <1>8 DEF HoldoutIInv

\* Every step keeps the invariant of the holdout.
LEMMA HoldoutStepIInv == HoldoutIInv /\ [HoldoutNext]_holdoutVars => HoldoutIInv'
<1> SUFFICES ASSUME HoldoutIInv, [HoldoutNext]_holdoutVars PROVE HoldoutIInv'
  OBVIOUS
<1>1. CASE Tick \/ PublishSnapshot \/ UNCHANGED holdoutVars
  <2>1. UNCHANGED <<copies, captures, latest, run>>
    BY <1>1 DEF Tick, PublishSnapshot, holdoutVars
  <2>2. clock' \in Hours /\ clock \in Nat /\ clock' \in Nat /\ clock <= clock'
        /\ payload' \subseteq Payloads
    BY <1>1, HoldoutAssumption DEF Tick, PublishSnapshot, holdoutVars, Hours, HoldoutIInv,
                                   HoldoutTypeOK
  <2>3. HoldoutTypeOK'
    <3>1. \A r \in Runs : run[r].at \in Nat
      BY DEF HoldoutIInv, HoldoutTypeOK, RunState, Hours
    <3> QED
      BY <2>1, <2>2, <3>1 DEF HoldoutIInv, HoldoutTypeOK
  <2>4. RunLocals' /\ LatestIsComplete'
    BY <2>1 DEF HoldoutIInv, RunLocals, QuotesAndErrors, CaptureOf, LatestIsComplete
  <2> QED
    BY <2>3, <2>4 DEF HoldoutIInv
<1>2. ASSUME NEW r \in Runs, Begin(r) \/ CopyPayload(r) \/ Discover(r) \/ RunDies(r)
      PROVE  HoldoutIInv'
  BY <1>2, ListingSteps
<1>3. ASSUME NEW r \in Runs, ReadEvent(r) \/ ReadBooks(r) \/ WriteCapture(r)
      PROVE  HoldoutIInv'
  BY <1>3, ReadingSteps
<1>4. ASSUME NEW r \in Runs, ReplaceLatest(r) PROVE HoldoutIInv'
  BY <1>4, PointerSteps
<1> QED
  BY <1>1, <1>2, <1>3, <1>4 DEF HoldoutNext

\* No files and no run.
LEMMA HoldoutInitIInv == HoldoutInit => HoldoutIInv
<1> SUFFICES ASSUME HoldoutInit PROVE HoldoutIInv
  OBVIOUS
<1>1. /\ clock = 0 /\ payload = {} /\ copies = {} /\ captures = {} /\ latest = {}
      /\ run \in [Runs -> RunState] /\ \A r \in Runs : run[r] = NoRun
  BY NoRunForm DEF HoldoutInit
<1>2. HoldoutTypeOK
  BY <1>1, NoRunForm, HoldoutAssumption DEF HoldoutTypeOK, Hours
<1>3. RunLocals
  BY <1>1, NoRunForm DEF RunLocals, QuotesAndErrors
<1>4. LatestIsComplete
  BY <1>1 DEF LatestIsComplete
<1> QED
  BY <1>2, <1>3, <1>4 DEF HoldoutIInv

\* Runs, captures and the pointer agree at every moment.
THEOREM HoldoutInvariant == HoldoutSpec => []HoldoutIInv
<1> QED
  BY HoldoutInitIInv, HoldoutStepIInv, PTL DEF HoldoutSpec

\* The files and the runs keep their types.
THEOREM HoldoutTypeCorrect == HoldoutSpec => []HoldoutTypeOK
<1>1. HoldoutIInv => HoldoutTypeOK
  BY DEF HoldoutIInv
<1> QED
  BY <1>1, HoldoutInvariant, PTL

\* Wherever runs die and however they overlap, latest.json names a capture
\* that is there and tells what it missed.
THEOREM PointerIsComplete == HoldoutSpec => []LatestIsComplete
<1>1. HoldoutIInv => LatestIsComplete
  BY DEF HoldoutIInv
<1> QED
  BY <1>1, HoldoutInvariant, PTL
=============================================================================

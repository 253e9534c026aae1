------------------------------ MODULE MCShadow ------------------------------
(***************************************************************************)
(* The H4 cohort, the ratings, the paper bets and the holdout share no     *)
(* file, so one run explores each on its own: "subject" is the one that    *)
(* takes the steps.  The cohort and the ratings are too large for one      *)
(* exploration with all their processes, so each is a subject with one     *)
(* combination of processes at a time.                                     *)
(***************************************************************************)
EXTENDS H4Cohort, RatingsFile, PaperBets, Holdout, TLC

CONSTANTS e1, t1

VARIABLE subject
vars == <<subject, cohortVars, ratingsVars, betsVars, holdoutVars>>

\* Two matches of the same teams one hour apart, of two competitions.
MCStart == [e \in Events |-> IF e = e1 THEN 2 ELSE 3]
MCPair == [e \in Events |-> "pair"]
MCCompetition == [e \in Events |-> e]
\* Every update is of all teams, and only t1 is in the first games.
MCPlayers == [u \in Updates |-> Teams]
MCFirstIn == [t \in Teams |-> IF t = t1 THEN 1 ELSE 2]

\* Sides, Sessions, Settlers and Runs are the same two model values, each in a
\* component of its own: one permutation serves them all.
Symmetry == Permutations(Runs)

TypeOK == CohortTypeOK /\ RatingsTypeOK /\ BetsTypeOK /\ HoldoutTypeOK

Init ==
    /\ subject \in {"weekly", "settlements", "sessions", "refresh", "versions", "bets", "holdout"}
    /\ CohortInit /\ RatingsInit /\ BetsInit /\ HoldoutInit

\* No collector is between two matches any more; what it has built it may
\* append at any time.
AllListed == \A c \in Collectors : collector[c].pc # "next"

\* Collector, weekly refresh, evaluation and humans, to the last instant.
WeeklyAlone ==
    /\ CohortNext
    /\ settlement'["job"].pc = "idle"
    /\ now' >= 3 => AllListed'

\* The job settles as well; nobody does before the first match began, and the
\* run ends before one is mature, so nothing is evaluated.
BothSettle ==
    /\ CohortNext
    /\ now' <= 2
    /\ now' = 1 => settling' = settling
    /\ now' = 2 => AllListed'
    /\ closure' = decided'

\* Two sessions, two updates and the backtest.
SessionsMeet == RatingsNext /\ refresh'.pc = "idle" /\ snapshot' <= 1

Loaded == {m \in Sessions : session[m].pc # "new"}
Begun == done \union recent \union failed \union UNION {session[m].update : m \in Sessions}
OneSession == Cardinality(Loaded) <= 1 /\ Cardinality(Begun) <= 1

\* The weekly refresh, the backtest and a session with one update, whose call
\* does not end in the middle.
RefreshMeetsBoth == RatingsNext /\ OneSession' /\ snapshot' <= 1 /\ failed' = {}

\* The weekly refresh over more versions of the games, and such a session.
RefreshMeetsVersions == RatingsNext /\ OneSession' /\ ~handle'["backtest"].open

Next ==
    /\ \/ /\ \/ subject = "weekly" /\ WeeklyAlone
             \/ subject = "settlements" /\ BothSettle
          /\ UNCHANGED <<ratingsVars, betsVars, holdoutVars>>
       \/ /\ \/ subject = "sessions" /\ SessionsMeet
             \/ subject = "refresh" /\ RefreshMeetsBoth
             \/ subject = "versions" /\ RefreshMeetsVersions
          /\ UNCHANGED <<cohortVars, betsVars, holdoutVars>>
       \/ subject = "bets" /\ BetsNext /\ UNCHANGED <<cohortVars, ratingsVars, holdoutVars>>
       \/ subject = "holdout" /\ HoldoutNext /\ UNCHANGED <<cohortVars, ratingsVars, betsVars>>
    /\ UNCHANGED subject

Spec == Init /\ [][Next]_vars
=============================================================================

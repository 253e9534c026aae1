------------------------------ MODULE H4Cohort ------------------------------
(***************************************************************************)
(* The prospective H4 cohort, data/shadow/h4_signals.jsonl: the collector  *)
(* of collect_polymarket_upcoming.py, the two steps of the weekly refresh  *)
(* that settle the cohort (build_h4_results.py, settle_h4_signals.py), the *)
(* scheduled job that settles it as well (operations.py), the evaluation   *)
(* of src/src/h4_gate.py and the human record that closes or reopens the   *)
(* cohort.                                                                 *)
(*                                                                         *)
(* The collector appends a signal under a lock that a settlement, which    *)
(* reads the whole file and replaces it, does not take.  Every process may *)
(* die between two steps.  Probabilities, odds and the statistics of the   *)
(* evaluation are left out: a signal keeps what it selects and when it was *)
(* observed.  The archive of raw observations is left out: no code reads   *)
(* it.  A file that does not exist is an empty one.  The cohort began at   *)
(* instant 0, its collection_start_exclusive, and the model at instant 1.  *)
(***************************************************************************)
EXTENDS Naturals, Sequences, FiniteSets

CONSTANTS
    Events,            \* matches of the market, each with one condition_id
    Start,             \* event_start_at of each
    Pair,              \* its two teams
    Competition,       \* its competition_id, when the market gives one
    Sides,             \* team_a and team_b, the values of selection
    Games,             \* numbers of the games of a series
    Collectors,
    SettlementJobs,    \* who settles: the weekly refresh, the job lol-settlement
    SeriesWindow,      \* JANELA
    Listed,            \* horizon_hours
    MinDays, MinMatured, MinSignals, MinCompetitions,   \* of data/trials.json
    MaxGames,          \* bound: games listed
    MaxCaptured,       \* bound: signals ever appended
    MaxUndecided,      \* bound: signals appended before a human decides no more
    LastInstant        \* bound: the last instant

Instants == 0..LastInstant
ASSUME EventsAssumption ==
    /\ Start \in [Events -> Nat]
    /\ IsFiniteSet(Events)
ASSUME SettlementJobsAssumption ==
    "weekly" \in SettlementJobs /\ SettlementJobs \subseteq {"weekly", "job"}
ASSUME H4BoundsAssumption ==
    /\ LastInstant \in Nat \ {0} /\ MaxGames \in Nat /\ MaxCaptured \in Nat /\ MaxUndecided \in Nat
    /\ MinDays \in Nat /\ MinMatured \in Nat /\ MinSignals \in Nat /\ MinCompetitions \in Nat

VARIABLES
    now,         \* the system clock
    closure,     \* data/h4_v2_closure.json
    decided,     \* history: the last decision a human recorded in it
    games,       \* table games of data/lol.db, complete games only
    signals,     \* data/shadow/h4_signals.jsonl
    captured,    \* history: ids of the signals ever appended
    exposed,     \* history: those appended while a settlement held older rows
    undone,      \* history: a settlement took an official row back
    results,     \* data/shadow/h4_results.json, by canonical_event_id
    collector,   \* each collection, with its locals
    weekly,      \* the two H4 steps of the weekly refresh, with the locals of the first
    settlement,  \* each settlement, with its locals
    evaluator,   \* an evaluation
    gate         \* the signals that data/market_gate.json was computed from

human == <<closure, decided>>
files == <<signals, captured, exposed, undone>>
settling == <<weekly, settlement>>
cohortVars == <<now, human, games, files, results, collector, settling, evaluator, gate>>

-----------------------------------------------------------------------------
Outcomes == {0, 1}              \* result: 1 when the selected side won
Pending == 2                    \* result: None

\* "winner" is the series winner in the results file, which settle ignores:
\* it is kept with the row for the properties.
Signal == [event: Events, selection: Sides, at: Instants,
           status: {"PENDING", "OFFICIAL"}, result: Outcomes \union {Pending},
           available: Instants, winner: Sides \union {"none"}]
SignalId(row) == <<row.event, row.selection, row.at>>
SignalIds == Events \X Sides \X Instants
Rows(file) == {file[i] : i \in DOMAIN file}

Game == [event: Events, number: Games, winner: Sides]
Entry == [winner: Sides, result: Outcomes, available: Instants]
NoResults == [e \in {} |-> 0]
Unreadable == [readable |-> FALSE, entries |-> NoResults]    \* not there, or torn

Closures == {"CLOSED", "REOPENED", "UNAUDITED", "MALFORMED", "MISSING"}
CollectorLocals == [pc: {"idle", "next", "signal"}, todo: SUBSET Events,
                    quote: SUBSET Signal]
WeeklyLocals == [pc: {"idle", "build", "settle"}, rows: Seq(Signal), at: Instants]
Supplies == UNION {[S -> Entry] : S \in SUBSET Events}
SettlementLocals == [pc: {"idle", "results", "rows"}, supplied: Supplies, rows: Seq(Signal)]

Resting == [pc |-> "idle", todo |-> {}, quote |-> {}]
NoWeekly == [pc |-> "idle", rows |-> <<>>, at |-> 0]
NoSettlement == [pc |-> "idle", supplied |-> NoResults, rows |-> <<>>]

CohortTypeOK ==
    /\ now \in Instants
    /\ closure \in Closures /\ decided \in {"CLOSED", "REOPENED"}
    /\ games \subseteq Game
    /\ signals \in Seq(Signal)
    /\ captured \subseteq SignalIds /\ exposed \subseteq captured /\ undone \in BOOLEAN
    /\ results \in [readable: BOOLEAN, entries: Supplies]
    /\ collector \in [Collectors -> CollectorLocals]
    /\ weekly \in WeeklyLocals
    /\ settlement \in [SettlementJobs -> SettlementLocals]
    /\ evaluator \in {"idle", "ready"}
    /\ gate \subseteq Signal

CohortInit ==
    /\ now = 1
    /\ closure = "CLOSED" /\ decided = "CLOSED"
    /\ games = {} /\ signals = <<>> /\ captured = {} /\ exposed = {} /\ undone = FALSE
    /\ results = Unreadable
    /\ collector = [c \in Collectors |-> Resting]
    /\ weekly = NoWeekly
    /\ settlement = [s \in SettlementJobs |-> NoSettlement]
    /\ evaluator = "idle"
    /\ gate = {}

-----------------------------------------------------------------------------
(* The world: time, the games that Oracle's Elixir lists once they began,  *)
(* which a later file may correct, and the people who own the record.      *)

Passes ==
    /\ now < LastInstant
    /\ now' = now + 1
    /\ UNCHANGED <<human, games, files, results, collector, settling, evaluator, gate>>

IngestGame ==
    /\ \E g \in Game :
        /\ Start[g.event] <= now
        /\ games' = {h \in games : <<h.event, h.number>> # <<g.event, g.number>>} \union {g}
    /\ Cardinality(games') <= MaxGames
    /\ UNCHANGED <<now, human, files, results, collector, settling, evaluator, gate>>

\* Bound: a human decides only while few signals were captured.
Decide ==
    /\ Cardinality(captured) < MaxUndecided
    /\ \E d \in {"CLOSED", "REOPENED"} : closure' = d /\ decided' = d
    /\ UNCHANGED <<now, games, files, results, collector, settling, evaluator, gate>>

\* The record is deleted, cut short, or says REOPENED_BY_HUMAN_DECISION
\* without the fields of an auditable decision.  Bound: only while nothing was
\* captured and no collection runs.
Damage ==
    /\ captured = {} /\ \A c \in Collectors : collector[c].pc = "idle"
    /\ closure' \in {"UNAUDITED", "MALFORMED", "MISSING"}
    /\ UNCHANGED <<now, decided, games, files, results, collector, settling, evaluator, gate>>

\* Faulty variant: without a record the cohort is open.
OpenWhenMissing(record) ==
    IF record \in {"REOPENED", "MISSING"} THEN "None"
    ELSE IF record = "CLOSED" THEN "record" ELSE "H4Error"

\* closure_status returns None for an audited reopening alone; for a closure
\* it returns the record and for everything else it raises.
ClosureStatus(record) ==
    IF record = "REOPENED" THEN "None" ELSE IF record = "CLOSED" THEN "record" ELSE "H4Error"
H4Open == ClosureStatus(closure) = "None"

-----------------------------------------------------------------------------
(* collect: the matches listed, one after the other.  A match whose teams  *)
(* do not resolve changes nothing, like one that was not listed.           *)

Upcoming == {e \in Events : now < Start[e] /\ Start[e] <= now + Listed}
ListUpcoming(c) ==
    /\ collector[c].pc = "idle"
    /\ H4Open
    /\ \E found \in SUBSET Upcoming :
        /\ found # {}
        /\ collector' = [collector EXCEPT ![c] = [pc |-> "next", todo |-> found, quote |-> {}]]
    /\ UNCHANGED <<now, human, games, files, results, settling, evaluator, gate>>

\* In the order of scheduled_at.
NextMatch(todo) == {e \in todo : \A f \in todo : Start[e] <= Start[f]}
Left(c, e) == collector[c].todo \ {e}
Resumed(c, e) ==
    IF Left(c, e) = {} THEN Resting ELSE [pc |-> "next", todo |-> Left(c, e), quote |-> {}]

\* build_signal: which side is selected follows from the probabilities of the
\* market and of the model; a quote observed too late gives no signal.
BuildSignal(e) ==
    IF now < Start[e]
    THEN {[event |-> e, selection |-> s, at |-> now, status |-> "PENDING", result |-> Pending,
           available |-> 0, winner |-> "none"] : s \in Sides}
    ELSE {}

\* fetch_match and attach_model_snapshot, then the signal, if the match has a
\* usable quote and a competition.
FetchMatch(c) ==
    /\ collector[c].pc = "next"
    /\ \E e \in NextMatch(collector[c].todo) :
        \/ \E row \in BuildSignal(e) :
            collector' = [collector EXCEPT ![c].pc = "signal", ![c].quote = {row}]
        \/ collector' = [collector EXCEPT ![c] = Resumed(c, e)]
    /\ UNCHANGED <<now, human, games, files, results, settling, evaluator, gate>>

\* append_once: read, compare ids and append under the lock of the file.
AppendOnce(c) ==
    /\ collector[c].pc = "signal"
    /\ \E new \in collector[c].quote :
        /\ IF \E row \in Rows(signals) : SignalId(row) = SignalId(new)
           THEN UNCHANGED <<signals, captured, exposed>>
           ELSE /\ Cardinality(captured) < MaxCaptured
                /\ signals' = Append(signals, new)
                /\ captured' = captured \union {SignalId(new)}
                /\ exposed' = IF \E s \in SettlementJobs : settlement[s].pc = "rows"
                              THEN exposed \union {SignalId(new)} ELSE exposed
        /\ collector' = [collector EXCEPT ![c] = Resumed(c, new.event)]
    /\ UNCHANGED <<now, human, games, undone, results, settling, evaluator, gate>>

CollectorDies(c) ==
    /\ collector[c].pc # "idle"
    /\ collector' = [collector EXCEPT ![c] = Resting]
    /\ UNCHANGED <<now, human, games, files, results, settling, evaluator, gate>>

-----------------------------------------------------------------------------
(* build_h4_results.py                                                     *)

Distance(m, n) == IF m < n THEN n - m ELSE m - n
Wins(e, side) ==
    Cardinality({g \in games : /\ Pair[g.event] = Pair[e]
                               /\ Distance(Start[g.event], Start[e]) <= SeriesWindow
                               /\ g.winner = side})
\* series_result: the side with more games won of those near the start.
SeriesWinner(e) == {s \in Sides : \A t \in Sides \ {s} : Wins(e, s) > Wins(e, t)}

Unsettled(rows, e) == {i \in DOMAIN rows : rows[i].event = e /\ rows[i].status # "OFFICIAL"}
LastOf(I) == CHOOSE i \in I : \A j \in I : j <= i

\* Faulty variant: every result is that of the last row's selection.
ResultsOfTheLastRow(rows, at) ==
    [e \in {f \in Events : Unsettled(rows, f) # {} /\ SeriesWinner(f) # {}} |->
        LET winner == CHOOSE s \in SeriesWinner(e) : TRUE
            row == rows[Len(rows)]
        IN  [winner |-> winner, result |-> IF row.selection = winner THEN 1 ELSE 0,
             available |-> at]]

\* One entry per unsettled row; settle keeps the last one of an event.
BuiltResults(rows, at) ==
    [e \in {f \in Events : Unsettled(rows, f) # {} /\ SeriesWinner(f) # {}} |->
        LET winner == CHOOSE s \in SeriesWinner(e) : TRUE
            row == rows[LastOf(Unsettled(rows, e))]
        IN  [winner |-> winner, result |-> IF row.selection = winner THEN 1 ELSE 0,
             available |-> at]]

BuildReads ==
    /\ weekly.pc = "idle"
    /\ weekly' = [weekly EXCEPT !.pc = "build", !.rows = signals, !.at = now]
    /\ UNCHANGED <<now, human, games, files, results, collector, settlement, evaluator, gate>>

\* Faulty variant: one script builds and settles with the rows it read first.
SettlesWhatItBuilt ==
    /\ weekly.pc = "build"
    /\ LET built == BuiltResults(weekly.rows, weekly.at) IN
       /\ results' = [readable |-> TRUE, entries |-> built]
       /\ settlement' = [settlement EXCEPT !["weekly"] =
                            [pc |-> "rows", supplied |-> built, rows |-> weekly.rows]]
    /\ weekly' = [NoWeekly EXCEPT !.pc = "settle"]
    /\ UNCHANGED <<now, human, games, files, collector, evaluator, gate>>

BuildWrites ==
    /\ weekly.pc = "build"
    /\ results' = [readable |-> TRUE, entries |-> BuiltResults(weekly.rows, weekly.at)]
    /\ weekly' = [NoWeekly EXCEPT !.pc = "settle"]
    /\ UNCHANGED <<now, human, games, files, collector, settlement, evaluator, gate>>

\* The step fails or runs out of time, perhaps in the middle of write_text;
\* the refresh goes on with the next one.
BuildFails ==
    /\ weekly.pc = "build"
    /\ results' \in {results, Unreadable}
    /\ weekly' = [NoWeekly EXCEPT !.pc = "settle"]
    /\ UNCHANGED <<now, human, games, files, collector, settlement, evaluator, gate>>

-----------------------------------------------------------------------------
(* settle_h4_signals.py                                                    *)

\* The weekly refresh is over with the H4 steps when its settlement is.
Ends(s) ==
    /\ settlement' = [settlement EXCEPT ![s] = NoSettlement]
    /\ weekly' = IF s = "weekly" THEN NoWeekly ELSE weekly

\* Without signals there is nothing to do, and without a readable results
\* file the settlement fails.
SettleBegins(s) ==
    /\ settlement[s].pc = "idle"
    /\ s = "weekly" => weekly.pc = "settle"
    /\ IF signals = <<>> \/ ~results.readable THEN Ends(s)
       ELSE /\ settlement' = [settlement EXCEPT ![s] = [NoSettlement EXCEPT
                                !.pc = "results", !.supplied = results.entries]]
            /\ UNCHANGED weekly
    /\ UNCHANGED <<now, human, games, files, results, collector, evaluator, gate>>

SettleReads(s) ==
    /\ settlement[s].pc = "results"
    /\ settlement' = [settlement EXCEPT ![s].pc = "rows", ![s].rows = signals]
    /\ UNCHANGED <<now, human, games, files, results, collector, weekly, evaluator, gate>>

\* Faulty variant: the date of the result is not compared.
RefusesContradictions(row, supplied) ==
    /\ row.event \in DOMAIN supplied
    /\ row.status = "OFFICIAL" /\ row.result # supplied[row.event].result

\* A result dated before the match, or one that contradicts a settled row,
\* raises, and no row is settled.
Refused(row, supplied) ==
    /\ row.event \in DOMAIN supplied
    /\ \/ supplied[row.event].available < Start[row.event]
       \/ row.status = "OFFICIAL" /\ row.result # supplied[row.event].result

SettledRow(row, supplied) ==
    IF row.event \notin DOMAIN supplied \/ row.status = "OFFICIAL" THEN row
    ELSE [row EXCEPT !.status = "OFFICIAL", !.result = supplied[row.event].result,
                     !.available = supplied[row.event].available,
                     !.winner = supplied[row.event].winner]

SettleReplaces(s) ==
    /\ settlement[s].pc = "rows"
    /\ LET rows == settlement[s].rows
           supplied == settlement[s].supplied
       IN  signals' = IF \E row \in Rows(rows) : Refused(row, supplied) THEN signals
                      ELSE [i \in DOMAIN rows |-> SettledRow(rows[i], supplied)]
    /\ undone' = (undone \/ \E row \in Rows(signals) :
                             row.status = "OFFICIAL" /\ row \notin Rows(signals'))
    /\ Ends(s)
    /\ UNCHANGED <<now, human, games, captured, exposed, results, collector, evaluator, gate>>

\* The settlement fails, runs out of time or dies.
SettleDies(s) ==
    /\ settlement[s].pc # "idle"
    /\ Ends(s)
    /\ UNCHANGED <<now, human, games, files, results, collector, evaluator, gate>>

\* The weekly refresh dies before it settles.
WeeklyDies ==
    /\ weekly.pc # "idle" /\ settlement["weekly"].pc = "idle"
    /\ weekly' = NoWeekly
    /\ UNCHANGED <<now, human, games, files, results, collector, settlement, evaluator, gate>>

-----------------------------------------------------------------------------
(* evaluate: cohort_status and the figures of the gate read the file anew. *)

\* validate_signal: observed in the cohort's time and before its match.
Valid(row) == row.at > 0 /\ row.at < Start[row.event]
Mature(row) == Start[row.event] < now
IsSettled(row) == row.status = "OFFICIAL" /\ row.result \in Outcomes

CohortIssues(file) ==
    \/ \E i \in DOMAIN file : ~Valid(file[i])
    \/ \E i, j \in DOMAIN file : i # j /\ file[i].event = file[j].event
    \/ \E i \in DOMAIN file : Mature(file[i]) /\ ~IsSettled(file[i])

\* Faulty variant: the competitions of all signals are counted.
ReadyWithUnsettled(file) ==
    LET settled == {i \in DOMAIN file : Mature(file[i]) /\ IsSettled(file[i])} IN
    /\ ~CohortIssues(file)
    /\ now >= MinDays
    /\ Cardinality(settled) >= MinMatured
    /\ Len(file) >= MinSignals
    /\ Cardinality({Competition[file[i].event] : i \in DOMAIN file}) >= MinCompetitions

ReadyForEvaluation(file) ==
    LET settled == {i \in DOMAIN file : Mature(file[i]) /\ IsSettled(file[i])} IN
    /\ ~CohortIssues(file)
    /\ now >= MinDays
    /\ Cardinality(settled) >= MinMatured
    /\ Len(file) >= MinSignals
    /\ Cardinality({Competition[file[i].event] : i \in settled}) >= MinCompetitions

EvaluatorChecks ==
    /\ evaluator = "idle"
    /\ H4Open
    /\ ReadyForEvaluation(signals)
    /\ evaluator' = "ready"
    /\ UNCHANGED <<now, human, games, files, results, collector, settling, gate>>

\* The figures are those of the rows that the second reading finds settled;
\* of no rows there are none, and evaluate raises.
OfficialRows == {row \in Rows(signals) : Mature(row) /\ row.status = "OFFICIAL"}
PublishGate ==
    /\ evaluator = "ready"
    /\ gate' = IF OfficialRows = {} THEN gate ELSE OfficialRows
    /\ evaluator' = "idle"
    /\ UNCHANGED <<now, human, games, files, results, collector, settling>>

EvaluatorDies ==
    /\ evaluator # "idle"
    /\ evaluator' = "idle"
    /\ UNCHANGED <<now, human, games, files, results, collector, settling, gate>>

CohortNext ==
    \/ Passes \/ IngestGame \/ Decide \/ Damage
    \/ \E c \in Collectors :
        \/ ListUpcoming(c) \/ FetchMatch(c) \/ AppendOnce(c) \/ CollectorDies(c)
    \/ BuildReads \/ BuildWrites \/ BuildFails
    \/ WeeklyDies
    \/ \E s \in SettlementJobs :
        \/ SettleBegins(s) \/ SettleReads(s) \/ SettleReplaces(s) \/ SettleDies(s)
    \/ EvaluatorChecks \/ PublishGate \/ EvaluatorDies

CohortSpec == CohortInit /\ [][CohortNext]_cohortVars

-----------------------------------------------------------------------------
(* Properties.                                                             *)

\* A signal that was captured is in the cohort, unless it was appended while
\* a settlement already held the rows it would write back: the settlement
\* (settle_h4_signals.py:29-62) loses those and no others.
LostOnlyToSettlement ==
    captured \ {SignalId(row) : row \in Rows(signals)} \subseteq exposed

\* Games of an earlier series of the same teams within the window give a
\* result to a match that has not begun (build_h4_results.py:69); settle must
\* not let it into the cohort.
NoResultBeforeStart ==
    \A row \in Rows(signals) :
        row.status = "OFFICIAL" => Start[row.event] <= row.available /\ row.at < row.available

\* The official result of a match observed once says whether the side of the
\* signal won, through the results file, the failures between the two steps
\* and the results of an earlier week.
ResultFollowsSelection ==
    \A row \in Rows(signals) :
        /\ row.status = "OFFICIAL"
        /\ \A id \in captured : id[1] = row.event => id = SignalId(row)
        => (row.result = 1 <=> row.winner = row.selection)

\* The gate was computed from the required number of matches of the required
\* number of competitions, each with its official result, although evaluate
\* reads the cohort again (h4_gate.py:407) after cohort_status has judged it,
\* unless a settlement put an official row back, which two can do: one writes
\* the rows that it read before the other settled them.
GateCountsEnough ==
    ~undone /\ gate # {} =>
        /\ Cardinality({row.event : row \in gate}) >= MinMatured
        /\ Cardinality({Competition[row.event] : row \in gate}) >= MinCompetitions
        /\ \A row \in gate : Start[row.event] <= row.available /\ row.result \in Outcomes

\* Whatever happens to the file of the record, no collection and no
\* evaluation begins unless a human reopened the cohort last.
DecisionIsHonoured ==
    [][\/ decided = "REOPENED"
       \/ /\ \A c \in Collectors : collector[c].pc = "idle" => collector'[c].pc = "idle"
          /\ evaluator = "idle" => evaluator' = "idle"]_cohortVars
-----------------------------------------------------------------------------
(* The inductive invariant behind those properties.                        *)

\* Every row, in the file or in the hands of a settlement, was captured
\* before its match, and its official result is that of a captured selection.
RowFits(row) ==
    /\ row.at < Start[row.event]
    /\ SignalId(row) \in captured
    /\ row.status = "OFFICIAL" =>
        /\ Start[row.event] <= row.available /\ row.result \in Outcomes
        /\ \E id \in captured : id[1] = row.event /\ (row.result = 1 <=> row.winner = id[2])
RowsFit ==
    /\ \A row \in Rows(signals) : RowFits(row)
    /\ \A row \in Rows(weekly.rows) : RowFits(row)
    /\ \A s \in SettlementJobs : \A row \in Rows(settlement[s].rows) : RowFits(row)

\* What a collector is about to append is pending and precedes its match.
QuotesFit ==
    \A c \in Collectors : \A row \in collector[c].quote :
        row.at < Start[row.event] /\ row.status = "PENDING"

\* An entry of the results file, also one that was read from it, speaks of a
\* captured selection of its match.
EntriesFit(entries) ==
    \A e \in DOMAIN entries : \E id \in captured :
        id[1] = e /\ (entries[e].result = 1 <=> entries[e].winner = id[2])
ResultsFit ==
    EntriesFit(results.entries) /\ \A s \in SettlementJobs : EntriesFit(settlement[s].supplied)

\* A settlement holds all that was captured but what was exposed to one.
SettlementHolds ==
    \A s \in SettlementJobs : settlement[s].pc = "rows" =>
        captured \ {SignalId(row) : row \in Rows(settlement[s].rows)} \subseteq exposed

\* The record says that the cohort is open only if a human said so.
RecordIsTrue == closure = "REOPENED" => decided = "REOPENED"

CohortIInv ==
    /\ CohortTypeOK
    /\ RowsFit
    /\ QuotesFit
    /\ ResultsFit
    /\ SettlementHolds
    /\ RecordIsTrue
    /\ LostOnlyToSettlement

\* What cohort_status counted can be counted by the second reading.
EvaluationStands ==
    ~undone /\ evaluator = "ready" =>
        /\ Cardinality({row.event : row \in OfficialRows}) >= MinMatured
        /\ Cardinality({Competition[row.event] : row \in OfficialRows}) >= MinCompetitions
EvaluationIInv == EvaluationStands /\ GateCountsEnough

\* The weekly refresh alone settles: its settlement holds all that is
\* official, and takes no official row back.
OfficialIsHeld ==
    \A s \in SettlementJobs : settlement[s].pc = "rows" =>
        \A row \in Rows(signals) : row.status = "OFFICIAL" => row \in Rows(settlement[s].rows)
NothingUndone == ~undone /\ OfficialIsHeld

=============================================================================

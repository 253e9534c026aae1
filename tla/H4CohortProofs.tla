--------------------------- MODULE H4CohortProofs ---------------------------
(***************************************************************************)
(* The H4 cohort, for any matches, collectors, windows and gates: what a   *)
(* settlement may lose, which results enter the cohort, and what the gate  *)
(* was computed from.                                                      *)
(***************************************************************************)
EXTENDS H4Cohort, NaturalSets, FiniteSetTheorems, FunctionTheorems

-----------------------------------------------------------------------------
(* Lemmas about the operators of the cohort.                               *)

\* The matches of more rows are no fewer, and neither is what a function of
\* the match, like its competition, makes of them.
LEMMA CountsGrow ==
    ASSUME NEW A \in SUBSET Signal, NEW B \in SUBSET Signal, A \subseteq B, NEW f
    PROVE  LET Of(S) == {f[row.event] : row \in S} IN
           /\ Cardinality(Of(A)) \in Nat /\ Cardinality(Of(B)) \in Nat
           /\ Cardinality(Of(A)) <= Cardinality(Of(B))
<1> DEFINE Of(S) == {f[row.event] : row \in S}
           g == [e \in Events |-> f[e]]
<1>1. IsFiniteSet(Range(g))
  <2>1. g \in [Events -> Range(g)]
    BY DEF Range
  <2>2. g \in Surjection(Events, Range(g))
    BY <2>1, Fun_RangeProperties, Zenon
  <2> QED
    BY <2>2, FS_Surjection, EventsAssumption, Zenon
<1>2. Of(B) \in SUBSET Range(g)
  BY DEF Range, Signal
<1>3. Of(A) \in SUBSET Of(B)
  OBVIOUS
<1>4. IsFiniteSet(Of(B))
  BY <1>1, <1>2, FS_Subset, Zenon
<1>5. IsFiniteSet(Of(A)) /\ Cardinality(Of(A)) <= Cardinality(Of(B))
  BY <1>3, <1>4, FS_Subset, Zenon
<1>6. Cardinality(Of(A)) \in Nat /\ Cardinality(Of(B)) \in Nat
  BY <1>4, <1>5, FS_CardinalityType, Zenon
<1> QED
  BY <1>5, <1>6

\* The same for the matches themselves.
LEMMA EventsGrow ==
    ASSUME NEW A \in SUBSET Signal, NEW B \in SUBSET Signal, A \subseteq B
    PROVE  /\ Cardinality({row.event : row \in A}) \in Nat
           /\ Cardinality({row.event : row \in B}) \in Nat
           /\ Cardinality({row.event : row \in A}) <= Cardinality({row.event : row \in B})
<1> DEFINE f == [e \in Events |-> e]
<1>1. \A S \in SUBSET Signal : {f[row.event] : row \in S} = {row.event : row \in S}
  BY DEF Signal
<1>2. /\ Cardinality({f[row.event] : row \in A}) \in Nat
      /\ Cardinality({f[row.event] : row \in B}) \in Nat
      /\ Cardinality({f[row.event] : row \in A}) <= Cardinality({f[row.event] : row \in B})
  BY CountsGrow, Zenon
<1> QED
  BY <1>1, <1>2

\* Positions whose matches differ are as many as their matches.
LEMMA DistinctEvents ==
    ASSUME NEW file \in Seq(Signal), NEW I \in SUBSET DOMAIN file,
           \A i, j \in I : file[i].event = file[j].event => i = j
    PROVE  Cardinality({file[i].event : i \in I}) \in Nat
           /\ Cardinality(I) \in Nat
           /\ Cardinality(I) <= Cardinality({file[i].event : i \in I})
<1> DEFINE E == {file[i].event : i \in I}
           g == [i \in I |-> file[i].event]
<1>1. E \in SUBSET Events
  <2>1. \A i \in DOMAIN file : file[i] \in Signal
    OBVIOUS
  <2>2. \A row \in Signal : row.event \in Events
    BY DEF Signal
  <2> QED
    BY <2>1, <2>2
<1>2. IsFiniteSet(E)
  BY <1>1, FS_Subset, EventsAssumption, Zenon
<1>3. g \in [I -> E] /\ \A i, j \in I : g[i] = g[j] => i = j
  OBVIOUS
<1>4. g \in Injection(I, E)
  BY <1>3, Fun_IsInj, Zenon
<1>5. IsFiniteSet(I) /\ Cardinality(I) <= Cardinality(E)
  BY <1>2, <1>4, FS_Injection, Zenon
<1> QED
  BY <1>2, <1>5, FS_CardinalityType

\* The last of some positions of a file is one of them.
LEMMA LastIsThere ==
    ASSUME NEW rows \in Seq(Signal), NEW I \in SUBSET DOMAIN rows, I # {}
    PROVE  LastOf(I) \in I
<1>1. I \in SUBSET Nat /\ Len(rows) \in Nat /\ \A i \in I : i <= Len(rows)
  OBVIOUS
<1>2. \E i \in I : \A j \in I : i >= j
  BY <1>1, GreatestExists, Zenon
<1>3. \E i \in I : \A j \in I : j <= i
  BY <1>1, <1>2
<1> QED
  BY <1>3, Zenon DEF LastOf

\* The rows of a file are signals, and their ids are ids.
LEMMA RowsAreSignals ==
    ASSUME NEW file \in Seq(Signal)
    PROVE  /\ Rows(file) \subseteq Signal
           /\ \A row \in Rows(file) : SignalId(row) \in SignalIds
<1>1. Rows(file) \subseteq Signal
  BY DEF Rows
<1>2. \A row \in Signal : SignalId(row) \in SignalIds
  BY DEF Signal, SignalId, SignalIds
<1> QED
  BY <1>1, <1>2

\* An append adds its row to those of the file.
LEMMA RowsOfAppend ==
    ASSUME NEW file \in Seq(Signal), NEW row \in Signal
    PROVE  Append(file, row) \in Seq(Signal) /\ Rows(Append(file, row)) = Rows(file) \union {row}
<1>1. /\ Append(file, row) \in Seq(Signal)
      /\ DOMAIN Append(file, row) = DOMAIN file \union {Len(file) + 1}
      /\ Append(file, row)[Len(file) + 1] = row
      /\ \A i \in DOMAIN file : Append(file, row)[i] = file[i]
  OBVIOUS
<1> QED
  BY <1>1 DEF Rows

\* A file of results gives some matches an entry.
LEMMA SuppliesForm ==
    ASSUME NEW supplied
    PROVE  supplied \in Supplies <=> /\ DOMAIN supplied \subseteq Events
                                     /\ supplied = [e \in DOMAIN supplied |-> supplied[e]]
                                     /\ \A e \in DOMAIN supplied : supplied[e] \in Entry
  BY DEF Supplies

\* Every process at rest.
LEMMA RestForm ==
    /\ NoResults \in Supplies /\ DOMAIN NoResults = {}
    /\ Unreadable.readable \in BOOLEAN /\ Unreadable.entries = NoResults
    /\ NoWeekly \in WeeklyLocals /\ NoWeekly.pc = "idle" /\ Rows(NoWeekly.rows) = {}
    /\ NoSettlement \in SettlementLocals /\ NoSettlement.pc = "idle"
    /\ Rows(NoSettlement.rows) = {} /\ NoSettlement.supplied = NoResults
    /\ Resting \in CollectorLocals /\ Resting.quote = {}
<1>1. NoResults \in Supplies /\ DOMAIN NoResults = {}
  BY SuppliesForm DEF NoResults
<1>2. Unreadable.readable \in BOOLEAN /\ Unreadable.entries = NoResults
  BY DEF Unreadable
<1>3. NoWeekly \in WeeklyLocals /\ NoWeekly.pc = "idle" /\ Rows(NoWeekly.rows) = {}
  BY H4BoundsAssumption DEF NoWeekly, WeeklyLocals, Instants, Rows
<1>4. /\ NoSettlement \in SettlementLocals /\ NoSettlement.pc = "idle"
      /\ Rows(NoSettlement.rows) = {} /\ NoSettlement.supplied = NoResults
  BY <1>1 DEF NoSettlement, SettlementLocals, Rows
<1>5. Resting \in CollectorLocals /\ Resting.quote = {}
  BY DEF Resting, CollectorLocals
<1> QED
  BY <1>1, <1>2, <1>3, <1>4, <1>5

\* What the settlement makes of a row: the same signal, unchanged when it is
\* official already, and otherwise with the entry of its match, if there is one.
LEMMA SettledRowKeeps ==
    ASSUME NEW row \in Signal, NEW supplied \in Supplies
    PROVE  LET new == SettledRow(row, supplied) IN
           /\ new \in Signal /\ SignalId(new) = SignalId(row)
           /\ new.event = row.event /\ new.at = row.at
           /\ row.status = "OFFICIAL" => new = row
           /\ new = row \/ /\ row.event \in DOMAIN supplied /\ row.status # "OFFICIAL"
                           /\ new.status = "OFFICIAL"
                           /\ new.result = supplied[row.event].result
                           /\ new.available = supplied[row.event].available
                           /\ new.winner = supplied[row.event].winner
<1> DEFINE new == SettledRow(row, supplied)
<1>1. CASE row.event \notin DOMAIN supplied \/ row.status = "OFFICIAL"
  BY <1>1 DEF SettledRow, SignalId
<1>2. CASE ~(row.event \notin DOMAIN supplied \/ row.status = "OFFICIAL")
  <2>1. new = [row EXCEPT !.status = "OFFICIAL", !.result = supplied[row.event].result,
                          !.available = supplied[row.event].available,
                          !.winner = supplied[row.event].winner]
    BY <1>2, Zenon DEF SettledRow
  <2>2. supplied[row.event] \in Entry
    BY <1>2, SuppliesForm
  <2>3. new \in Signal
    BY <2>1, <2>2 DEF Signal, Entry
  <2>4. /\ new.event = row.event /\ new.at = row.at /\ new.selection = row.selection
        /\ new.status = "OFFICIAL"
        /\ new.result = supplied[row.event].result
        /\ new.available = supplied[row.event].available
        /\ new.winner = supplied[row.event].winner
    BY <2>1 DEF Signal
  <2> QED
    BY <1>2, <2>3, <2>4 DEF SignalId
<1> QED
  BY <1>1, <1>2

\* A file of settled rows has the rows that the settlement made.
LEMMA SettledFile ==
    ASSUME NEW rows \in Seq(Signal), NEW supplied \in Supplies
    PROVE  LET new == [i \in DOMAIN rows |-> SettledRow(rows[i], supplied)] IN
           new \in Seq(Signal) /\ Rows(new) = {SettledRow(row, supplied) : row \in Rows(rows)}
<1>1. \A i \in DOMAIN rows : SettledRow(rows[i], supplied) \in Signal
  BY SettledRowKeeps
<1>2. DOMAIN rows = 1..Len(rows) /\ Len(rows) \in Nat
  OBVIOUS
<1>3. [i \in DOMAIN rows |-> SettledRow(rows[i], supplied)] \in Seq(Signal)
  BY <1>1, <1>2
<1> QED
  BY <1>3 DEF Rows

\* The results that are built from captured rows speak of captured selections.
LEMMA BuiltResultsFit ==
    ASSUME NEW rows \in Seq(Signal), NEW at \in Instants,
           \A row \in Rows(rows) : SignalId(row) \in captured,
           NEW built, built = BuiltResults(rows, at)
    PROVE  built \in Supplies /\ EntriesFit(built)
<1>1. /\ DOMAIN built = {f \in Events : Unsettled(rows, f) # {} /\ SeriesWinner(f) # {}}
      /\ built = [e \in DOMAIN built |-> built[e]]
  BY DEF BuiltResults
<1>2. SUFFICES ASSUME NEW e \in DOMAIN built
               PROVE  /\ built[e] \in Entry
                      /\ \E id \in captured :
                            id[1] = e /\ (built[e].result = 1 <=> built[e].winner = id[2])
  BY <1>1, SuppliesForm DEF EntriesFit
<1> DEFINE winner == CHOOSE s \in SeriesWinner(e) : TRUE
           row == rows[LastOf(Unsettled(rows, e))]
<1>3. built[e] = [winner |-> winner, result |-> IF row.selection = winner THEN 1 ELSE 0,
                  available |-> at]
  BY <1>1, Zenon DEF BuiltResults
<1>4. winner \in Sides
  <2>1. winner \in SeriesWinner(e)
    BY <1>1, Zenon
  <2> QED
    BY <2>1 DEF SeriesWinner
<1>5. row \in Rows(rows) /\ row.event = e
  <2>1. Unsettled(rows, e) \in SUBSET DOMAIN rows /\ Unsettled(rows, e) # {}
    BY <1>1 DEF Unsettled
  <2>2. LastOf(Unsettled(rows, e)) \in Unsettled(rows, e)
    BY <2>1, LastIsThere, Zenon
  <2> QED
    BY <2>2 DEF Unsettled, Rows
<1>6. built[e] \in Entry
  BY <1>3, <1>4 DEF Entry, Outcomes
<1>7. SignalId(row) \in captured /\ SignalId(row)[1] = e /\ SignalId(row)[2] = row.selection
  BY <1>5 DEF SignalId
<1>8. built[e].result = 1 <=> built[e].winner = row.selection
  BY <1>3
<1> QED
  BY <1>6, <1>7, <1>8

-----------------------------------------------------------------------------
(* The initial state and the steps.                                        *)

\* An empty cohort, closed, with every process at rest.
LEMMA CohortInitIInv == CohortInit => CohortIInv /\ EvaluationIInv
<1> SUFFICES ASSUME CohortInit PROVE CohortIInv /\ EvaluationIInv
  OBVIOUS
<1> USE DEF CohortInit
<1>1. 0 \in Instants /\ 1 \in Instants
  BY H4BoundsAssumption DEF Instants
<1>2. /\ Rows(signals) = {} /\ Rows(weekly.rows) = {} /\ DOMAIN results.entries = {}
      /\ \A s \in SettlementJobs : /\ settlement[s].pc = "idle" /\ Rows(settlement[s].rows) = {}
                                   /\ DOMAIN settlement[s].supplied = {}
  <2>1. Rows(signals) = {} /\ Rows(weekly.rows) = {}
    <3>1. Rows(<<>>) = {}
      BY DEF Rows
    <3> QED
      BY <3>1, RestForm
  <2>2. DOMAIN results.entries = {}
    BY RestForm
  <2>3. \A s \in SettlementJobs : settlement[s] = NoSettlement
    OBVIOUS
  <2> QED
    BY <2>1, <2>2, <2>3, RestForm
<1>3. CohortTypeOK
  <2>1. signals \in Seq(Signal) /\ weekly \in WeeklyLocals
    BY RestForm
  <2>2. results \in [readable: BOOLEAN, entries: Supplies]
    BY RestForm DEF Unreadable
  <2>3. collector \in [Collectors -> CollectorLocals]
    BY RestForm
  <2>4. settlement \in [SettlementJobs -> SettlementLocals]
    BY RestForm
  <2> QED
    BY <1>1, <1>2, <2>1, <2>2, <2>3, <2>4 DEF CohortTypeOK, Closures
<1>4. RowsFit /\ ResultsFit /\ LostOnlyToSettlement
  BY <1>2 DEF RowsFit, ResultsFit, EntriesFit, LostOnlyToSettlement
<1>5. QuotesFit
  BY RestForm DEF QuotesFit
<1>6. SettlementHolds /\ RecordIsTrue /\ EvaluationStands /\ GateCountsEnough
  BY <1>2 DEF SettlementHolds, RecordIsTrue, EvaluationStands, GateCountsEnough
<1> QED
  BY <1>3, <1>4, <1>5, <1>6 DEF CohortIInv, EvaluationIInv

\* The world, the record and the evaluation: no file of the cohort changes.
LEMMA WorldSteps ==
    ASSUME CohortIInv,
           \/ Passes \/ IngestGame \/ Decide \/ Damage
           \/ EvaluatorChecks \/ PublishGate \/ EvaluatorDies \/ UNCHANGED cohortVars
    PROVE  CohortIInv'
<1>1. UNCHANGED <<signals, captured, exposed, undone, results, collector, weekly, settlement>>
  BY DEF Passes, IngestGame, Decide, Damage, EvaluatorChecks, PublishGate, EvaluatorDies,
         cohortVars, files, settling
<1>2. CohortTypeOK'
  <2>1. now' \in Instants
    BY H4BoundsAssumption
       DEF Passes, IngestGame, Decide, Damage, EvaluatorChecks, PublishGate, EvaluatorDies,
           cohortVars, Instants, CohortIInv, CohortTypeOK
  <2>2. closure' \in Closures /\ decided' \in {"CLOSED", "REOPENED"}
    BY DEF Passes, IngestGame, Decide, Damage, EvaluatorChecks, PublishGate, EvaluatorDies,
           cohortVars, human, Closures, CohortIInv, CohortTypeOK
  <2>3. games' \subseteq Game
    BY DEF Passes, IngestGame, Decide, Damage, EvaluatorChecks, PublishGate, EvaluatorDies,
           cohortVars, CohortIInv, CohortTypeOK
  <2>4. evaluator' \in {"idle", "ready"} /\ gate' \subseteq Signal
    <3>1. OfficialRows \subseteq Signal
      BY RowsAreSignals DEF OfficialRows, CohortIInv, CohortTypeOK
    <3> QED
      BY <3>1 DEF Passes, IngestGame, Decide, Damage, EvaluatorChecks, PublishGate,
                  EvaluatorDies, cohortVars, CohortIInv, CohortTypeOK
  <2> QED
    BY <1>1, <2>1, <2>2, <2>3, <2>4 DEF CohortIInv, CohortTypeOK
<1>3. RowsFit' /\ QuotesFit' /\ ResultsFit' /\ SettlementHolds'
  BY <1>1 DEF CohortIInv, RowsFit, RowFits, QuotesFit, ResultsFit, EntriesFit,
              SettlementHolds, Rows
<1>4. RecordIsTrue'
  BY DEF Passes, IngestGame, Decide, Damage, EvaluatorChecks, PublishGate, EvaluatorDies,
         cohortVars, human, CohortIInv, RecordIsTrue
<1>5. LostOnlyToSettlement'
  BY <1>1 DEF CohortIInv, LostOnlyToSettlement, Rows
<1> QED
  BY <1>2, <1>3, <1>4, <1>5 DEF CohortIInv

\* A collector that lists, fetches, builds a signal or dies.
LEMMA CollectorSteps ==
    ASSUME CohortIInv, NEW c \in Collectors,
           ListUpcoming(c) \/ FetchMatch(c) \/ CollectorDies(c)
    PROVE  CohortIInv'
<1>1. UNCHANGED <<now, human, games, files, results, settling, evaluator, gate>>
  BY DEF ListUpcoming, FetchMatch, CollectorDies
<1>2. PICK l \in CollectorLocals :
        /\ collector' = [collector EXCEPT ![c] = l]
        /\ \A row \in l.quote : row.at < Start[row.event] /\ row.status = "PENDING"
  <2>1. CASE ListUpcoming(c)
    <3>1. PICK found \in SUBSET Upcoming :
            collector' = [collector EXCEPT ![c] = [pc |-> "next", todo |-> found, quote |-> {}]]
      BY <2>1 DEF ListUpcoming
    <3>2. [pc |-> "next", todo |-> found, quote |-> {}] \in CollectorLocals
      BY DEF Upcoming, CollectorLocals
    <3> QED
      BY <3>1, <3>2
  <2>2. CASE FetchMatch(c)
    <3>1. collector \in [Collectors -> CollectorLocals] /\ collector[c] \in CollectorLocals
      BY DEF CohortIInv, CohortTypeOK
    <3>2. PICK e \in NextMatch(collector[c].todo) :
            \/ \E row \in BuildSignal(e) :
                collector' = [collector EXCEPT ![c].pc = "signal", ![c].quote = {row}]
            \/ collector' = [collector EXCEPT ![c] = Resumed(c, e)]
      BY <2>2 DEF FetchMatch
    <3>3. e \in Events
      BY <3>1 DEF NextMatch, CollectorLocals
    <3>4. Resumed(c, e) \in CollectorLocals /\ Resumed(c, e).quote = {}
      BY <3>1 DEF Resumed, Resting, Left, CollectorLocals
    <3>5. ASSUME NEW row \in BuildSignal(e)
          PROVE  row \in Signal /\ row.at < Start[row.event] /\ row.status = "PENDING"
      BY <3>3, <3>5, H4BoundsAssumption
         DEF BuildSignal, Signal, Instants, Outcomes, Pending, CohortIInv, CohortTypeOK
    <3>6. ASSUME NEW row \in BuildSignal(e),
                 collector' = [collector EXCEPT ![c].pc = "signal", ![c].quote = {row}]
          PROVE  \E l \in CollectorLocals :
                    /\ collector' = [collector EXCEPT ![c] = l]
                    /\ \A r \in l.quote : r.at < Start[r.event] /\ r.status = "PENDING"
      <4> DEFINE l == [collector[c] EXCEPT !.pc = "signal", !.quote = {row}]
      <4>1. l \in CollectorLocals /\ l.quote = {row}
        BY <3>1, <3>5 DEF CollectorLocals
      <4>2. collector' = [collector EXCEPT ![c] = l]
        BY <3>1, <3>6
      <4> QED
        BY <3>5, <4>1, <4>2
    <3> QED
      BY <3>2, <3>4, <3>6
  <2>3. CASE CollectorDies(c)
    BY <2>3, RestForm DEF CollectorDies
  <2> QED
    BY <2>1, <2>2, <2>3
<1>3. CohortTypeOK'
  BY <1>1, <1>2 DEF CohortIInv, CohortTypeOK, human, files, settling
<1>4. QuotesFit'
  BY <1>2 DEF CohortIInv, CohortTypeOK, QuotesFit
<1>5. RowsFit' /\ ResultsFit' /\ SettlementHolds' /\ RecordIsTrue' /\ LostOnlyToSettlement'
  BY <1>1 DEF CohortIInv, RowsFit, RowFits, ResultsFit, EntriesFit, SettlementHolds,
              RecordIsTrue, LostOnlyToSettlement, Rows, human, files, settling
<1> QED
  BY <1>3, <1>4, <1>5 DEF CohortIInv

\* append_once adds the row of a quote, which is pending, or nothing.
LEMMA AppendedRows ==
    ASSUME CohortTypeOK, QuotesFit, NEW c \in Collectors, AppendOnce(c)
    PROVE  \E new \in Signal :
            /\ new.at < Start[new.event] /\ new.status = "PENDING"
            /\ SignalId(new) \in SignalIds
            /\ signals' \in Seq(Signal)
            /\ collector' = [collector EXCEPT ![c] = Resumed(c, new.event)]
            /\ \/ UNCHANGED <<signals, captured, exposed>>
               \/ /\ Rows(signals') = Rows(signals) \union {new}
                  /\ captured' = captured \union {SignalId(new)}
                  /\ exposed' = IF \E s \in SettlementJobs : settlement[s].pc = "rows"
                                THEN exposed \union {SignalId(new)} ELSE exposed
<1>1. PICK new \in collector[c].quote :
        /\ IF \E row \in Rows(signals) : SignalId(row) = SignalId(new)
           THEN UNCHANGED <<signals, captured, exposed>>
           ELSE /\ Cardinality(captured) < MaxCaptured
                /\ signals' = Append(signals, new)
                /\ captured' = captured \union {SignalId(new)}
                /\ exposed' = IF \E s \in SettlementJobs : settlement[s].pc = "rows"
                              THEN exposed \union {SignalId(new)} ELSE exposed
        /\ collector' = [collector EXCEPT ![c] = Resumed(c, new.event)]
  BY DEF AppendOnce
<1>2. /\ new \in Signal /\ new.at < Start[new.event] /\ new.status = "PENDING"
      /\ SignalId(new) \in SignalIds /\ signals \in Seq(Signal)
  BY DEF CohortTypeOK, CollectorLocals, QuotesFit, Signal, SignalId, SignalIds
<1>3. Append(signals, new) \in Seq(Signal)
      /\ Rows(Append(signals, new)) = Rows(signals) \union {new}
  BY <1>2, RowsOfAppend
<1>4. CASE \E row \in Rows(signals) : SignalId(row) = SignalId(new)
  BY <1>1, <1>2, <1>4
<1>5. CASE ~\E row \in Rows(signals) : SignalId(row) = SignalId(new)
  BY <1>1, <1>2, <1>3, <1>5
<1> QED
  BY <1>4, <1>5

\* append_once: a new row is exposed when a settlement holds the rows.
LEMMA AppendSteps ==
    ASSUME CohortIInv, NEW c \in Collectors, AppendOnce(c)
    PROVE  CohortIInv'
<1>1. UNCHANGED <<now, human, games, undone, results, settling, evaluator, gate>>
  BY DEF AppendOnce
<1>2. PICK new \in Signal :
        /\ new.at < Start[new.event] /\ new.status = "PENDING"
        /\ SignalId(new) \in SignalIds
        /\ signals' \in Seq(Signal)
        /\ collector' = [collector EXCEPT ![c] = Resumed(c, new.event)]
        /\ \/ UNCHANGED <<signals, captured, exposed>>
           \/ /\ Rows(signals') = Rows(signals) \union {new}
              /\ captured' = captured \union {SignalId(new)}
              /\ exposed' = IF \E s \in SettlementJobs : settlement[s].pc = "rows"
                            THEN exposed \union {SignalId(new)} ELSE exposed
  BY AppendedRows DEF CohortIInv
<1>3. collector \in [Collectors -> CollectorLocals] /\ collector[c] \in CollectorLocals
  BY DEF CohortIInv, CohortTypeOK
<1>4. Resumed(c, new.event) \in CollectorLocals /\ Resumed(c, new.event).quote = {}
  BY <1>3 DEF Resumed, Resting, Left, CollectorLocals
<1>5. /\ captured \subseteq captured' /\ exposed \subseteq exposed'
      /\ Rows(signals) \subseteq Rows(signals')
  BY <1>2 DEF Rows
<1>6. CohortTypeOK'
  <2>1. captured' \subseteq SignalIds /\ exposed' \subseteq captured'
    BY <1>2 DEF CohortIInv, CohortTypeOK
  <2> QED
    BY <1>1, <1>2, <1>4, <2>1 DEF CohortIInv, CohortTypeOK, human, settling
<1>7. QuotesFit'
  BY <1>2, <1>4 DEF CohortIInv, CohortTypeOK, QuotesFit
<1>8. RowsFit'
  <2>1. \A row : RowFits(row) => RowFits(row)'
    BY <1>5 DEF RowFits
  <2>2. \A row \in Rows(signals') : row \in Rows(signals) \/ (row = new /\ SignalId(new) \in captured')
    BY <1>2 DEF Rows
  <2>3. SignalId(new) \in captured' => RowFits(new)'
    BY <1>2 DEF RowFits
  <2>4. \A row \in Rows(signals') : RowFits(row)'
    BY <2>1, <2>2, <2>3 DEF CohortIInv, RowsFit
  <2>5. /\ \A row \in Rows(weekly.rows) : RowFits(row)'
        /\ \A s \in SettlementJobs : \A row \in Rows(settlement[s].rows) : RowFits(row)'
    BY <2>1 DEF CohortIInv, RowsFit
  <2> QED
    BY <1>1, <2>4, <2>5 DEF RowsFit, Rows, settling
<1>9. ResultsFit'
  BY <1>1, <1>5 DEF CohortIInv, ResultsFit, EntriesFit, settling
<1>10. SettlementHolds'
  BY <1>1, <1>2 DEF CohortIInv, SettlementHolds, Rows, settling
<1>11. LostOnlyToSettlement'
  <2>1. CASE UNCHANGED <<signals, captured, exposed>>
    BY <2>1 DEF CohortIInv, LostOnlyToSettlement, Rows
  <2>2. CASE /\ Rows(signals') = Rows(signals) \union {new}
             /\ captured' = captured \union {SignalId(new)}
    <3>1. captured' \ {SignalId(row) : row \in Rows(signals')} \subseteq exposed'
      BY <1>5, <2>2 DEF CohortIInv, LostOnlyToSettlement
    <3> QED
      BY <3>1 DEF LostOnlyToSettlement, Rows
  <2> QED
    BY <1>2, <2>1, <2>2
<1>12. RecordIsTrue'
  BY <1>1 DEF CohortIInv, RecordIsTrue, human
<1> QED
  BY <1>6, <1>7, <1>8, <1>9, <1>10, <1>11, <1>12 DEF CohortIInv

\* build_h4_results.py, which builds results of captured rows, and a weekly
\* refresh that dies.
LEMMA BuildSteps ==
    ASSUME CohortIInv, BuildReads \/ BuildWrites \/ BuildFails \/ WeeklyDies
    PROVE  CohortIInv'
<1>1. UNCHANGED <<now, human, games, files, collector, settlement, evaluator, gate>>
  BY DEF BuildReads, BuildWrites, BuildFails, WeeklyDies
<1>2. signals \in Seq(Signal) /\ weekly \in WeeklyLocals /\ now \in Instants
  BY DEF CohortIInv, CohortTypeOK
<1>3. /\ weekly' \in WeeklyLocals
      /\ Rows(weekly'.rows) \subseteq Rows(signals)
  <2>1. CASE BuildReads
    BY <1>2, <2>1 DEF BuildReads, WeeklyLocals
  <2>2. CASE BuildWrites \/ BuildFails
    <3>1. weekly' = [NoWeekly EXCEPT !.pc = "settle"]
      BY <2>2 DEF BuildWrites, BuildFails
    <3>2. weekly' \in WeeklyLocals /\ weekly'.rows = NoWeekly.rows
      BY <3>1, RestForm DEF WeeklyLocals
    <3> QED
      BY <3>2, RestForm
  <2>3. CASE WeeklyDies
    BY <2>3, RestForm DEF WeeklyDies
  <2> QED
    BY <2>1, <2>2, <2>3
<1>4. results' \in [readable: BOOLEAN, entries: Supplies] /\ EntriesFit(results'.entries)
  <2>1. CASE UNCHANGED results
    BY <2>1 DEF CohortIInv, CohortTypeOK, ResultsFit
  <2>2. CASE results' = Unreadable
    BY <2>2, RestForm DEF Unreadable, EntriesFit
  <2>3. CASE BuildWrites
    <3> DEFINE built == BuiltResults(weekly.rows, weekly.at)
    <3>1. weekly.rows \in Seq(Signal) /\ weekly.at \in Instants
      BY <1>2 DEF WeeklyLocals
    <3>2. \A row \in Rows(weekly.rows) : SignalId(row) \in captured
      BY DEF CohortIInv, RowsFit, RowFits
    <3>3. built \in Supplies /\ EntriesFit(built)
      BY <3>1, <3>2, BuiltResultsFit
    <3>4. results' = [readable |-> TRUE, entries |-> built]
      BY <2>3 DEF BuildWrites
    <3> HIDE DEF built
    <3> QED
      BY <3>3, <3>4
  <2> QED
    BY <2>1, <2>2, <2>3 DEF BuildReads, BuildFails, WeeklyDies
<1>5. CohortTypeOK'
  BY <1>1, <1>3, <1>4 DEF CohortIInv, CohortTypeOK, human, files
<1>6. RowsFit'
  BY <1>1, <1>3 DEF CohortIInv, RowsFit, RowFits, Rows, files
<1>7. ResultsFit'
  BY <1>1, <1>4 DEF CohortIInv, ResultsFit, EntriesFit, files
<1>8. QuotesFit' /\ RecordIsTrue' /\ SettlementHolds' /\ LostOnlyToSettlement'
  BY <1>1 DEF CohortIInv, QuotesFit, RecordIsTrue, SettlementHolds, LostOnlyToSettlement,
              Rows, human, files
<1> QED
  BY <1>5, <1>6, <1>7, <1>8 DEF CohortIInv

\* A settlement that leaves the file alone holds nothing, results that were
\* in the file, or the rows that are in the file.
LEMMA SettlementKept ==
    ASSUME CohortIInv, NEW s \in SettlementJobs, NEW l \in SettlementLocals,
           UNCHANGED <<now, human, games, captured, exposed, results, collector, evaluator, gate>>,
           settlement' = [settlement EXCEPT ![s] = l], weekly' \in {weekly, NoWeekly},
           \A row \in Rows(l.rows) : RowFits(row), EntriesFit(l.supplied),
           l.pc = "rows" => captured \ {SignalId(row) : row \in Rows(l.rows)} \subseteq exposed,
           undone' \in BOOLEAN,
           signals' \in Seq(Signal), \A row \in Rows(signals') : RowFits(row),
           captured \ {SignalId(row) : row \in Rows(signals')} \subseteq exposed
    PROVE  CohortIInv'
<1>1. /\ settlement \in [SettlementJobs -> SettlementLocals] /\ weekly \in WeeklyLocals
      /\ \A r \in SettlementJobs : settlement'[r] = IF r = s THEN l ELSE settlement[r]
  BY DEF CohortIInv, CohortTypeOK
<1>2. CohortTypeOK'
  BY <1>1, RestForm DEF CohortIInv, CohortTypeOK, human
<1>3. RowsFit'
  <2>1. \A row : RowFits(row)' <=> RowFits(row)
    BY DEF RowFits
  <2>2. \A row \in Rows(weekly'.rows) : RowFits(row)
    BY RestForm DEF CohortIInv, RowsFit
  <2>3. \A r \in SettlementJobs : \A row \in Rows(settlement'[r].rows) : RowFits(row)
    BY <1>1 DEF CohortIInv, RowsFit
  <2> QED
    BY <2>1, <2>2, <2>3 DEF RowsFit, Rows
<1>4. ResultsFit'
  BY <1>1 DEF CohortIInv, ResultsFit, EntriesFit
<1>5. SettlementHolds'
  <2>1. \A r \in SettlementJobs : settlement'[r].pc = "rows" =>
            captured \ {SignalId(row) : row \in Rows(settlement'[r].rows)} \subseteq exposed
    BY <1>1 DEF CohortIInv, SettlementHolds
  <2> QED
    BY <2>1 DEF SettlementHolds, Rows
<1>6. QuotesFit' /\ RecordIsTrue'
  BY DEF CohortIInv, QuotesFit, RecordIsTrue, human
<1>7. LostOnlyToSettlement'
  BY DEF LostOnlyToSettlement, Rows
<1> QED
  BY <1>2, <1>3, <1>4, <1>5, <1>6, <1>7 DEF CohortIInv

\* A settlement begins, reads the rows or gives up.
LEMMA SettleSteps ==
    ASSUME CohortIInv, NEW s \in SettlementJobs,
           SettleBegins(s) \/ SettleReads(s) \/ SettleDies(s)
    PROVE  CohortIInv'
<1>1. UNCHANGED <<now, human, games, files, results, collector, evaluator, gate>>
  BY DEF SettleBegins, SettleReads, SettleDies
<1>2. /\ signals \in Seq(Signal) /\ \A row \in Rows(signals) : RowFits(row)
      /\ captured \ {SignalId(row) : row \in Rows(signals)} \subseteq exposed
      /\ settlement \in [SettlementJobs -> SettlementLocals]
      /\ settlement[s] \in SettlementLocals /\ EntriesFit(settlement[s].supplied)
      /\ results.entries \in Supplies /\ EntriesFit(results.entries)
  BY DEF CohortIInv, CohortTypeOK, RowsFit, ResultsFit, LostOnlyToSettlement
<1>3. PICK l \in SettlementLocals :
        /\ settlement' = [settlement EXCEPT ![s] = l] /\ weekly' \in {weekly, NoWeekly}
        /\ EntriesFit(l.supplied)
        /\ \A row \in Rows(l.rows) : RowFits(row)
        /\ l.pc = "rows" => l.rows = signals
  <2>1. CASE Ends(s)
    BY <2>1, RestForm DEF Ends, EntriesFit
  <2>2. CASE SettleReads(s)
    <3> DEFINE l == [settlement[s] EXCEPT !.pc = "rows", !.rows = signals]
    <3>1. l \in SettlementLocals /\ l.rows = signals /\ l.supplied = settlement[s].supplied
      BY <1>2 DEF SettlementLocals
    <3>2. settlement' = [settlement EXCEPT ![s] = l] /\ weekly' = weekly
      BY <1>2, <2>2 DEF SettleReads
    <3> HIDE DEF l
    <3> QED
      BY <1>2, <3>1, <3>2
  <2>3. CASE SettleBegins(s) /\ ~Ends(s)
    <3> DEFINE l == [NoSettlement EXCEPT !.pc = "results", !.supplied = results.entries]
    <3>1. /\ l \in SettlementLocals /\ l.pc = "results" /\ l.rows = NoSettlement.rows
          /\ l.supplied = results.entries
      BY <1>2, RestForm DEF SettlementLocals
    <3>2. settlement' = [settlement EXCEPT ![s] = l] /\ weekly' = weekly
      BY <2>3 DEF SettleBegins
    <3> HIDE DEF l
    <3> QED
      BY <1>2, <3>1, <3>2, RestForm
  <2> QED
    BY <2>1, <2>2, <2>3 DEF SettleDies
<1>4. /\ signals' \in Seq(Signal) /\ \A row \in Rows(signals') : RowFits(row)
      /\ captured \ {SignalId(row) : row \in Rows(signals')} \subseteq exposed
      /\ UNCHANGED <<captured, exposed>>
  BY <1>1, <1>2 DEF files
<1>5. l.pc = "rows" => captured \ {SignalId(row) : row \in Rows(l.rows)} \subseteq exposed
  BY <1>2, <1>3
<1>6. undone' \in BOOLEAN
  BY <1>1 DEF files, CohortIInv, CohortTypeOK
<1> QED
  BY <1>1, <1>3, <1>4, <1>5, <1>6, SettlementKept

\* What a settlement writes: the rows it read, settled, or nothing.
LEMMA ReplacedRows ==
    ASSUME CohortTypeOK, NEW s \in SettlementJobs, SettleReplaces(s)
    PROVE  LET supplied == settlement[s].supplied
               rows == settlement[s].rows
           IN  /\ rows \in Seq(Signal) /\ supplied \in Supplies
               /\ \/ signals' = signals
                  \/ /\ \A row \in Rows(rows) : ~Refused(row, supplied)
                     /\ signals' \in Seq(Signal)
                     /\ Rows(signals') = {SettledRow(row, supplied) : row \in Rows(rows)}
<1> DEFINE supplied == settlement[s].supplied
           rows == settlement[s].rows
<1>1. rows \in Seq(Signal) /\ supplied \in Supplies
  BY DEF CohortTypeOK, SettlementLocals
<1>2. \/ signals' = signals
      \/ /\ \A row \in Rows(rows) : ~Refused(row, supplied)
         /\ signals' = [i \in DOMAIN rows |-> SettledRow(rows[i], supplied)]
  BY DEF SettleReplaces
<1> QED
  BY <1>1, <1>2, SettledFile

\* The settlement replaces the file with the rows it read, settled: what it
\* does not write back was exposed.
LEMMA ReplaceSteps ==
    ASSUME CohortIInv, NEW s \in SettlementJobs, SettleReplaces(s)
    PROVE  CohortIInv'
<1> DEFINE supplied == settlement[s].supplied
           rows == settlement[s].rows
           Settled(row) == SettledRow(row, supplied)
<1>1. /\ UNCHANGED <<now, human, games, captured, exposed, results, collector, evaluator, gate>>
      /\ settlement[s].pc = "rows" /\ weekly' \in {weekly, NoWeekly}
      /\ settlement' = [settlement EXCEPT ![s] = NoSettlement]
  BY DEF SettleReplaces, Ends
<1>2. /\ rows \in Seq(Signal) /\ supplied \in Supplies /\ signals \in Seq(Signal)
      /\ \/ signals' = signals
         \/ /\ \A row \in Rows(rows) : ~Refused(row, supplied)
            /\ signals' \in Seq(Signal)
            /\ Rows(signals') = {Settled(row) : row \in Rows(rows)}
  BY ReplacedRows DEF CohortIInv, CohortTypeOK
<1>3. /\ \A row \in Rows(rows) : row \in Signal /\ RowFits(row)
      /\ EntriesFit(supplied)
      /\ captured \ {SignalId(row) : row \in Rows(rows)} \subseteq exposed
  BY <1>1, <1>2, RowsAreSignals DEF CohortIInv, RowsFit, ResultsFit, SettlementHolds
<1>4. ASSUME NEW row \in Rows(rows), ~Refused(row, supplied)
      PROVE  RowFits(Settled(row))
  <2> DEFINE new == Settled(row)
  <2>1. /\ row \in Signal /\ RowFits(row)
        /\ SignalId(new) = SignalId(row) /\ new.event = row.event /\ new.at = row.at
        /\ \/ new = row
           \/ /\ row.event \in DOMAIN supplied /\ new.status = "OFFICIAL"
              /\ new.result = supplied[row.event].result
              /\ new.available = supplied[row.event].available
              /\ new.winner = supplied[row.event].winner
    BY <1>2, <1>3, SettledRowKeeps
  <2>2. CASE new = row
    BY <2>1, <2>2
  <2>3. CASE new # row
    <3>1. supplied[row.event] \in Entry /\ row.event \in DOMAIN supplied
      BY <1>2, <2>1, <2>3, SuppliesForm
    <3>2. Start[row.event] <= supplied[row.event].available
      <4>1. Start[row.event] \in Nat /\ supplied[row.event].available \in Nat
        BY <2>1, <3>1, EventsAssumption, H4BoundsAssumption DEF Entry, Signal, Instants
      <4>2. ~(supplied[row.event].available < Start[row.event])
        BY <1>4, <3>1 DEF Refused
      <4> QED
        BY <4>1, <4>2
    <3>3. \E id \in captured : id[1] = row.event /\
            (supplied[row.event].result = 1 <=> supplied[row.event].winner = id[2])
      BY <1>3, <3>1 DEF EntriesFit
    <3>4. new.at < Start[new.event] /\ SignalId(new) \in captured
      BY <2>1 DEF RowFits
    <3>5. Start[new.event] <= new.available /\ new.result \in Outcomes
      BY <2>1, <2>3, <3>1, <3>2 DEF Entry
    <3>6. \E id \in captured : id[1] = new.event /\ (new.result = 1 <=> new.winner = id[2])
      BY <2>1, <2>3, <3>3
    <3> QED
      BY <3>4, <3>5, <3>6 DEF RowFits
  <2> QED
    BY <2>2, <2>3
<1>5. signals' \in Seq(Signal) /\ \A row \in Rows(signals') : RowFits(row)
  BY <1>2, <1>4 DEF CohortIInv, RowsFit
<1>6. captured \ {SignalId(row) : row \in Rows(signals')} \subseteq exposed
  <2>1. CASE signals' = signals
    BY <2>1 DEF CohortIInv, LostOnlyToSettlement
  <2>2. CASE Rows(signals') = {Settled(row) : row \in Rows(rows)}
    <3>1. \A row \in Rows(rows) : SignalId(Settled(row)) = SignalId(row)
      BY <1>2, <1>3, SettledRowKeeps
    <3> HIDE DEF Settled
    <3>2. \A row \in Rows(rows) : SignalId(row) \in {SignalId(new) : new \in Rows(signals')}
      BY <2>2, <3>1
    <3> QED
      BY <1>3, <3>2
  <2> QED
    BY <1>2, <2>1, <2>2
<1>7. /\ NoSettlement \in SettlementLocals /\ NoSettlement.pc # "rows"
      /\ \A row \in Rows(NoSettlement.rows) : RowFits(row)
      /\ EntriesFit(NoSettlement.supplied)
  BY RestForm DEF EntriesFit
<1>8. undone' \in BOOLEAN
  BY DEF SettleReplaces
<1> QED
  BY <1>1, <1>5, <1>6, <1>7, <1>8, SettlementKept

\* Every step keeps the invariant.
LEMMA CohortStepIInv == CohortIInv /\ [CohortNext]_cohortVars => CohortIInv'
<1> SUFFICES ASSUME CohortIInv, [CohortNext]_cohortVars PROVE CohortIInv'
  OBVIOUS
<1>1. CASE \/ Passes \/ IngestGame \/ Decide \/ Damage
           \/ EvaluatorChecks \/ PublishGate \/ EvaluatorDies \/ UNCHANGED cohortVars
  BY <1>1, WorldSteps
<1>2. ASSUME NEW c \in Collectors, ListUpcoming(c) \/ FetchMatch(c) \/ CollectorDies(c)
      PROVE  CohortIInv'
  BY <1>2, CollectorSteps
<1>3. ASSUME NEW c \in Collectors, AppendOnce(c) PROVE CohortIInv'
  BY <1>3, AppendSteps
<1>4. CASE BuildReads \/ BuildWrites \/ BuildFails \/ WeeklyDies
  BY <1>4, BuildSteps
<1>5. ASSUME NEW s \in SettlementJobs, SettleBegins(s) \/ SettleReads(s) \/ SettleDies(s)
      PROVE  CohortIInv'
  BY <1>5, SettleSteps
<1>6. ASSUME NEW s \in SettlementJobs, SettleReplaces(s) PROVE CohortIInv'
  BY <1>6, ReplaceSteps
<1> QED
  BY <1>1, <1>2, <1>3, <1>4, <1>5, <1>6 DEF CohortNext

-----------------------------------------------------------------------------
(* The evaluation.                                                         *)

\* An evaluation stands as long as official rows stay in the file: time only
\* passes.
LEMMA OfficialRowsStand ==
    ASSUME CohortIInv, ~undone, EvaluationStands, CohortTypeOK', now <= now', evaluator' \in {"idle", evaluator},
           \A row \in Rows(signals) : row.status = "OFFICIAL" => row \in Rows(signals)'
    PROVE  EvaluationStands'
<1>1. SUFFICES ASSUME evaluator' = "ready"
               PROVE  /\ Cardinality({row.event : row \in OfficialRows'}) >= MinMatured
                      /\ Cardinality({Competition[row.event] : row \in OfficialRows'})
                            >= MinCompetitions
  BY DEF EvaluationStands
<1>2. /\ Cardinality({row.event : row \in OfficialRows}) >= MinMatured
      /\ Cardinality({Competition[row.event] : row \in OfficialRows}) >= MinCompetitions
  BY <1>1 DEF EvaluationStands
<1>3. Rows(signals) \subseteq Signal /\ Rows(signals)' \subseteq Signal
  <2>1. signals \in Seq(Signal) /\ signals' \in Seq(Signal)
    BY DEF CohortIInv, CohortTypeOK
  <2>2. Rows(signals') \subseteq Signal
    BY <2>1, RowsAreSignals
  <2> QED
    BY <2>1, <2>2, RowsAreSignals DEF Rows
<1>4. OfficialRows \in SUBSET Signal /\ OfficialRows' \in SUBSET Signal
  BY <1>3 DEF OfficialRows
<1>5. OfficialRows \subseteq OfficialRows'
  <2>1. ASSUME NEW row \in Signal, Mature(row) PROVE Mature(row)'
    <3>1. Start[row.event] \in Nat /\ now \in Nat /\ now' \in Nat
      BY EventsAssumption DEF Signal, CohortIInv, CohortTypeOK, Instants
    <3> QED
      BY <2>1, <3>1 DEF Mature
  <2> QED
    BY <1>3, <2>1 DEF OfficialRows
<1>6. /\ Cardinality({row.event : row \in OfficialRows}) \in Nat
      /\ Cardinality({row.event : row \in OfficialRows'}) \in Nat
      /\ Cardinality({row.event : row \in OfficialRows})
            <= Cardinality({row.event : row \in OfficialRows'})
  BY <1>4, <1>5, EventsGrow
<1>7. /\ Cardinality({Competition[row.event] : row \in OfficialRows}) \in Nat
      /\ Cardinality({Competition[row.event] : row \in OfficialRows'}) \in Nat
      /\ Cardinality({Competition[row.event] : row \in OfficialRows})
            <= Cardinality({Competition[row.event] : row \in OfficialRows'})
  BY <1>4, <1>5, CountsGrow, Zenon
<1> QED
  BY <1>2, <1>6, <1>7, H4BoundsAssumption

\* Where nothing was undone, no step takes an official row out of the file.
LEMMA OfficialRowsStay ==
    ASSUME CohortIInv, [CohortNext]_cohortVars, ~undone'
    PROVE  /\ ~undone
           /\ \A row \in Rows(signals) : row.status = "OFFICIAL" => row \in Rows(signals)'
<1>1. ASSUME NEW s \in SettlementJobs, SettleReplaces(s)
      PROVE  /\ ~undone
             /\ \A row \in Rows(signals) : row.status = "OFFICIAL" => row \in Rows(signals')
  BY <1>1 DEF SettleReplaces
<1>2. ASSUME NEW c \in Collectors, AppendOnce(c)
      PROVE  Rows(signals) \subseteq Rows(signals') /\ UNCHANGED undone
  BY <1>2, AppendedRows DEF CohortIInv, AppendOnce
<1>3. \/ UNCHANGED <<signals, undone>>
      \/ \E s \in SettlementJobs : SettleReplaces(s)
      \/ \E c \in Collectors : AppendOnce(c)
  BY DEF CohortNext, cohortVars, files, Passes, IngestGame, Decide, Damage, ListUpcoming,
         FetchMatch, CollectorDies, BuildReads, BuildWrites, BuildFails, SettleBegins,
         SettleReads, SettleDies, WeeklyDies, EvaluatorChecks, PublishGate, EvaluatorDies
<1>4. /\ ~undone
      /\ \A row \in Rows(signals) : row.status = "OFFICIAL" => row \in Rows(signals')
  BY <1>1, <1>2, <1>3
<1> QED
  BY <1>4 DEF Rows

\* cohort_status counts positions of the file, each of another match, and a
\* reading of the file would find those matches.
LEMMA ChecksStand ==
    ASSUME CohortIInv, EvaluatorChecks
    PROVE  EvaluationStands'
<1>1. UNCHANGED <<now, signals>> /\ signals \in Seq(Signal)
  BY DEF EvaluatorChecks, files, CohortIInv, CohortTypeOK
<1>2. signals \in Seq(Signal) /\ Rows(signals) \subseteq Signal
  BY <1>1, RowsAreSignals
<1> DEFINE settled == {i \in DOMAIN signals : Mature(signals[i]) /\ IsSettled(signals[i])}
<1>3. /\ ~CohortIssues(signals) /\ Cardinality(settled) >= MinMatured
      /\ Cardinality({Competition[signals[i].event] : i \in settled}) >= MinCompetitions
  BY DEF EvaluatorChecks, ReadyForEvaluation
<1>4. \A i, j \in settled : signals[i].event = signals[j].event => i = j
  BY <1>3 DEF CohortIssues
<1>5. /\ Cardinality({signals[i].event : i \in settled}) \in Nat
      /\ Cardinality(settled) \in Nat
      /\ Cardinality(settled) <= Cardinality({signals[i].event : i \in settled})
  BY <1>2, <1>4, DistinctEvents
<1>6. OfficialRows = {signals[i] : i \in settled}
  <2>1. \A row \in Rows(signals) : row.status = "OFFICIAL" => row.result \in Outcomes
    BY DEF CohortIInv, RowsFit, RowFits
  <2>2. \A row \in OfficialRows : \E i \in settled : row = signals[i]
    BY <2>1 DEF OfficialRows, Rows, IsSettled
  <2>3. \A i \in settled : signals[i] \in OfficialRows
    BY DEF OfficialRows, Rows, IsSettled
  <2> QED
    BY <2>2, <2>3
<1> HIDE DEF settled
<1>7. /\ {row.event : row \in OfficialRows} = {signals[i].event : i \in settled}
      /\ {Competition[row.event] : row \in OfficialRows}
            = {Competition[signals[i].event] : i \in settled}
  BY <1>6
<1>8. OfficialRows' = OfficialRows
  BY <1>1 DEF OfficialRows, Mature, Rows, files
<1>9. Cardinality({row.event : row \in OfficialRows}) >= MinMatured
  <2> DEFINE E == {signals[i].event : i \in settled}
  <2>1. Cardinality(E) >= MinMatured
    <3> HIDE DEF E
    <3>1. /\ Cardinality(E) \in Nat /\ Cardinality(settled) \in Nat
          /\ Cardinality(settled) <= Cardinality(E)
      BY <1>5 DEF E
    <3> QED
      BY <1>3, <3>1, H4BoundsAssumption
  <2> QED
    BY <1>7, <2>1, Zenon
<1>10. Cardinality({Competition[row.event] : row \in OfficialRows}) >= MinCompetitions
  BY <1>3, <1>7
<1> QED
  BY <1>8, <1>9, <1>10 DEF EvaluationStands

\* Every step keeps what the evaluation counts and has counted.
LEMMA EvaluationStepIInv ==
    ASSUME CohortIInv, EvaluationIInv, [CohortNext]_cohortVars
    PROVE  EvaluationIInv'
<1>1. EvaluationStands /\ GateCountsEnough /\ CohortTypeOK'
  BY CohortStepIInv DEF EvaluationIInv, CohortIInv
<1>2. CASE undone'
  BY <1>2 DEF EvaluationIInv, EvaluationStands, GateCountsEnough
<1> SUFFICES ASSUME ~undone' PROVE EvaluationIInv'
  BY <1>2
<1>3. /\ ~undone
      /\ \A row \in Rows(signals) : row.status = "OFFICIAL" => row \in Rows(signals)'
  BY OfficialRowsStay
<1>4. CASE EvaluatorChecks
  BY <1>1, <1>4, <1>3, ChecksStand DEF EvaluatorChecks, EvaluationIInv, GateCountsEnough
<1>5. CASE PublishGate
  <2>1. evaluator = "ready" /\ evaluator' = "idle" /\ gate' \in {gate, OfficialRows}
    BY <1>5 DEF PublishGate
  <2>2. EvaluationStands'
    BY <2>1 DEF EvaluationStands
  <2>3. GateCountsEnough'
    <3>1. CASE gate' = gate
      BY <1>1, <1>3, <3>1 DEF GateCountsEnough
    <3>2. CASE gate' = OfficialRows
      <4>1. /\ Cardinality({row.event : row \in gate'}) >= MinMatured
            /\ Cardinality({Competition[row.event] : row \in gate'}) >= MinCompetitions
        BY <1>1, <1>3, <2>1, <3>2 DEF EvaluationStands
      <4>2. \A row \in gate' : Start[row.event] <= row.available /\ row.result \in Outcomes
        BY <3>2 DEF OfficialRows, CohortIInv, RowsFit, RowFits
      <4> QED
        BY <4>1, <4>2 DEF GateCountsEnough
    <3> QED
      BY <2>1, <3>1, <3>2
  <2> QED
    BY <2>2, <2>3 DEF EvaluationIInv
<1>6. CASE ~EvaluatorChecks /\ ~PublishGate
  <2>1. gate' = gate /\ evaluator' \in {"idle", evaluator}
    BY <1>6 DEF CohortNext, cohortVars, Passes, IngestGame, Decide, Damage,
         ListUpcoming, FetchMatch, AppendOnce, CollectorDies, BuildReads, BuildWrites, BuildFails,
         WeeklyDies, SettleBegins, SettleReads, SettleReplaces, SettleDies, EvaluatorDies
  <2>2. now <= now'
    <3>1. now \in Nat
      BY DEF CohortIInv, CohortTypeOK, Instants
    <3>2. now' = now \/ now' = now + 1
      BY DEF CohortNext, cohortVars, Passes, IngestGame, Decide, Damage,
         ListUpcoming, FetchMatch, AppendOnce, CollectorDies, BuildReads, BuildWrites, BuildFails,
         WeeklyDies, SettleBegins, SettleReads, SettleReplaces, SettleDies,
         EvaluatorChecks, PublishGate, EvaluatorDies
    <3> QED
      BY <3>1, <3>2
  <2>3. EvaluationStands'
    BY <1>1, <1>3, <2>1, <2>2, OfficialRowsStand
  <2> QED
    BY <1>1, <1>3, <2>1, <2>3 DEF EvaluationIInv, GateCountsEnough
<1> QED
  BY <1>4, <1>5, <1>6

-----------------------------------------------------------------------------
(* The weekly refresh alone settles.                                       *)

\* Without the job the weekly refresh alone settles, and it settles the rows
\* that are in the file.
LEMMA WeeklySettles ==
    ASSUME "job" \notin SettlementJobs
    PROVE  SettlementJobs = {"weekly"}
  BY SettlementJobsAssumption

\* A settlement that holds all official rows takes none back.
LEMMA UndoneSteps ==
    ASSUME CohortIInv, NothingUndone, [CohortNext]_cohortVars
    PROVE  ~undone'
<1>1. ASSUME NEW s \in SettlementJobs, SettleReplaces(s),
             NEW row \in Rows(signals), row.status = "OFFICIAL"
      PROVE  row \in Rows(signals')
  <2> DEFINE supplied == settlement[s].supplied
             rows == settlement[s].rows
  <2>1. /\ rows \in Seq(Signal) /\ supplied \in Supplies
        /\ \/ signals' = signals
           \/ Rows(signals') = {SettledRow(r, supplied) : r \in Rows(rows)}
    BY <1>1, ReplacedRows DEF CohortIInv
  <2>2. row \in Rows(rows)
    BY <1>1 DEF NothingUndone, OfficialIsHeld, SettleReplaces
  <2>3. SettledRow(row, supplied) = row
    BY <1>1 DEF SettledRow
  <2> QED
    BY <1>1, <2>1, <2>2, <2>3
<1>2. ASSUME NEW s \in SettlementJobs, SettleReplaces(s) PROVE ~undone'
  BY <1>1, <1>2 DEF SettleReplaces, NothingUndone
<1>3. \/ UNCHANGED undone
      \/ \E s \in SettlementJobs : SettleReplaces(s)
  BY DEF CohortNext, cohortVars, files, Passes, IngestGame, Decide, Damage, ListUpcoming,
         FetchMatch, AppendOnce, CollectorDies, BuildReads, BuildWrites, BuildFails, SettleBegins,
         SettleReads, SettleDies, WeeklyDies, EvaluatorChecks, PublishGate, EvaluatorDies
<1> QED
  BY <1>2, <1>3 DEF NothingUndone

\* What the one settlement holds is official in the file or was read from it.
LEMMA HeldSteps ==
    ASSUME "job" \notin SettlementJobs, CohortIInv, OfficialIsHeld, [CohortNext]_cohortVars
    PROVE  OfficialIsHeld'
<1>1. /\ settlement \in [SettlementJobs -> SettlementLocals] /\ SettlementJobs = {"weekly"}
      /\ signals \in Seq(Signal)
  BY WeeklySettles DEF CohortIInv, CohortTypeOK
<1>2. SUFFICES ASSUME settlement'["weekly"].pc = "rows",
                      NEW row \in Rows(signals'), row.status = "OFFICIAL"
               PROVE  row \in Rows(settlement'["weekly"].rows)
  BY <1>1 DEF OfficialIsHeld, Rows
<1>3. CASE UNCHANGED <<signals, settlement>>
  BY <1>1, <1>2, <1>3 DEF OfficialIsHeld
<1>4. ASSUME NEW c \in Collectors, AppendOnce(c)
      PROVE  row \in Rows(settlement'["weekly"].rows)
  <2>1. row \in Rows(signals) /\ UNCHANGED settlement
    BY <1>2, <1>4, AppendedRows DEF AppendOnce, settling, CohortIInv
  <2> QED
    BY <1>1, <1>2, <2>1 DEF OfficialIsHeld
<1>5. CASE SettleReads("weekly")
  <2>1. settlement'["weekly"].rows = signals /\ UNCHANGED signals
    BY <1>1, <1>5 DEF SettleReads, files, SettlementLocals
  <2> QED
    BY <1>2, <2>1
<1>6. CASE SettleBegins("weekly") \/ SettleReplaces("weekly") \/ SettleDies("weekly")
  <2>1. CASE Ends("weekly")
    BY <1>1, <1>2, <2>1, RestForm DEF Ends
  <2>2. CASE settlement' = [settlement EXCEPT !["weekly"] =
                                [NoSettlement EXCEPT !.pc = "results", !.supplied = results.entries]]
    BY <1>1, <1>2, <2>2, RestForm DEF SettlementLocals
  <2> QED
    BY <1>6, <2>1, <2>2 DEF SettleBegins, SettleReplaces, SettleDies
<1>7. \/ UNCHANGED <<signals, settlement>>
      \/ \E c \in Collectors : AppendOnce(c)
      \/ \E s \in SettlementJobs :
            SettleReads(s) \/ SettleBegins(s) \/ SettleReplaces(s) \/ SettleDies(s)
  BY DEF CohortNext, cohortVars, files, settling, Passes, IngestGame, Decide, Damage,
         ListUpcoming, FetchMatch, CollectorDies, BuildReads, BuildWrites, BuildFails,
         WeeklyDies, EvaluatorChecks, PublishGate, EvaluatorDies
<1> QED
  BY <1>1, <1>3, <1>4, <1>5, <1>6, <1>7

-----------------------------------------------------------------------------
(* The theorems.                                                           *)

\* The files of the cohort, what every settlement holds of them and what the
\* collectors are about to append agree at every moment.
THEOREM CohortInvariant == CohortSpec => []CohortIInv
<1> QED
  BY CohortInitIInv, CohortStepIInv, PTL DEF CohortSpec

\* Files, locals and histories keep their types.
THEOREM CohortTypeCorrect == CohortSpec => []CohortTypeOK
<1>1. CohortIInv => CohortTypeOK
  BY DEF CohortIInv
<1> QED
  BY <1>1, CohortInvariant, PTL

\* Settlements that overlap each other and collections lose the signals that
\* were appended while one held older rows, and no signal is lost in another way.
THEOREM SignalsAreKept == CohortSpec => []LostOnlyToSettlement
<1>1. CohortIInv => LostOnlyToSettlement
  BY DEF CohortIInv
<1> QED
  BY <1>1, CohortInvariant, PTL

\* No result known before its match enters the cohort, and none for a signal
\* that was not observed before it.
THEOREM ResultsFollowTheStart == CohortSpec => []NoResultBeforeStart
<1>1. CohortIInv => NoResultBeforeStart
  <2> SUFFICES ASSUME CohortIInv, NEW row \in Rows(signals), row.status = "OFFICIAL"
               PROVE  Start[row.event] <= row.available /\ row.at < row.available
    BY DEF NoResultBeforeStart
  <2>1. row.at < Start[row.event] /\ Start[row.event] <= row.available
    BY DEF CohortIInv, RowsFit, RowFits
  <2>2. row \in Signal
    BY RowsAreSignals DEF CohortIInv, CohortTypeOK
  <2>3. row.at \in Nat /\ row.available \in Nat /\ Start[row.event] \in Nat
    BY <2>2, EventsAssumption, H4BoundsAssumption DEF Signal, Instants
  <2> QED
    BY <2>1, <2>3
<1> QED
  BY <1>1, CohortInvariant, PTL

\* Whichever file of results it came through, the result of a match with one
\* signal is that of the selected side.
THEOREM ResultsAreOfTheSelection == CohortSpec => []ResultFollowsSelection
<1>1. CohortIInv => ResultFollowsSelection
  <2> SUFFICES ASSUME CohortIInv, NEW row \in Rows(signals), row.status = "OFFICIAL",
                      \A id \in captured : id[1] = row.event => id = SignalId(row)
               PROVE  row.result = 1 <=> row.winner = row.selection
    BY DEF ResultFollowsSelection
  <2>1. PICK id \in captured : id[1] = row.event /\ (row.result = 1 <=> row.winner = id[2])
    BY DEF CohortIInv, RowsFit, RowFits
  <2>2. id = SignalId(row) /\ SignalId(row)[2] = row.selection
    BY <2>1 DEF SignalId
  <2> QED
    BY <2>1, <2>2
<1> QED
  BY <1>1, CohortInvariant, PTL

\* As long as no settlement put an official row back, the gate is never
\* computed from fewer matches or competitions than the trial asks for, although
\* evaluate reads the cohort twice while collectors and settlements write it.
THEOREM GateIsFounded == CohortSpec => []GateCountsEnough
<1>1. CohortInit => CohortIInv /\ EvaluationIInv
  BY CohortInitIInv
<1>2. CohortIInv /\ EvaluationIInv /\ [CohortNext]_cohortVars => CohortIInv' /\ EvaluationIInv'
  BY CohortStepIInv, EvaluationStepIInv
<1>3. EvaluationIInv => GateCountsEnough
  BY DEF EvaluationIInv
<1> QED
  BY <1>1, <1>2, <1>3, PTL DEF CohortSpec

\* Where the weekly refresh alone settles (the job lol-settlement is not
\* scheduled), no official row is ever put back or lost.
THEOREM OneSettlementUndoesNothing ==
    ASSUME "job" \notin SettlementJobs
    PROVE  CohortSpec => []~undone
<1>1. CohortInit => CohortIInv /\ NothingUndone
  BY CohortInitIInv DEF CohortInit, NothingUndone, OfficialIsHeld, NoSettlement
<1>2. CohortIInv /\ NothingUndone /\ [CohortNext]_cohortVars => CohortIInv' /\ NothingUndone'
  BY CohortStepIInv, UndoneSteps, HeldSteps DEF NothingUndone
<1>3. NothingUndone => ~undone
  BY DEF NothingUndone
<1> QED
  BY <1>1, <1>2, <1>3, PTL DEF CohortSpec

\* A cohort that no human reopened last begins neither a collection nor an
\* evaluation, whatever became of the file of its record.
THEOREM DecisionsAreHonoured == CohortSpec => DecisionIsHonoured
<1>1. CohortIInv /\ [CohortNext]_cohortVars =>
        [\/ decided = "REOPENED"
         \/ /\ \A c \in Collectors : collector[c].pc = "idle" => collector'[c].pc = "idle"
            /\ evaluator = "idle" => evaluator' = "idle"]_cohortVars
  <2> SUFFICES ASSUME CohortIInv, CohortNext, decided # "REOPENED"
               PROVE  /\ \A c \in Collectors : collector[c].pc = "idle" => collector'[c].pc = "idle"
                      /\ evaluator = "idle" => evaluator' = "idle"
    OBVIOUS
  <2>1. ~H4Open
    BY DEF H4Open, ClosureStatus, CohortIInv, RecordIsTrue
  <2>2. collector \in [Collectors -> CollectorLocals]
    BY DEF CohortIInv, CohortTypeOK
  <2>3. CASE UNCHANGED collector
    <3>1. evaluator = "idle" => evaluator' = "idle"
      BY <2>1 DEF CohortNext, Passes, IngestGame, Decide, Damage, ListUpcoming, FetchMatch,
                  AppendOnce, CollectorDies, BuildReads, BuildWrites, BuildFails, SettleBegins,
                  SettleReads, SettleReplaces, SettleDies, WeeklyDies, EvaluatorChecks, PublishGate, EvaluatorDies
    <3> QED
      BY <2>3, <3>1
  <2>4. ASSUME NEW c \in Collectors, FetchMatch(c) \/ AppendOnce(c) \/ CollectorDies(c)
        PROVE  /\ \A d \in Collectors : collector[d].pc = "idle" => collector'[d].pc = "idle"
               /\ UNCHANGED evaluator
    <3>1. collector[c].pc # "idle" /\ UNCHANGED evaluator
      BY <2>4 DEF FetchMatch, AppendOnce, CollectorDies
    <3>2. \A d \in Collectors \ {c} : collector'[d] = collector[d]
      BY <2>2, <2>4 DEF FetchMatch, AppendOnce, CollectorDies
    <3> QED
      BY <3>1, <3>2
  <2>5. \/ UNCHANGED collector
        \/ \E c \in Collectors : FetchMatch(c) \/ AppendOnce(c) \/ CollectorDies(c)
    BY <2>1 DEF CohortNext, Passes, IngestGame, Decide, Damage, ListUpcoming,
                BuildReads, BuildWrites, BuildFails, SettleBegins,
                SettleReads, SettleReplaces, SettleDies, WeeklyDies, EvaluatorChecks, PublishGate, EvaluatorDies
  <2> QED
    BY <2>3, <2>4, <2>5
<1> QED
  BY <1>1, CohortInvariant, PTL DEF CohortSpec, DecisionIsHonoured
=============================================================================

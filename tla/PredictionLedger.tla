-------------------------- MODULE PredictionLedger --------------------------
(***************************************************************************)
(* The official ledger of predictions, data/predictions.jsonl:             *)
(* register_pre_event and mature_results of                                *)
(* src/scripts/predict_ewc_opening.py.                                     *)
(*                                                                         *)
(* Processes register the predictions of a fixture before its matches      *)
(* begin and mature them once results are known.  Each call takes the      *)
(* thread lock and the lock file of the ledger, reads the ledger, and      *)
(* appends row by row; it may raise or die between two rows, and what it   *)
(* appended stays.  Probabilities are a function of the match and of the   *)
(* ratings, so a row keeps the hash of the ratings; scores and Brier       *)
(* values are left out.                                                    *)
(***************************************************************************)
EXTENDS Naturals, Sequences

CONSTANTS
    Pairs,       \* the two teams of a match, in order
    Starts,      \* values of scheduled_at
    Horizon,     \* FORMAT_HOURS of the fixture: from scheduled_at to matures_at
    Ratings,     \* values of ratings_sha256
    Fixtures,    \* what an operator registers: matches that resolve and have a time
    Callers,     \* threads and processes
    None,
    MaxTime      \* bound: the last instant

Match == [teams: Pairs, start: Starts]
Times == 0..MaxTime

ASSUME StartsAssumption == Starts \subseteq Nat
ASSUME HorizonAssumption == Horizon \in Nat \ {0} /\ MaxTime \in Nat
ASSUME LedgerNoneAssumption == None \notin Nat \union Callers
\* A fixture lists a match once.
ASSUME FixturesAssumption ==
    /\ Fixtures \subseteq Seq(Match)
    /\ \A fixture \in Fixtures : \A i, j \in DOMAIN fixture :
        fixture[i] = fixture[j] => i = j

VARIABLES
    clock,     \* the system clock
    ledger,    \* data/predictions.jsonl
    lock,      \* holder of _LEDGER_LOCK and of the lock file
    call       \* what each caller is doing, with its locals

vars == <<clock, ledger, lock, call>>

-----------------------------------------------------------------------------
\* A row of the ledger; predicted_at is "at".
Row == [status: {"PRE_EVENT", "MATURED"}, match: Match, ratings: Ratings, at: Times,
        maturedAt: Times \union {None}]

\* prediction_id hashes the event, the match and the ratings.
Id(row) == [match |-> row.match, ratings |-> row.ratings]
Ids == [match: Match, ratings: Ratings]

\* "todo" are the positions in the fixture of the predictions still to append;
\* "last" is what the variable scheduled_at holds after the first loop.
Locals == [pc: {"idle", "register", "append", "mature", "results"},
           fixture: Seq(Match), ratings: Ratings \union {None}, at: Times,
           todo: SUBSET (Nat \ {0}), last: Starts \union {None}, matured: SUBSET Ids]
Idle == [pc |-> "idle", fixture |-> <<>>, ratings |-> None, at |-> 0, todo |-> {},
         last |-> None, matured |-> {}]

TypeOK ==
    /\ clock \in Times
    /\ ledger \in Seq(Row)
    /\ lock \in Callers \union {None}
    /\ call \in [Callers -> Locals]

Init ==
    /\ clock = 0
    /\ ledger = <<>>
    /\ lock = None
    /\ call = [c \in Callers |-> Idle]

-----------------------------------------------------------------------------
Rows(status) == {i \in DOMAIN ledger : ledger[i].status = status}

Matures(match) == match.start + Horizon

Release(c) ==
    /\ lock' = None
    /\ call' = [call EXCEPT ![c] = Idle]

-----------------------------------------------------------------------------
(* register_pre_event.                                                     *)

\* The report was built from the ratings of some moment.
RegisterCall(c) ==
    /\ call[c].pc = "idle"
    /\ \E fixture \in Fixtures, r \in Ratings :
        call' = [call EXCEPT ![c] = [Idle EXCEPT !.pc = "register", !.fixture = fixture,
                                                 !.ratings = r]]
    /\ UNCHANGED <<clock, ledger, lock>>

\* The prediction is in the ledger, or another one for the same match is.
Known(match, r) ==
    \/ \E i \in DOMAIN ledger : Id(ledger[i]) = [match |-> match, ratings |-> r]
    \/ \E i \in Rows("PRE_EVENT") : ledger[i].match = match

\* The positions of the matches that are not in the ledger.
New(c) == {i \in DOMAIN call[c].fixture : ~Known(call[c].fixture[i], call[c].ratings)}

Start(c, i) == call[c].fixture[i].start
First(positions) == CHOOSE i \in positions : \A j \in positions : i <= j
Last(positions) == CHOOSE i \in positions : \A j \in positions : i >= j

\* Faulty variant: the ledger is read without the lock.
RegisterReadsUnlocked(c) ==
    /\ call[c].pc = "register"
    /\ New(c) # {}
    /\ \A i \in New(c) : clock < Start(c, i)
    /\ lock' = c
    /\ call' = [call EXCEPT ![c].pc = "append", ![c].at = clock, ![c].todo = New(c),
                            ![c].last = Start(c, Last(New(c)))]
    /\ UNCHANGED <<clock, ledger>>

\* The first loop: matches that are in the ledger are skipped and none of the
\* others may have begun.
RegisterReads(c) ==
    /\ call[c].pc = "register"
    /\ lock = None
    /\ New(c) # {}
    /\ \A i \in New(c) : clock < Start(c, i)
    /\ lock' = c
    /\ call' = [call EXCEPT ![c].pc = "append", ![c].at = clock, ![c].todo = New(c),
                            ![c].last = Start(c, Last(New(c)))]
    /\ UNCHANGED <<clock, ledger>>

\* Everything is there already, or a match has begun and nothing is appended.
RegisterRefuses(c) ==
    /\ call[c].pc = "register"
    /\ lock = None
    /\ New(c) = {} \/ \E i \in New(c) : clock >= Start(c, i)
    /\ call' = [call EXCEPT ![c] = Idle]
    /\ UNCHANGED <<clock, ledger, lock>>

\* The prediction whose turn it is in the second loop.
Pending(c) == call[c].fixture[First(call[c].todo)]

\* The second loop compares with the scheduled_at the first loop left.
HorizonCheckFails(c) == Matures(Pending(c)) <= call[c].last

\* On to the next prediction; the call returns after the last one.
Proceed(c) ==
    IF call[c].todo = {First(call[c].todo)} THEN Release(c)
    ELSE /\ call' = [call EXCEPT ![c].todo = @ \ {First(@)}]
         /\ UNCHANGED lock

\* Faulty variants: predicted_at is taken when the row is written; it is left
\* out of the row.
RegisterAppendsLate(c) ==
    /\ call[c].pc = "append"
    /\ ~HorizonCheckFails(c)
    /\ ledger' = Append(ledger, [status |-> "PRE_EVENT", match |-> Pending(c),
                                 ratings |-> call[c].ratings, at |-> clock,
                                 maturedAt |-> None])
    /\ Proceed(c)
    /\ UNCHANGED clock

RegisterAppendsUndated(c) ==
    /\ call[c].pc = "append"
    /\ ~HorizonCheckFails(c)
    /\ ledger' = Append(ledger, [status |-> "PRE_EVENT", match |-> Pending(c),
                                 ratings |-> call[c].ratings, at |-> None,
                                 maturedAt |-> None])
    /\ Proceed(c)
    /\ UNCHANGED clock

RegisterAppends(c) ==
    /\ call[c].pc = "append"
    /\ ~HorizonCheckFails(c)
    /\ ledger' = Append(ledger, [status |-> "PRE_EVENT", match |-> Pending(c),
                                 ratings |-> call[c].ratings, at |-> call[c].at,
                                 maturedAt |-> None])
    /\ Proceed(c)
    /\ UNCHANGED clock

RegisterRaises(c) ==
    /\ call[c].pc = "append"
    /\ HorizonCheckFails(c)
    /\ Release(c)
    /\ UNCHANGED <<clock, ledger>>

-----------------------------------------------------------------------------
(* mature_results.                                                         *)

MatureCall(c) ==
    /\ call[c].pc = "idle"
    /\ call' = [call EXCEPT ![c] = [Idle EXCEPT !.pc = "mature"]]
    /\ UNCHANGED <<clock, ledger, lock>>

\* Faulty variant: what earlier calls matured is not looked up.
MatureReadsNothing(c) ==
    /\ call[c].pc = "mature"
    /\ lock = None
    /\ lock' = c
    /\ call' = [call EXCEPT ![c].pc = "results", ![c].at = clock]
    /\ UNCHANGED <<clock, ledger>>

MatureReads(c) ==
    /\ call[c].pc = "mature"
    /\ lock = None
    /\ lock' = c
    /\ call' = [call EXCEPT ![c].pc = "results", ![c].at = clock,
                            ![c].matured = {Id(ledger[i]) : i \in Rows("MATURED")}]
    /\ UNCHANGED <<clock, ledger>>

\* A result without prediction_id is for the only prediction of its teams.
Unambiguous(i) ==
    \A j \in Rows("PRE_EVENT") :
        ledger[j].match.teams = ledger[i].match.teams => Id(ledger[j]) = Id(ledger[i])

\* Faulty variant: the horizon is not awaited.
MatureEarly(c) ==
    /\ call[c].pc = "results"
    /\ \E i \in Rows("PRE_EVENT"), named \in BOOLEAN :
        /\ named \/ Unambiguous(i)
        /\ Id(ledger[i]) \notin call[c].matured
        /\ ledger' = Append(ledger, [ledger[i] EXCEPT !.status = "MATURED",
                                                      !.maturedAt = call[c].at])
        /\ call' = [call EXCEPT ![c].matured = @ \union {Id(ledger[i])}]
    /\ UNCHANGED <<clock, lock>>

\* The next result of the file that is to be recorded, whichever it is: its
\* prediction is not matured yet and is past its horizon.
MatureAppends(c) ==
    /\ call[c].pc = "results"
    /\ \E i \in Rows("PRE_EVENT"), named \in BOOLEAN :
        /\ named \/ Unambiguous(i)
        /\ Id(ledger[i]) \notin call[c].matured
        /\ call[c].at >= Matures(ledger[i].match)
        /\ ledger' = Append(ledger, [ledger[i] EXCEPT !.status = "MATURED",
                                                      !.maturedAt = call[c].at])
        /\ call' = [call EXCEPT ![c].matured = @ \union {Id(ledger[i])}]
    /\ UNCHANGED <<clock, lock>>

\* The file has no further result, or one that is refused: of teams without
\* a prediction, ambiguous, or with a winner or score that cannot be.
MatureEnds(c) ==
    /\ call[c].pc = "results"
    /\ Release(c)
    /\ UNCHANGED <<clock, ledger>>

-----------------------------------------------------------------------------
\* The process dies, or a write fails; its locks go with it.
Die(c) ==
    /\ call[c].pc # "idle"
    /\ call' = [call EXCEPT ![c] = Idle]
    /\ lock' = IF lock = c THEN None ELSE lock
    /\ UNCHANGED <<clock, ledger>>

Tick ==
    /\ clock < MaxTime
    /\ clock' = clock + 1
    /\ UNCHANGED <<ledger, lock, call>>

Register(c) ==
    \/ RegisterCall(c) \/ RegisterReads(c) \/ RegisterRefuses(c)
    \/ RegisterAppends(c) \/ RegisterRaises(c)
Mature(c) == MatureCall(c) \/ MatureReads(c) \/ MatureAppends(c) \/ MatureEnds(c)

Next == Tick \/ \E c \in Callers : Register(c) \/ Mature(c) \/ Die(c)

Spec == Init /\ [][Next]_vars

-----------------------------------------------------------------------------
(* Properties.                                                             *)

\* A match has one prediction, whatever is registered again after a failure,
\* with other ratings, or by two processes at once.
OnePredictionPerMatch ==
    \A i, j \in Rows("PRE_EVENT") : ledger[i].match = ledger[j].match => i = j

\* A prediction claims to be made before the match begins, and was: it is
\* dated by the moment at which the match was found not to have begun
\* (README.md:97-98).
PredictedBeforeTheMatch ==
    \A i \in Rows("PRE_EVENT") : ledger[i].at < ledger[i].match.start

\* A MATURED row comes after the row of its prediction, which it repeats
\* unchanged, and not before the horizon
\* (docs/P4_TEMPORAL_PROTOTYPE.md:11-13).
MaturedKeepsPrediction ==
    \A i \in Rows("MATURED") :
        /\ ledger[i].maturedAt >= Matures(ledger[i].match)
        /\ \E j \in Rows("PRE_EVENT") :
            /\ j < i
            /\ ledger[i] = [ledger[j] EXCEPT !.status = "MATURED",
                                             !.maturedAt = ledger[i].maturedAt]

\* A prediction is scored once, however often and by whom results are applied.
MaturedOnce ==
    \A i, j \in Rows("MATURED") : ledger[i].match = ledger[j].match => i = j

\* "matures_at must be after scheduled_at" (lines 238 and 315) is said of no
\* prediction that matures after its own match begins.
HorizonComplaintIsTrue ==
    \A c \in Callers :
        (call[c].pc = "append" /\ HorizonCheckFails(c)) =>
            Matures(Pending(c)) <= Pending(c).start

-----------------------------------------------------------------------------
(* The inductive invariant.                                                *)

OneHolder == \A c \in Callers : call[c].pc \in {"append", "results"} => lock = c

\* What is still to be appended has no row yet and had not begun.
RegistrationLocals ==
    \A c \in Callers :
        /\ call[c].pc \in {"register", "append"} =>
            call[c].fixture \in Fixtures /\ call[c].ratings \in Ratings
        /\ call[c].pc = "append" =>
            /\ call[c].todo # {} /\ call[c].todo \subseteq DOMAIN call[c].fixture
            /\ \A i \in call[c].todo :
                /\ call[c].at < Start(c, i)
                /\ \A j \in Rows("PRE_EVENT") : ledger[j].match # call[c].fixture[i]

\* Who matures knows every prediction that is matured.
MaturationLocals ==
    \A c \in Callers : call[c].pc = "results" =>
        call[c].matured = {Id(ledger[i]) : i \in Rows("MATURED")}

IInv ==
    /\ TypeOK
    /\ OneHolder
    /\ RegistrationLocals
    /\ MaturationLocals
    /\ OnePredictionPerMatch
    /\ PredictedBeforeTheMatch
    /\ MaturedKeepsPrediction
    /\ MaturedOnce
=============================================================================

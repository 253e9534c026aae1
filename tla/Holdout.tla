------------------------------ MODULE Holdout ------------------------------
(***************************************************************************)
(* collect_holdout of src/src/holdout.py, and the Polymarket client of     *)
(* src/src/data/polymarket_provider.py that it reads the market with.      *)
(*                                                                         *)
(* A run copies the current Oracle's Elixir payload, lists the coming      *)
(* matches, reads the event and the books of each, writes one immutable    *)
(* capture and then replaces holdout/latest.json.  Runs overlap, and a run *)
(* may die anywhere.  The market is external: it may move a match between  *)
(* any two requests.  Names, prices and sizes are left out, and of a quote *)
(* all but its match.  Files are written aside and moved into place.       *)
(***************************************************************************)
EXTENDS Naturals, FiniteSets

CONSTANTS
    Fixtures,        \* events of the market with one moneyline of LoL
    Payloads,        \* digests of the snapshots that ingestion publishes
    Runs,            \* calls of collect_holdout that may overlap
    Horizon,         \* horizon_hours
    MaxCaptures,     \* bound: captures written, and runs about to write one
    LastHour         \* bound: the last hour of the clock

ASSUME HoldoutAssumption == Horizon \in Nat /\ MaxCaptures \in Nat /\ LastHour \in Nat

VARIABLES
    clock,
    payload,         \* the payload that ingestion's current.json names, if any
    copies,          \* holdout/raw/oracles-elixir/
    captures,        \* holdout/raw/polymarket/
    latest,          \* holdout/latest.json, once there is one
    run              \* each run, with its locals

holdoutVars == <<clock, payload, copies, captures, latest, run>>

-----------------------------------------------------------------------------
Hours == 0..LastHour
Starts == 0..LastHour + 1     \* startTime of a match, as the market gives it
Capture == [at: Hours, source: SUBSET Payloads, events: SUBSET Fixtures,
            quotes: SUBSET Fixtures, errors: SUBSET (Fixtures \union {"DISCOVERY"})]
Pointer == [capture: Capture, status: {"COLLECTED", "DEGRADED"}]

\* "event" is the startTime read last.
NoRun == [pc |-> "idle", at |-> 0, source |-> {}, events |-> {}, left |-> {}, event |-> {},
          quotes |-> {}, errors |-> {}]

RunState == [pc: {"idle", "copy", "discover", "next", "books", "capture", "pointer"},
             at: Hours, source: SUBSET Payloads, events: SUBSET Fixtures, left: SUBSET Fixtures,
             event: SUBSET (Fixtures \X Starts), quotes: SUBSET Fixtures,
             errors: SUBSET (Fixtures \union {"DISCOVERY"})]

HoldoutTypeOK ==
    /\ clock \in Hours
    /\ payload \subseteq Payloads /\ copies \subseteq Payloads
    /\ captures \subseteq Capture
    /\ latest \subseteq Pointer /\ \A p, q \in latest : p = q
    /\ run \in [Runs -> RunState]
    /\ \A r \in Runs :
        /\ run[r].at <= clock
        /\ run[r].left \subseteq run[r].events /\ run[r].quotes \subseteq run[r].events

HoldoutInit ==
    /\ clock = 0 /\ payload = {} /\ copies = {} /\ captures = {} /\ latest = {}
    /\ run = [r \in Runs |-> NoRun]

-----------------------------------------------------------------------------
(* The world.                                                              *)

Tick ==
    /\ clock < LastHour
    /\ clock' = clock + 1
    /\ UNCHANGED <<payload, copies, captures, latest, run>>

PublishSnapshot ==
    /\ \E p \in Payloads : payload' = {p}
    /\ UNCHANGED <<clock, copies, captures, latest, run>>

-----------------------------------------------------------------------------
(* The run.                                                                *)

Active == {r \in Runs : run[r].pc # "idle"}

Begin(r) ==
    /\ run[r].pc = "idle"
    /\ Cardinality(captures) + Cardinality(Active) < MaxCaptures
    /\ run' = [run EXCEPT ![r] = [NoRun EXCEPT !.pc = IF payload = {} THEN "discover" ELSE "copy",
                                               !.at = clock, !.source = payload]]
    /\ UNCHANGED <<clock, payload, copies, captures, latest>>

\* The payload was written once, under its digest: later snapshots leave it.
CopyPayload(r) ==
    /\ run[r].pc = "copy"
    /\ copies' = copies \union run[r].source
    /\ run' = [run EXCEPT ![r].pc = "discover"]
    /\ UNCHANGED <<clock, payload, captures, latest>>

\* list_upcoming_matches: events that start after the run began, within the
\* horizon; those that cannot be read as one moneyline are passed over.
ListUpcomingMatches(at) ==
    {{e \in Fixtures : at < start[e] /\ start[e] <= at + Horizon} : start \in [Fixtures -> Starts]}

Discover(r) ==
    /\ run[r].pc = "discover"
    /\ \/ \E found \in ListUpcomingMatches(run[r].at) :
            run' = [run EXCEPT ![r].pc = IF found = {} THEN "capture" ELSE "next",
                               ![r].events = found, ![r].left = found]
       \/ run' = [run EXCEPT ![r].pc = "capture", ![r].errors = {"DISCOVERY"}]
    /\ UNCHANGED <<clock, payload, copies, captures, latest>>

\* Faulty variant: an error of one match is passed over.
DoneQuietly(s, e, quotes, errors) ==
    [s EXCEPT !.pc = IF s.left = {e} THEN "capture" ELSE "next", !.left = @ \ {e},
              !.event = {}, !.quotes = @ \union quotes]

\* A run that is done with a fixture, with the quote or the error it got.
Done(s, e, quotes, errors) ==
    [s EXCEPT !.pc = IF s.left = {e} THEN "capture" ELSE "next", !.left = @ \ {e},
              !.event = {}, !.quotes = @ \union quotes, !.errors = @ \union errors]

\* fetch_match, first request: the event, as the market has it by now.
ReadEvent(r) ==
    /\ run[r].pc = "next"
    /\ \E e \in run[r].left :
        \/ \E start \in Starts :
            run' = [run EXCEPT ![r].pc = "books", ![r].event = {<<e, start>>}]
        \/ run' = [run EXCEPT ![r] = Done(@, e, {}, {e})]
    /\ UNCHANGED <<clock, payload, copies, captures, latest>>

\* Then the books, with their newest timestamp by the clock of the market; the
\* client takes its own time after the answers, and wants a match to come.
Usable(published, observed, start) == published <= observed /\ observed < start

ReadBooks(r) ==
    /\ run[r].pc = "books"
    /\ \E read \in run[r].event, published \in Hours :
        \/ /\ Usable(published, clock, read[2])
           /\ run' = [run EXCEPT ![r] = Done(@, read[1], {read[1]}, {})]
        \/ run' = [run EXCEPT ![r] = Done(@, read[1], {}, {read[1]})]
    /\ UNCHANGED <<clock, payload, copies, captures, latest>>

CaptureOf(r) == [at |-> run[r].at, source |-> run[r].source, events |-> run[r].events,
                 quotes |-> run[r].quotes, errors |-> run[r].errors]

\* _immutable_json: the name is the digest of the content.
WriteCapture(r) ==
    /\ run[r].pc = "capture"
    /\ captures' = captures \union {CaptureOf(r)}
    /\ run' = [run EXCEPT ![r].pc = "pointer"]
    /\ UNCHANGED <<clock, payload, copies, latest>>

\* The pointer is replaced last, perhaps after a run that began later did so.
ReplaceLatest(r) ==
    /\ run[r].pc = "pointer"
    /\ latest' = {[capture |-> CaptureOf(r),
                   status |-> IF run[r].errors = {} THEN "COLLECTED" ELSE "DEGRADED"]}
    /\ run' = [run EXCEPT ![r] = NoRun]
    /\ UNCHANGED <<clock, payload, copies, captures>>

RunDies(r) ==
    /\ run[r].pc # "idle"
    /\ run' = [run EXCEPT ![r] = NoRun]
    /\ UNCHANGED <<clock, payload, copies, captures, latest>>

HoldoutNext ==
    \/ Tick \/ PublishSnapshot
    \/ \E r \in Runs :
        \/ Begin(r) \/ CopyPayload(r) \/ Discover(r) \/ ReadEvent(r) \/ ReadBooks(r)
        \/ WriteCapture(r) \/ ReplaceLatest(r) \/ RunDies(r)

HoldoutSpec == HoldoutInit /\ [][HoldoutNext]_holdoutVars

-----------------------------------------------------------------------------
(* Properties.                                                             *)

\* latest.json always names a capture that is there, with the payload it
\* cites, and tells what the run missed: COLLECTED says that each match it
\* listed has a quote, and the others have an error each (holdout.py:82-108).
LatestIsComplete ==
    \A p \in latest :
        LET c == p.capture IN
        /\ c \in captures /\ c.source \subseteq copies
        /\ c.events \subseteq c.quotes \union c.errors /\ c.quotes \intersect c.errors = {}
        /\ p.status = "COLLECTED" <=> (c.errors = {} /\ c.quotes = c.events)
-----------------------------------------------------------------------------
(* The inductive invariant behind that property.                           *)

\* The matches a run is done with have a quote or an error each.
QuotesAndErrors(s) ==
    /\ s.quotes \intersect s.errors = {}
    /\ \/ s.errors = {"DISCOVERY"} /\ s.events = {} /\ s.pc \in {"capture", "pointer"}
       \/ s.errors \subseteq Fixtures /\ s.events \ s.left = s.quotes \union s.errors

RunLocals ==
    \A r \in Runs :
        /\ QuotesAndErrors(run[r])
        /\ run[r].pc \in {"idle", "copy", "discover"} => run[r].events = {}
        /\ run[r].pc \notin {"idle", "copy"} => run[r].source \subseteq copies
        /\ run[r].pc \in {"next", "books"} <=> run[r].left # {}
        /\ run[r].pc = "books" <=> run[r].event # {}
        /\ \A read \in run[r].event : read[1] \in run[r].left
        /\ run[r].pc = "pointer" => CaptureOf(r) \in captures

HoldoutIInv == HoldoutTypeOK /\ RunLocals /\ LatestIsComplete

=============================================================================

----------------------------- MODULE PaperBets -----------------------------
(***************************************************************************)
(* data/bets.jsonl: record_bet and settle_bet of src/src/betting.py.       *)
(*                                                                         *)
(* Rows are appended and synced, without a lock: settle_bet reads the log, *)
(* looks for a settlement of the bet and appends one if it found none.  A  *)
(* process that dies while it appends leaves part of a line.  Stakes,      *)
(* odds and the profit of a settlement are left out.                       *)
(***************************************************************************)
EXTENDS Naturals, Sequences

CONSTANTS
    Bets,         \* ids of bets
    Settlers,     \* calls of settle_bet that may run at once
    MaxRows       \* bound: lines of the log

ASSUME RowsAssumption == MaxRows \in Nat

VARIABLES
    bets,         \* data/bets.jsonl
    settler       \* each call of settle_bet, with its locals

betsVars == <<bets, settler>>

-----------------------------------------------------------------------------
\* "torn" is a last line without its end, "glued" one that another row was
\* appended to: no JSON either way.  "read" is kept with a settlement for the
\* properties: the lines that its call had read.
LogRow == [kind: {"bet", "settlement", "torn", "glued"}, bet: Bets, won: BOOLEAN, read: 0..MaxRows]
AtRest == [pc |-> "idle", bet |-> {}, won |-> FALSE, read |-> 0]

BetsTypeOK ==
    /\ bets \in Seq(LogRow) /\ Len(bets) <= MaxRows
    /\ settler \in [Settlers -> [pc: {"idle", "append"}, bet: SUBSET Bets, won: BOOLEAN,
                                 read: 0..MaxRows]]

BetsInit ==
    /\ bets = <<>>
    /\ settler = [s \in Settlers |-> AtRest]

-----------------------------------------------------------------------------
\* Room for a row: the bound on the log.
Room == Len(bets) < MaxRows

\* open("a") and write: the row follows whatever the file ends with.
Appended(row) ==
    IF bets # <<>> /\ bets[Len(bets)].kind = "torn"
    THEN [bets EXCEPT ![Len(bets)].kind = IF row.kind = "torn" THEN "torn" ELSE "glued"]
    ELSE Append(bets, row)

\* The decision for each content of market_gate.json: absent, an insufficient
\* sample, or a cohort that passed.
GoGate(artifact) == "NO-GO"

\* A real bet also needs a manual approval, which is never asked for: the gate
\* comes first.
RecordBet ==
    /\ Room
    /\ \E real \in BOOLEAN, artifact \in {"absent", "insufficient", "passed"}, b \in Bets :
        /\ real => GoGate(artifact) = "GO"
        /\ \A i \in DOMAIN bets : bets[i].kind = "bet" => bets[i].bet # b    \* uuid4
        /\ bets' = Appended([kind |-> "bet", bet |-> b, won |-> FALSE, read |-> 0])
    /\ UNCHANGED settler

\* A line that is no JSON makes json.loads raise, unless the settlement that
\* is sought comes before it.
Settlements(b) == {i \in DOMAIN bets : bets[i].kind = "settlement" /\ bets[i].bet = b}
Broken(i) == bets[i].kind \in {"torn", "glued"}

\* Faulty variant: the log is read, but not searched.
SettlesAnyway(s, b) ==
    /\ settler[s].pc = "idle"
    /\ \A i \in DOMAIN bets : ~Broken(i)
    /\ settler' = [settler EXCEPT ![s] =
            [pc |-> "append", bet |-> {b}, won |-> TRUE, read |-> Len(bets)]]
    /\ UNCHANGED bets

\* The settlement found is returned; without one the call goes on.
SettleBet(s, b) ==
    /\ settler[s].pc = "idle"
    /\ Settlements(b) = {}
    /\ \A i \in DOMAIN bets : ~Broken(i)
    /\ \E won \in BOOLEAN :
        settler' = [settler EXCEPT ![s] =
            [pc |-> "append", bet |-> {b}, won |-> won, read |-> Len(bets)]]
    /\ UNCHANGED bets

AppendSettlement(s) ==
    /\ settler[s].pc = "append"
    /\ Room
    /\ \E b \in settler[s].bet :
        bets' = Appended([kind |-> "settlement", bet |-> b, won |-> settler[s].won,
                          read |-> settler[s].read])
    /\ settler' = [settler EXCEPT ![s] = AtRest]

\* A process dies in the middle of its line.
AppendIsCut ==
    /\ Room
    /\ \E b \in Bets : bets' = Appended([kind |-> "torn", bet |-> b, won |-> FALSE, read |-> 0])
    /\ settler' \in {settler} \union
           {[settler EXCEPT ![s] = AtRest] : s \in {t \in Settlers : settler[t].pc = "append"}}

BetsNext ==
    \/ RecordBet \/ AppendIsCut
    \/ \E s \in Settlers : AppendSettlement(s) \/ \E b \in Bets : SettleBet(s, b)

BetsSpec == BetsInit /\ [][BetsNext]_betsVars

-----------------------------------------------------------------------------
\* A bet is settled again only by a call that had read the log before the
\* first settlement was in it (betting.py:103): calls that follow one another
\* settle a bet once, and a result told twice differs only if they overlapped.
SettledTwiceOnlyByOverlap ==
    \A i, j \in DOMAIN bets :
        /\ i < j /\ bets[i].bet = bets[j].bet
        /\ bets[i].kind = "settlement" /\ bets[j].kind = "settlement"
        => bets[j].read < i
-----------------------------------------------------------------------------
\* The inductive invariant: a call about to append had read no more than the
\* log holds, and every settlement of its bet came after what it had read.
ReadIsUnsettled ==
    \A s \in Settlers : settler[s].pc = "append" =>
        /\ settler[s].read <= Len(bets)
        /\ \A b \in settler[s].bet : \A i \in Settlements(b) : settler[s].read < i

BetsIInv == BetsTypeOK /\ ReadIsUnsettled /\ SettledTwiceOnlyByOverlap

=============================================================================

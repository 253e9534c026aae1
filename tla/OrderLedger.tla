----------------------------- MODULE OrderLedger -----------------------------
(***************************************************************************)
(* data/orders.jsonl and the view order_view rebuilds from it              *)
(* (src/src/execution_polymarket.py).  The ledger is the sequence of its   *)
(* rows; a row belongs to one local order and is never edited.  A field    *)
(* that a row does not have is read as null by dict.get.                   *)
(***************************************************************************)
EXTENDS Naturals, Sequences

NoId == 0    \* exchange_order_id is null

\* The rows of a local order, as positions in the ledger.
RowsOf(ledger, o) == {i \in DOMAIN ledger : ledger[i].order = o}

FirstRow(ledger, o) ==
    CHOOSE i \in RowsOf(ledger, o) : \A j \in RowsOf(ledger, o) : i <= j
LastRow(ledger, o) ==
    CHOOSE i \in RowsOf(ledger, o) : \A j \in RowsOf(ledger, o) : i >= j

RowsWithId(ledger, o) == {i \in RowsOf(ledger, o) : ledger[i].xid # NoId}

LastRowWithId(ledger, o) ==
    CHOOSE i \in RowsWithId(ledger, o) : \A j \in RowsWithId(ledger, o) : i >= j

\* The last exchange id a row of the order carries, if one does.
LatestId(ledger, o) ==
    IF RowsWithId(ledger, o) = {} THEN NoId ELSE ledger[LastRowWithId(ledger, o)].xid

\* order_view: bet and terms from the first row, state and size_matched from
\* the last one.
View(ledger, o) ==
    [bet |-> ledger[FirstRow(ledger, o)].bet,
     size |-> ledger[FirstRow(ledger, o)].size,
     state |-> ledger[LastRow(ledger, o)].state,
     xid |-> LatestId(ledger, o),
     matched |-> ledger[LastRow(ledger, o)].matched]

\* What one more row of the order makes of its view.
Folded(view, row) ==
    [bet |-> view.bet, size |-> view.size, state |-> row.state,
     xid |-> IF row.xid = NoId THEN view.xid ELSE row.xid,
     matched |-> row.matched]
=============================================================================

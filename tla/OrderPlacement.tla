--------------------------- MODULE OrderPlacement ---------------------------
(***************************************************************************)
(* OrderExecution implements BetPlacement.                                 *)
(***************************************************************************)
EXTENDS OrderExecution

\* The orders and requests of a bet that are, or may still get, on the
\* exchange.
Reached(b) == \E x \in DOMAIN exchange : exchange[x].bet = b
Travels(b) == \E m \in wire : m.bet = b
Doubled(b) ==
    \/ \E x, y \in DOMAIN exchange : x # y /\ exchange[x].bet = b /\ exchange[y].bet = b
    \/ \E m, n \in wire : m # n /\ m.bet = b /\ n.bet = b
    \/ Reached(b) /\ Travels(b)

\* A caller has written SUBMITTED for the bet and is about to transmit.
AboutToSend(b) == \E c \in Callers : call[c].pc = "post" /\ call[c].bet = b

StageOf(b) ==
    IF Doubled(b) THEN "many"
    ELSE IF Reached(b) \/ Travels(b) THEN "sent"
    ELSE IF OrdersOf(b) = {} THEN "free"
    ELSE IF orders[ExistingOrderForBet(b)].state = "CREATED" THEN "claimed"
    ELSE IF AboutToSend(b) THEN "committed"
    ELSE "lost"

Bet == INSTANCE BetPlacement WITH stage <- [b \in Bets |-> StageOf(b)]

\* submit_order sends a bet once or never, and never before it committed to
\* it: every step of the callers, the network and the exchange is a step of
\* BetPlacement or leaves the stage of every bet as it is.
ImplementsBetPlacement == Bet!Placement
=============================================================================

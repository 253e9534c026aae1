---------------------------- MODULE BetPlacement ----------------------------
(***************************************************************************)
(* What submit_order promises for every bet, with nothing said of how: a   *)
(* local order claims the bet, the decision to send it is made durable,    *)
(* and from then on the bet is sent once or never.  A claim may wait as    *)
(* long as it likes and be taken up again; a bet that was committed, sent  *)
(* or lost is never sent again.                                            *)
(* (src/docs/EXECUTION_POLYMARKET.md:32-34 and 55-59.)                     *)
(***************************************************************************)
CONSTANT Bets

VARIABLE stage

\* "many" is the stage of a bet with two orders or requests: no step leads
\* to it.
Stages == {"free", "claimed", "committed", "sent", "lost", "many"}

Move(b, from, to) ==
    /\ stage[b] = from
    /\ stage' = [stage EXCEPT ![b] = to]

Claim(b)  == Move(b, "free", "claimed")        \* order_created
Commit(b) == Move(b, "claimed", "committed")   \* order_submitted
Send(b)   == Move(b, "committed", "sent")
GiveUp(b) == Move(b, "committed", "lost")      \* died before it sent
Lose(b)   == Move(b, "sent", "lost")           \* the request never arrived

Start == stage = [b \in Bets |-> "free"]

Step == \E b \in Bets : Claim(b) \/ Commit(b) \/ Send(b) \/ GiveUp(b) \/ Lose(b)

Placement == Start /\ [][Step]_stage
=============================================================================

------------------------ MODULE OrderPlacementProofs ------------------------
(***************************************************************************)
(* OrderExecution implements BetPlacement for any set of bets, sizes and   *)
(* callers.                                                                *)
(***************************************************************************)
EXTENDS OrderPlacement, OrderExecutionProofs

\* What the stage of a bet is a function of.
HasOrder(b) == \E o \in DOMAIN orders : orders[o].bet = b
Resumable(b) == \E o \in DOMAIN orders : orders[o].bet = b /\ orders[o].state = "CREATED"
Sent(b) == Reached(b) \/ Travels(b)


StageForm ==
    \A b \in Bets :
        StageOf(b) = IF Sent(b) THEN "sent"
                     ELSE IF ~HasOrder(b) THEN "free"
                     ELSE IF Resumable(b) THEN "claimed"
                     ELSE IF AboutToSend(b) THEN "committed" ELSE "lost"

\* With one order and one transmission for a bet, its stage needs no choice
\* of an order.
LEMMA StageCases == IInv => StageForm
<1> SUFFICES ASSUME IInv, NEW b \in Bets
             PROVE  StageOf(b) = IF Sent(b) THEN "sent"
                                 ELSE IF ~HasOrder(b) THEN "free"
                                 ELSE IF Resumable(b) THEN "claimed"
                                 ELSE IF AboutToSend(b) THEN "committed" ELSE "lost"
  BY DEF StageForm
<1>1. ~Doubled(b)
  BY DEF IInv, AtMostOnePlacement, Doubled, Reached, Travels
<1>2. OrdersOf(b) = {} <=> ~HasOrder(b)
  BY DEF OrdersOf, HasOrder
<1>3. ASSUME HasOrder(b)
      PROVE  (orders[ExistingOrderForBet(b)].state = "CREATED") <=> Resumable(b)
  <2>1. /\ ExistingOrderForBet(b) \in DOMAIN orders
        /\ orders[ExistingOrderForBet(b)].bet = b
    BY <1>2, <1>3, ExistingOrderType, Zenon DEF IInv
  <2>2. QED
    BY <2>1 DEF Resumable, IInv, OneOrderPerBet
<1>4. QED
  BY <1>1, <1>2, <1>3 DEF StageOf, Sent

\* A bet about which nothing of this changes stays in its stage.
LEMMA StageKept ==
    ASSUME StageForm, StageForm', NEW b \in Bets,
           Sent(b)' <=> Sent(b), HasOrder(b)' <=> HasOrder(b),
           Resumable(b)' <=> Resumable(b),
           ~Sent(b) => (AboutToSend(b)' <=> AboutToSend(b))
    PROVE  StageOf(b)' = StageOf(b)
  BY DEF StageForm

Others(b) == \A a \in Bets \ {b} : StageOf(a)' = StageOf(a)
Same == \A a \in Bets : StageOf(a)' = StageOf(a)

\* The callers that do not change step over nothing that has a stage.
LEMMA CallChange ==
    ASSUME StageForm, StageForm', UNCHANGED wire,
           DOMAIN exchange' = DOMAIN exchange,
           \A x \in DOMAIN exchange : exchange'[x].bet = exchange[x].bet,
           DOMAIN orders' = DOMAIN orders,
           \A o \in DOMAIN orders :
                /\ orders'[o].bet = orders[o].bet
                /\ (orders'[o].state = "CREATED") <=> (orders[o].state = "CREATED"),
           \A b \in Bets : ~Sent(b) => (AboutToSend(b)' <=> AboutToSend(b))
    PROVE  Same
<1>1. \A b \in Bets : /\ Sent(b)' <=> Sent(b)
                      /\ HasOrder(b)' <=> HasOrder(b)
                      /\ Resumable(b)' <=> Resumable(b)
  BY DEF Sent, Reached, Travels, HasOrder, Resumable
<1>2. QED
  BY <1>1, StageKept DEF Same

\* A call that neither was nor is about to transmit changes nobody's plans.
LEMMA NotAboutToSend ==
    ASSUME NEW c \in Callers, call[c].pc # "post", call'[c].pc # "post",
           \A d \in Callers \ {c} : call'[d] = call[d], NEW b \in Bets
    PROVE  AboutToSend(b)' <=> AboutToSend(b)
  BY DEF AboutToSend

\* A row recorded for an order that left CREATED before.
LEMMA RecordKeepsStages ==
    ASSUME IInv, StageForm, StageForm', NEW c \in Callers, call[c].pc # "post",
           call' = [call EXCEPT ![c] = Idle], UNCHANGED <<wire, exchange>>,
           call[c].order \in DOMAIN orders, orders[call[c].order].state # "CREATED",
           NEW state \in States \ {"CREATED"}, NEW xid \in Nat, NEW matched \in Matched,
           orders' = Recorded(call[c].order, state, xid, matched)
    PROVE  Same
<1> DEFINE o == call[c].order
<1>1. /\ DOMAIN orders' = DOMAIN orders
      /\ \A p \in DOMAIN orders :
           /\ orders'[p].bet = orders[p].bet
           /\ orders'[p].state = IF p = o THEN state ELSE orders[p].state
  BY RecordedFields DEF IInv
<1>2. \A p \in DOMAIN orders : (orders'[p].state = "CREATED") <=> (orders[p].state = "CREATED")
  BY <1>1
<1>3. \A b \in Bets : AboutToSend(b)' <=> AboutToSend(b)
  BY NotAboutToSend, IdleType DEF IInv, TypeOK
<1>4. QED
  BY <1>1, <1>2, <1>3, CallChange

\* Every step of OrderExecution leaves the stages alone or moves one bet.
Advances(b, from, to) == StageOf(b) = from /\ StageOf(b)' = to /\ Others(b)

\* A step of the callers, the network or the exchange is a stutter or a step
\* of BetPlacement.
LEMMA StageStep ==
    ASSUME IInv, IInv', StageForm, StageForm', [Next]_vars
    PROVE  \/ Same
           \/ \E b \in Bets : \/ Advances(b, "free", "claimed")
                              \/ Advances(b, "claimed", "committed")
                              \/ Advances(b, "committed", "sent")
                              \/ Advances(b, "committed", "lost")
                              \/ Advances(b, "sent", "lost")
<1> DEFINE Allowed == \/ Same
                      \/ \E b \in Bets : \/ Advances(b, "free", "claimed")
                                         \/ Advances(b, "claimed", "committed")
                                         \/ Advances(b, "committed", "sent")
                                         \/ Advances(b, "committed", "lost")
                                         \/ Advances(b, "sent", "lost")
<1>1. TypeOK
  BY DEF IInv
\* Steps that touch nothing but the locals of a caller not at "post".
<1>2. ASSUME NEW c \in Callers, call[c].pc # "post", call'[c].pc # "post",
             \A d \in Callers \ {c} : call'[d] = call[d],
             UNCHANGED <<orders, wire, exchange>>
      PROVE  Same
  BY <1>2, NotAboutToSend, CallChange
<1>3. ASSUME NEW c \in Callers, SubmitCall(c) PROVE Same
  BY <1>1, <1>2, <1>3 DEF SubmitCall, Idle, TypeOK
<1>4. ASSUME NEW c \in Callers, SubmitReturnsExisting(c) PROVE Same
  BY <1>1, <1>2, <1>4, IdleType DEF SubmitReturnsExisting, TypeOK
<1>5. ASSUME NEW c \in Callers, SubmitResumes(c) PROVE Same
  BY <1>1, <1>2, <1>5 DEF SubmitResumes, TypeOK, Locals
<1>6. ASSUME NEW c \in Callers, SubmitFindsNone(c) PROVE Same
  BY <1>1, <1>2, <1>6 DEF SubmitFindsNone, TypeOK, Locals
<1>7. ASSUME NEW c \in Callers, NEW b \in Bets, b = call[c].bet, SubmitCreate(c)
      PROVE  Advances(b, "free", "claimed")
  <2>1. \A o \in DOMAIN orders : orders[o].bet # b
    BY <1>7 DEF SubmitCreate, IInv, SubmissionLocals, OneOrderPerBet, Submitting
  <2>2. ~Sent(b) /\ ~HasOrder(b)
    BY <2>1 DEF IInv, SentIsCommitted, Sent, Reached, Travels, HasOrder
  <2>3. \A a \in Bets : AboutToSend(a)' <=> AboutToSend(a)
    BY <1>1, <1>7, NotAboutToSend DEF SubmitCreate, TypeOK, Locals
  <2>4. \A a \in Bets : Sent(a)' <=> Sent(a)
    BY <1>7 DEF SubmitCreate, Sent, Reached, Travels
  <2> DEFINE n == Len(orders) + 1
  <2>5. /\ DOMAIN orders' = DOMAIN orders \union {n} /\ n \notin DOMAIN orders
        /\ \A o \in DOMAIN orders : orders'[o] = orders[o]
        /\ orders'[n].bet = b /\ orders'[n].state = "CREATED"
    BY <1>1, <1>7 DEF SubmitCreate, TypeOK
  <2> HIDE DEF n
  <2>6. HasOrder(b)' /\ Resumable(b)'
    BY <2>5 DEF HasOrder, Resumable
  <2>7. \A a \in Bets \ {b} : (HasOrder(a)' <=> HasOrder(a)) /\ (Resumable(a)' <=> Resumable(a))
    BY <2>5 DEF HasOrder, Resumable
  <2>8. Others(b)
    BY <2>3, <2>4, <2>7, StageKept DEF Others
  <2>9. StageOf(b) = "free" /\ StageOf(b)' = "claimed"
    BY <2>1, <2>2, <2>4, <2>6 DEF StageForm
  <2>10. QED
    BY <2>8, <2>9 DEF Advances
<1>8. ASSUME NEW c \in Callers, NEW b \in Bets, b = call[c].bet, SubmitMarkSubmitted(c)
      PROVE  Advances(b, "claimed", "committed")
  <2> DEFINE o == call[c].order
  <2>1. /\ lock = c /\ o \in DOMAIN orders
        /\ orders[o].bet = b /\ orders[o].state = "CREATED"
    BY <1>8 DEF SubmitMarkSubmitted, IInv, SubmissionLocals, LockProtects, Submitting
  <2>2. ~Sent(b) /\ HasOrder(b) /\ Resumable(b)
    BY <2>1 DEF IInv, SentIsCommitted, OneOrderPerBet, Sent, Reached, Travels, HasOrder,
       Resumable
  <2>3. /\ call'[c].pc = "post" /\ call'[c].bet = b /\ call[c].pc = "client"
        /\ \A d \in Callers \ {c} : call'[d] = call[d]
    BY <1>1, <1>8 DEF SubmitMarkSubmitted, TypeOK, Locals
  <2>4. \A a \in Bets : Sent(a)' <=> Sent(a)
    BY <1>8 DEF SubmitMarkSubmitted, Sent, Reached, Travels
  <2>5. "SUBMITTED" \in States /\ NoId \in Nat /\ None \in Matched
    BY DEF States, NoId, Matched
  <2>6. /\ DOMAIN orders' = DOMAIN orders
        /\ \A p \in DOMAIN orders :
             /\ orders'[p].bet = orders[p].bet
             /\ orders'[p].state = IF p = o THEN "SUBMITTED" ELSE orders[p].state
    BY <1>1, <1>8, <2>1, <2>5, RecordedFields DEF SubmitMarkSubmitted
  <2> HIDE DEF o
  <2>7. AboutToSend(b)' /\ \A a \in Bets \ {b} : AboutToSend(a)' <=> AboutToSend(a)
    BY <2>3 DEF AboutToSend
  <2>8. HasOrder(b)' /\ ~Resumable(b)'
    BY <2>1, <2>6 DEF HasOrder, Resumable, IInv, OneOrderPerBet
  <2>9. \A a \in Bets \ {b} : (HasOrder(a)' <=> HasOrder(a)) /\ (Resumable(a)' <=> Resumable(a))
    BY <2>1, <2>6 DEF HasOrder, Resumable
  <2>10. Others(b)
    BY <2>4, <2>7, <2>9, StageKept DEF Others
  <2>11. StageOf(b) = "claimed" /\ StageOf(b)' = "committed"
    BY <2>1, <2>2, <2>4, <2>7, <2>8 DEF StageForm
  <2>12. QED
    BY <2>10, <2>11 DEF Advances
<1>9. ASSUME NEW c \in Callers, NEW b \in Bets, b = call[c].bet, SubmitTransmit(c)
      PROVE  Advances(b, "committed", "sent")
  <2>1. /\ ~Sent(b) /\ HasOrder(b) /\ ~Resumable(b) /\ AboutToSend(b)
    BY <1>9 DEF SubmitTransmit, IInv, SubmissionLocals, Submitting, OneOrderPerBet, Sent,
       Reached, Travels, HasOrder, Resumable, AboutToSend
  <2>2. PICK m : m.bet = b /\ wire' = wire \union {m}
    BY <1>9 DEF SubmitTransmit
  <2>3. UNCHANGED <<orders, exchange>>
    BY <1>9 DEF SubmitTransmit
  <2>4. /\ call[c].pc = "post" /\ call'[c].pc = "await"
        /\ \A d \in Callers \ {c} : call'[d] = call[d]
    BY <1>1, <1>9 DEF SubmitTransmit, TypeOK, Locals
  <2>5. \A a \in Bets \ {b} : AboutToSend(a)' <=> AboutToSend(a)
    BY <1>9, <2>4 DEF AboutToSend
  <2>6. Sent(b)' /\ \A a \in Bets \ {b} : Sent(a)' <=> Sent(a)
    <3>1. \A a \in Bets : Reached(a)' <=> Reached(a)
      BY <2>3 DEF Reached
    <3>2. Travels(b)' /\ \A a \in Bets \ {b} : Travels(a)' <=> Travels(a)
      BY <2>2 DEF Travels
    <3>3. QED
      BY <3>1, <3>2 DEF Sent
  <2>7. \A a \in Bets : (HasOrder(a)' <=> HasOrder(a)) /\ (Resumable(a)' <=> Resumable(a))
    BY <2>3 DEF HasOrder, Resumable
  <2>8. Others(b)
    BY <2>5, <2>6, <2>7, StageKept DEF Others
  <2>9. StageOf(b) = "committed" /\ StageOf(b)' = "sent"
    BY <2>1, <2>6 DEF StageForm
  <2>10. QED
    BY <2>8, <2>9 DEF Advances
<1>10. ASSUME NEW c \in Callers, SubmitTransmitFails(c) PROVE Same
  <2>1. call[c].order \in DOMAIN orders /\ orders[call[c].order].state # "CREATED"
    BY <1>10 DEF SubmitTransmitFails, IInv, SubmissionLocals, Submitting
  <2>2. QED
    BY <1>10, <2>1, RecordKeepsStages DEF SubmitTransmitFails, States, Matched, NoId
<1>11. ASSUME NEW c \in Callers, SubmitResult(c) PROVE Same
  <2>1. call[c].order \in DOMAIN orders /\ orders[call[c].order].state # "CREATED"
    BY <1>11 DEF SubmitResult, IInv, SubmissionLocals, Submitting
  <2> DEFINE row == InterpretPostOrderResponse(call[c].reply, call[c].size)
  <2>2. row.state \in States \ {"CREATED"} /\ row.matched \in Matched
    BY <1>1 DEF InterpretPostOrderResponse, States, TerminalStates, Matched, TypeOK, Locals
  <2>3. call[c].reply.xid \in Nat
    BY <1>1 DEF TypeOK, Locals, PostReply
  <2>4. orders' = Recorded(call[c].order, row.state, call[c].reply.xid, row.matched)
    BY <1>11 DEF SubmitResult
  <2> HIDE DEF row
  <2>5. QED
    BY <1>11, <2>1, <2>2, <2>3, <2>4, RecordKeepsStages DEF SubmitResult
<1>12. ASSUME NEW c \in Callers, NEW o \in DOMAIN orders, NEW pc \in {"query", "cancel"},
              BeginCall(c, o, pc)
       PROVE  Same
  BY <1>1, <1>2, <1>12 DEF BeginCall, Idle, TypeOK
<1>13. ASSUME NEW c \in Callers, ReconcileQuery(c) PROVE Same
  <2> DEFINE known == exchange[call[c].xid]
  <2>1. PICK status \in {known.status, "other"}, filled \in {known.matched, None} :
          LET row == InterpretOrderStatus(status, filled, call[c].size) IN
          call' = [call EXCEPT ![c].pc = "resolved",
                               ![c].state = IF row.state \in TerminalStates
                                            THEN "RECONCILED" ELSE row.state,
                               ![c].matched = row.matched]
    BY <1>13, Zenon DEF ReconcileQuery
  <2> DEFINE row == InterpretOrderStatus(status, filled, call[c].size)
             state == IF row.state \in TerminalStates THEN "RECONCILED" ELSE row.state
             matched == row.matched
  <2>2. call' = [call EXCEPT ![c].pc = "resolved", ![c].state = state,
                             ![c].matched = matched]
    BY <2>1
  <2> HIDE DEF row, state, matched
  <2>3. call'[c].pc = "resolved" /\ \A d \in Callers \ {c} : call'[d] = call[d]
    BY <1>1, <2>2 DEF TypeOK, Locals
  <2>4. QED
    BY <1>2, <1>13, <2>3 DEF ReconcileQuery
<1>14. ASSUME NEW c \in Callers, ReconcileRecord(c) \/ CancelRecord(c) PROVE Same
  <2>1. /\ call[c].order \in DOMAIN orders /\ orders[call[c].order].state # "CREATED"
        /\ call[c].xid \in Nat /\ call[c].state \in States \ {"CREATED"}
        /\ call[c].matched \in Matched
        /\ "CANCELLED" \in States \ {"CREATED"} /\ None \in Matched
    BY <1>1, <1>14 DEF ReconcileRecord, CancelRecord, IInv, InquiryLocals, Inquiring,
       SentIsCommitted, TypeOK, Locals, States, TerminalStates, Matched
  <2>2. QED
    BY <1>14, <2>1, RecordKeepsStages DEF ReconcileRecord, CancelRecord
<1>15. ASSUME NEW c \in Callers, CancelSend(c) PROVE Same
  <2>1. /\ DOMAIN exchange' = DOMAIN exchange
        /\ \A x \in DOMAIN exchange : exchange'[x].bet = exchange[x].bet
    <3>1. CASE exchange' = [exchange EXCEPT ![call[c].xid].status = "cancelled"]
      BY <1>1, <3>1, StatusChange DEF TypeOK
    <3>2. CASE UNCHANGED exchange
      BY <3>2
    <3>3. QED
      BY <1>15, <3>1, <3>2 DEF CancelSend
  <2>2. \A b \in Bets : AboutToSend(b)' <=> AboutToSend(b)
    BY <1>1, <1>15, NotAboutToSend DEF CancelSend, TypeOK, Locals
  <2>3. QED
    BY <1>15, <2>1, <2>2, CallChange DEF CancelSend
<1>16. ASSUME NEW c \in Callers, Abort(c) PROVE Allowed
  <2>1. /\ call'[c].pc = "idle"
        /\ \A d \in Callers \ {c} : call'[d] = call[d]
        /\ UNCHANGED <<orders, wire, exchange>>
    BY <1>1, <1>16, IdleType DEF Abort, TypeOK
  <2>2. CASE call[c].pc # "post"
    BY <1>2, <2>1, <2>2
  <2>3. ASSUME call[c].pc = "post", NEW b \in Bets, b = call[c].bet
        PROVE  Advances(b, "committed", "lost")
    <3>1. ~Sent(b) /\ HasOrder(b) /\ ~Resumable(b) /\ AboutToSend(b)
      BY <2>3 DEF IInv, SubmissionLocals, Submitting, OneOrderPerBet, Sent,
         Reached, Travels, HasOrder, Resumable, AboutToSend
    <3>2. \A d \in Callers \ {c} : call[d].pc # "post"
      BY <2>3 DEF IInv, LockProtects, Submitting
    <3>3. \A a \in Bets : /\ Sent(a)' <=> Sent(a)
                          /\ HasOrder(a)' <=> HasOrder(a)
                          /\ Resumable(a)' <=> Resumable(a)
      BY <2>1 DEF Sent, Reached, Travels, HasOrder, Resumable
    <3>4. \A a \in Bets \ {b} : AboutToSend(a)' <=> AboutToSend(a)
      BY <2>1, <2>3 DEF AboutToSend
    <3>5. ~AboutToSend(b)'
      BY <2>1, <3>2 DEF AboutToSend
    <3>6. Others(b)
      BY <3>3, <3>4, StageKept DEF Others
    <3>7. StageOf(b) = "committed" /\ StageOf(b)' = "lost"
      BY <3>1, <3>3, <3>5 DEF StageForm
    <3>8. QED
      BY <3>6, <3>7 DEF Advances
  <2>4. call[c].pc = "post" => call[c].bet \in Bets
    BY DEF IInv, SubmissionLocals, Submitting
  <2>5. QED
    BY <2>2, <2>3, <2>4
\* A request that is no longer travelling and did not arrive.
<1>17. ASSUME NEW m \in wire, wire' = wire \ {m}, UNCHANGED <<orders, exchange>>,
              \A c \in Callers : call'[c] = call[c]
                                    \/ (call[c].pc # "post" /\ call'[c].pc # "post")
       PROVE  Advances(m.bet, "sent", "lost")
  <2> DEFINE b == m.bet
  <2>1. b \in Bets
    BY <1>1 DEF TypeOK, Request
  <2>2. /\ Sent(b) /\ ~Sent(b)'
        /\ \A a \in Bets \ {b} : Sent(a)' <=> Sent(a)
    BY <1>17 DEF IInv, AtMostOnePlacement, Sent, Reached, Travels
  <2>3. HasOrder(b) /\ ~Resumable(b)
    BY DEF IInv, SentIsCommitted, OneOrderPerBet, HasOrder, Resumable
  <2>4. \A a \in Bets : (HasOrder(a)' <=> HasOrder(a)) /\ (Resumable(a)' <=> Resumable(a))
    BY <1>17 DEF HasOrder, Resumable
  <2>5. ~AboutToSend(b)
    BY DEF IInv, SubmissionLocals, AboutToSend
  <2>6. \A a \in Bets : AboutToSend(a)' <=> AboutToSend(a)
    BY <1>17 DEF AboutToSend
  <2> HIDE DEF b
  <2>7. Others(b)
    BY <2>2, <2>4, <2>6, StageKept DEF Others
  <2>8. StageOf(b) = "sent" /\ StageOf(b)' = "lost"
    BY <2>1, <2>2, <2>3, <2>4, <2>5, <2>6 DEF StageForm
  <2>9. QED
    BY <2>7, <2>8 DEF Advances, b
<1>18. ASSUME NEW m \in wire, RequestLost(m) PROVE Advances(m.bet, "sent", "lost")
  BY <1>17, <1>18 DEF RequestLost
<1>19. ASSUME NEW m \in wire, ExchangeRefuses(m) PROVE Advances(m.bet, "sent", "lost")
  <2>1. [NoReply EXCEPT !.success = "false"] \in PostReply
    BY DEF NoReply, PostReply, NoId
  <2>2. \A c \in Callers : call'[c] = call[c] \/ (call[c].pc # "post" /\ call'[c].pc # "post")
    BY <1>1, <1>19, <2>1, AnswerFields DEF ExchangeRefuses
  <2>3. QED
    BY <1>17, <1>19, <2>2 DEF ExchangeRefuses
<1>20. ASSUME NEW m \in wire, ExchangePlaces(m) PROVE Same
  <2>1. PICK reply \in PostReply, status \in {"live", "matched", "unmatched"} :
          /\ exchange' = Append(exchange, Placed(m, status))
          /\ Answer(m, reply)
    BY <1>20 DEF ExchangePlaces, PostReply, NoReply, NoId, IInv, TypeOK
  <2>2. UNCHANGED <<orders, lock>> /\ wire' = wire \ {m}
    BY <1>20 DEF ExchangePlaces
  <2> DEFINE n == Len(exchange) + 1
  <2>3. /\ DOMAIN exchange' = DOMAIN exchange \union {n}
        /\ \A x \in DOMAIN exchange : exchange'[x] = exchange[x]
        /\ exchange'[n].bet = m.bet
    BY <1>1, <2>1 DEF Placed, TypeOK
  <2> HIDE DEF n
  <2>4. \A b \in Bets : Sent(b)' <=> Sent(b)
    BY <2>2, <2>3 DEF Sent, Reached, Travels
  <2>5. \A c \in Callers : call'[c] = call[c] \/ (call[c].pc # "post" /\ call'[c].pc # "post")
    BY <1>1, <2>1, AnswerFields
  <2>6. \A b \in Bets : /\ AboutToSend(b)' <=> AboutToSend(b)
                        /\ HasOrder(b)' <=> HasOrder(b)
                        /\ Resumable(b)' <=> Resumable(b)
    BY <2>2, <2>5 DEF AboutToSend, HasOrder, Resumable
  <2>7. QED
    BY <2>4, <2>6, StageKept DEF Same
<1>21. ASSUME NEW x \in DOMAIN exchange, ExchangeFills(x) \/ ExchangeCloses(x) PROVE Same
  <2>1. /\ DOMAIN exchange' = DOMAIN exchange
        /\ \A y \in DOMAIN exchange : exchange'[y].bet = exchange[y].bet
    <3>1. CASE ExchangeFills(x)
      BY <1>1, <3>1, FillChange DEF ExchangeFills, TypeOK
    <3>2. CASE ExchangeCloses(x)
      BY <1>1, <3>2, StatusChange DEF ExchangeCloses, TypeOK
    <3>3. QED
      BY <1>21, <3>1, <3>2
  <2>2. UNCHANGED <<orders, call, wire>>
    BY <1>21 DEF ExchangeFills, ExchangeCloses
  <2>3. QED
    BY <2>1, <2>2, CallChange DEF AboutToSend
<1>22. ASSUME UNCHANGED vars PROVE Same
  BY <1>22, CallChange DEF vars, AboutToSend
<1>23. /\ \A c \in Callers : call[c].pc \in Submitting => call[c].bet \in Bets
       /\ \A m \in wire : m.bet \in Bets
  BY <1>1 DEF IInv, SubmissionLocals, TypeOK, Request
<1>24. \A c \in Callers : SubmitCreate(c) \/ SubmitMarkSubmitted(c) \/ SubmitTransmit(c)
          => call[c].pc \in Submitting
  BY DEF SubmitCreate, SubmitMarkSubmitted, SubmitTransmit, Submitting
<1>25. Allowed
  BY <1>3, <1>4, <1>5, <1>6, <1>7, <1>8, <1>9, <1>10, <1>11, <1>12, <1>13, <1>14, <1>15,
     <1>16, <1>18, <1>19, <1>20, <1>21, <1>22, <1>23, <1>24
  DEF Next, Begin, CallStep, SubmitStep, ReconcileCall, CancelCall, Environment
<1>26. QED
  BY <1>25

\* The stages move as BetPlacement allows.
LEMMA StagesMove ==
    ASSUME IInv, IInv', [Next]_vars
    PROVE  [Bet!Step]_([b \in Bets |-> StageOf(b)])
<1> DEFINE stages == [b \in Bets |-> StageOf(b)]
<1>1. StageForm /\ StageForm'
  <2>1. IInv' => StageForm'
    BY StageCases, PTL
  <2>2. QED
    BY <2>1, StageCases
<1>2. CASE Same
  BY <1>2 DEF Same
<1>3. ASSUME NEW b \in Bets, NEW from, NEW to, Advances(b, from, to)
      PROVE  stages[b] = from /\ stages' = [stages EXCEPT ![b] = to]
  BY <1>3 DEF Advances, Others
<1>4. QED
  BY <1>1, <1>2, <1>3, StageStep
  DEF Bet!Step, Bet!Move, Bet!Claim, Bet!Commit, Bet!Send, Bet!GiveUp, Bet!Lose

\* A bet is sent once or never: every behaviour of OrderExecution is one of
\* BetPlacement.
THEOREM PlacementImplemented == Spec => ImplementsBetPlacement
<1>1. Init => Bet!Start
  <2> SUFFICES ASSUME Init, NEW b \in Bets
               PROVE  StageOf(b) = "free"
    BY DEF Bet!Start
  <2>1. StageForm
    BY InitIInv, StageCases
  <2>2. QED
    BY <2>1 DEF Init, StageForm, Sent, Reached, Travels, HasOrder
<1>2. IInv /\ IInv' /\ [Next]_vars => [Bet!Step]_([b \in Bets |-> StageOf(b)])
  BY StagesMove
<1>3. QED
  BY <1>1, <1>2, InvariantHolds, PTL DEF Spec, ImplementsBetPlacement, Bet!Placement
=============================================================================

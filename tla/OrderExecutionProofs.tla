------------------------- MODULE OrderExecutionProofs -------------------------
(***************************************************************************)
(* Safety of OrderExecution for any set of bets, sizes and callers: the    *)
(* ledger can be kept as views, a bet is placed at most once, and what the *)
(* views tell of fills and terminal states is true of the exchange.        *)
(***************************************************************************)
EXTENDS OrderExecution, NaturalSets, SequenceTheorems

-----------------------------------------------------------------------------
(* The view of an order can be kept up to date row by row, which is how    *)
(* OrderExecution represents the ledger.                                   *)

\* What the operators of OrderLedger read: the rows of the order, the first,
\* the last and the last with an id, all of which exist when they are asked
\* for.
LEMMA RowsExist ==
    ASSUME NEW S, NEW ledger \in Seq(S), NEW o, RowsOf(ledger, o) # {}
    PROVE  /\ FirstRow(ledger, o) \in RowsOf(ledger, o)
           /\ \A j \in RowsOf(ledger, o) : FirstRow(ledger, o) <= j
           /\ LastRow(ledger, o) \in RowsOf(ledger, o)
           /\ RowsWithId(ledger, o) # {} => LastRowWithId(ledger, o) \in RowsOf(ledger, o)
<1> DEFINE R == RowsOf(ledger, o)
           W == RowsWithId(ledger, o)
<1>1. /\ R \in SUBSET Nat
      /\ W \in SUBSET Nat
      /\ W \subseteq R
      /\ Len(ledger) \in Nat
      /\ \A i \in R : i <= Len(ledger)
  BY DEF RowsOf, RowsWithId
<1>2. \E i \in R : \A j \in R : i <= j
  BY <1>1, LeastExists, Zenon
<1>3. \E i \in R : \A j \in R : i >= j
  BY <1>1, GreatestExists, Zenon
<1>4. ASSUME W # {}
      PROVE  \E i \in W : \A j \in W : i >= j
  <2>1. \A i \in W : i <= Len(ledger)
    BY <1>1
  <2>2. QED
    BY <1>1, <1>4, <2>1, GreatestExists, Zenon
<1>5. FirstRow(ledger, o) \in R /\ \A j \in R : FirstRow(ledger, o) <= j
  BY <1>2, Zenon DEF FirstRow
<1>6. LastRow(ledger, o) \in R
  BY <1>3, Zenon DEF LastRow
<1>7. W # {} => LastRowWithId(ledger, o) \in R
  <2>1. W # {} => LastRowWithId(ledger, o) \in W
    BY <1>4, Zenon DEF LastRowWithId
  <2>2. QED
    BY <1>1, <2>1
<1>8. QED
  BY <1>5, <1>6, <1>7, Zenon

\* A row belongs to its own order only.
LEMMA RowsOfOthers ==
    ASSUME NEW S, NEW ledger \in Seq(S), NEW row \in S, NEW o, row.order # o
    PROVE  /\ RowsOf(Append(ledger, row), o) = RowsOf(ledger, o)
           /\ RowsWithId(Append(ledger, row), o) = RowsWithId(ledger, o)
           /\ \A i \in RowsOf(ledger, o) : Append(ledger, row)[i] = ledger[i]
  BY DEF RowsOf, RowsWithId

\* It comes after every other row of its order.
LEMMA RowsOfItsOrder ==
    ASSUME NEW S, NEW ledger \in Seq(S), NEW row \in S, NEW o, row.order = o
    PROVE  /\ RowsOf(Append(ledger, row), o) = RowsOf(ledger, o) \union {Len(ledger) + 1}
           /\ row.xid = NoId =>
                RowsWithId(Append(ledger, row), o) = RowsWithId(ledger, o)
           /\ row.xid # NoId =>
                RowsWithId(Append(ledger, row), o)
                    = RowsWithId(ledger, o) \union {Len(ledger) + 1}
           /\ \A i \in RowsOf(ledger, o) :
                /\ i \in 1..Len(ledger)
                /\ Append(ledger, row)[i] = ledger[i]
           /\ Append(ledger, row)[Len(ledger) + 1] = row
           /\ Len(ledger) \in Nat
<1> DEFINE longer == Append(ledger, row)
<1>1. /\ Len(ledger) \in Nat
      /\ DOMAIN ledger = 1..Len(ledger)
      /\ DOMAIN longer = 1..(Len(ledger) + 1)
      /\ \A i \in 1..Len(ledger) : longer[i] = ledger[i]
      /\ longer[Len(ledger) + 1] = row
  OBVIOUS
<1>2. RowsOf(longer, o) = RowsOf(ledger, o) \union {Len(ledger) + 1}
  BY <1>1 DEF RowsOf
<1>3. \A i \in RowsOf(ledger, o) : i \in 1..Len(ledger) /\ longer[i] = ledger[i]
  BY <1>1 DEF RowsOf
<1>4. row.xid = NoId => RowsWithId(longer, o) = RowsWithId(ledger, o)
  BY <1>1, <1>2, <1>3 DEF RowsWithId
<1>5. row.xid # NoId => RowsWithId(longer, o)
                          = RowsWithId(ledger, o) \union {Len(ledger) + 1}
  BY <1>1, <1>2, <1>3 DEF RowsWithId
<1>6. QED
  BY <1>1, <1>2, <1>3, <1>4, <1>5

\* Appending a row of one order leaves the view of every other order alone.
THEOREM OtherViewsUnchanged ==
    ASSUME NEW S, NEW ledger \in Seq(S), NEW row \in S, NEW o,
           row.order # o, RowsOf(ledger, o) # {}
    PROVE  View(Append(ledger, row), o) = View(ledger, o)
<1> DEFINE longer == Append(ledger, row)
<1>1. /\ RowsOf(longer, o) = RowsOf(ledger, o)
      /\ RowsWithId(longer, o) = RowsWithId(ledger, o)
      /\ \A i \in RowsOf(ledger, o) : longer[i] = ledger[i]
  BY RowsOfOthers
<1>2. FirstRow(longer, o) = FirstRow(ledger, o) /\ LastRow(longer, o) = LastRow(ledger, o)
  BY <1>1, Zenon DEF FirstRow, LastRow
<1>3. LatestId(longer, o) = LatestId(ledger, o)
  <2>1. LastRowWithId(longer, o) = LastRowWithId(ledger, o)
    BY <1>1, Zenon DEF LastRowWithId
  <2>2. RowsWithId(ledger, o) # {} =>
            longer[LastRowWithId(ledger, o)] = ledger[LastRowWithId(ledger, o)]
    BY <1>1, RowsExist, Zenon
  <2>3. QED
    BY <1>1, <2>1, <2>2 DEF LatestId
<1>4. longer[FirstRow(ledger, o)] = ledger[FirstRow(ledger, o)]
  BY <1>1, RowsExist, Zenon
<1>5. longer[LastRow(ledger, o)] = ledger[LastRow(ledger, o)]
  BY <1>1, RowsExist, Zenon
<1>6. QED
  BY <1>2, <1>3, <1>4, <1>5, Zenon DEF View

\* The row appended last is the last row of its order.
LEMMA AppendedRowIsLast ==
    ASSUME NEW S, NEW ledger \in Seq(S), NEW row \in S, NEW o, row.order = o
    PROVE  LastRow(Append(ledger, row), o) = Len(ledger) + 1
<1> DEFINE longer == Append(ledger, row)
           n == Len(ledger) + 1
<1>1. /\ RowsOf(longer, o) = RowsOf(ledger, o) \union {n}
      /\ \A i \in RowsOf(ledger, o) : i \in 1..Len(ledger)
      /\ Len(ledger) \in Nat
  BY RowsOfItsOrder
<1>2. n \in RowsOf(longer, o) /\ \A j \in RowsOf(longer, o) : n >= j
  BY <1>1
<1>3. \A i \in RowsOf(longer, o) : (\A j \in RowsOf(longer, o) : i >= j) => i = n
  BY <1>1, <1>2
<1>4. QED
  BY <1>2, <1>3, Zenon DEF LastRow

\* The exchange id of the row, if it has one, is now the latest of the order.
LEMMA AppendedIdIsLatest ==
    ASSUME NEW S, NEW ledger \in Seq(S), NEW row \in S, NEW o, row.order = o
    PROVE  LatestId(Append(ledger, row), o)
             = IF row.xid = NoId THEN LatestId(ledger, o) ELSE row.xid
<1> DEFINE longer == Append(ledger, row)
           n == Len(ledger) + 1
<1>1. /\ row.xid = NoId => RowsWithId(longer, o) = RowsWithId(ledger, o)
      /\ row.xid # NoId => RowsWithId(longer, o) = RowsWithId(ledger, o) \union {n}
      /\ \A i \in RowsOf(ledger, o) : i \in 1..Len(ledger) /\ longer[i] = ledger[i]
      /\ longer[n] = row
      /\ Len(ledger) \in Nat
  BY RowsOfItsOrder
<1>2. \A i \in RowsWithId(ledger, o) : i \in RowsOf(ledger, o)
  BY DEF RowsWithId
<1>3. ASSUME row.xid = NoId
      PROVE  LatestId(longer, o) = LatestId(ledger, o)
  <2>1. RowsWithId(longer, o) = RowsWithId(ledger, o)
    BY <1>1, <1>3
  <2>2. LastRowWithId(longer, o) = LastRowWithId(ledger, o)
    BY <2>1, Zenon DEF LastRowWithId
  <2>3. ASSUME RowsWithId(ledger, o) # {}
        PROVE  longer[LastRowWithId(ledger, o)] = ledger[LastRowWithId(ledger, o)]
    <3>1. RowsOf(ledger, o) # {}
      BY <1>2, <2>3
    <3>2. LastRowWithId(ledger, o) \in RowsOf(ledger, o)
      BY <2>3, <3>1, RowsExist, Zenon
    <3>3. QED
      BY <1>1, <3>2, Zenon
  <2>4. QED
    BY <2>1, <2>2, <2>3 DEF LatestId
<1>4. ASSUME row.xid # NoId
      PROVE  LatestId(longer, o) = row.xid
  <2>1. RowsWithId(longer, o) = RowsWithId(ledger, o) \union {n}
    BY <1>1, <1>4
  <2>2. \A i \in RowsWithId(longer, o) : i \in 1..n
    BY <1>1, <1>2, <2>1
  <2>3. n \in RowsWithId(longer, o) /\ \A j \in RowsWithId(longer, o) : n >= j
    BY <1>1, <2>1, <2>2
  <2>4. \A i \in RowsWithId(longer, o) :
            (\A j \in RowsWithId(longer, o) : i >= j) => i = n
    BY <1>1, <2>2, <2>3
  <2>5. LastRowWithId(longer, o) = n
    BY <2>3, <2>4, Zenon DEF LastRowWithId
  <2>6. QED
    BY <1>1, <2>3, <2>5 DEF LatestId
<1>5. QED
  BY <1>3, <1>4, Zenon

\* The order_created row alone gives the first view of its order.
THEOREM FirstView ==
    ASSUME NEW S, NEW ledger \in Seq(S), NEW row \in S, NEW o, row.order = o,
           RowsOf(ledger, o) = {}
    PROVE  View(Append(ledger, row), o)
             = [bet |-> row.bet, size |-> row.size, state |-> row.state,
                xid |-> row.xid, matched |-> row.matched]
<1> DEFINE longer == Append(ledger, row)
           n == Len(ledger) + 1
<1>1. RowsOf(longer, o) = {n} /\ longer[n] = row /\ n \in Nat
  BY RowsOfItsOrder
<1>2. FirstRow(longer, o) = n
  <2>1. n \in {n} /\ \A j \in {n} : n <= j
    BY <1>1
  <2>2. \A i \in {n} : i = n
    OBVIOUS
  <2>3. QED
    BY <1>1, <2>1, <2>2, Zenon DEF FirstRow
<1>3. LatestId(ledger, o) = NoId
  BY DEF LatestId, RowsWithId
<1>4. LatestId(longer, o) = row.xid
  BY <1>3, AppendedIdIsLatest, Zenon
<1>5. LastRow(longer, o) = n
  BY AppendedRowIsLast, Zenon
<1>6. QED
  BY <1>1, <1>2, <1>4, <1>5, Zenon DEF View

\* A later row changes the view of its order as Folded says.
THEOREM RowFoldsIntoView ==
    ASSUME NEW S, NEW ledger \in Seq(S), NEW row \in S, NEW o, row.order = o,
           RowsOf(ledger, o) # {}
    PROVE  View(Append(ledger, row), o) = Folded(View(ledger, o), row)
<1> DEFINE longer == Append(ledger, row)
           n == Len(ledger) + 1
           first == FirstRow(ledger, o)
<1>1. /\ RowsOf(longer, o) = RowsOf(ledger, o) \union {n}
      /\ \A i \in RowsOf(ledger, o) : i \in 1..Len(ledger) /\ longer[i] = ledger[i]
      /\ longer[n] = row
      /\ Len(ledger) \in Nat
  BY RowsOfItsOrder
<1>2. first \in RowsOf(ledger, o) /\ \A j \in RowsOf(ledger, o) : first <= j
  BY RowsExist, Zenon
<1>3. first \in RowsOf(longer, o) /\ \A j \in RowsOf(longer, o) : first <= j
  BY <1>1, <1>2
<1>4. \A i \in RowsOf(longer, o) : (\A j \in RowsOf(longer, o) : i <= j) => i = first
  BY <1>1, <1>2, <1>3
<1>5. FirstRow(longer, o) = first
  BY <1>3, <1>4, Zenon DEF FirstRow
<1>6. LastRow(longer, o) = n
  BY AppendedRowIsLast, Zenon
<1>7. LatestId(longer, o) = IF row.xid = NoId THEN LatestId(ledger, o) ELSE row.xid
  BY AppendedIdIsLatest, Zenon
<1>8. longer[first] = ledger[first]
  BY <1>1, <1>2, Zenon
<1>9. View(longer, o) = [bet |-> ledger[first].bet, size |-> ledger[first].size,
                         state |-> row.state, xid |-> LatestId(longer, o),
                         matched |-> row.matched]
  BY <1>1, <1>5, <1>6, <1>8, Zenon DEF View
<1>10. QED
  BY <1>7, <1>9 DEF View, Folded

-----------------------------------------------------------------------------
USE NoneAssumption, SizesAssumption

-----------------------------------------------------------------------------
(* Types.                                                                  *)

\* A caller without a call holds locals of the right type.
LEMMA IdleType == Idle \in Locals /\ Idle.pc = "idle"
  BY DEF Idle, Locals, NoReply, PostReply, States, TerminalStates, Matched, NoId

\* The first state has the right type.
LEMMA InitType == Init => TypeOK
  BY IdleType DEF Init, TypeOK

\* A row leaves a view a view.
LEMMA FoldedType ==
    ASSUME NEW view \in OrderView, NEW state \in States,
           NEW xid \in Nat, NEW matched \in Matched
    PROVE  Folded(view, [state |-> state, xid |-> xid, matched |-> matched]) \in OrderView
  BY DEF Folded, OrderView, NoId

\* A row appended to the ledger changes the view of its own order only.
LEMMA RecordedType ==
    ASSUME orders \in Seq(OrderView), NEW o \in DOMAIN orders, NEW state \in States,
           NEW xid \in Nat, NEW matched \in Matched
    PROVE  /\ Recorded(o, state, xid, matched) \in Seq(OrderView)
           /\ DOMAIN Recorded(o, state, xid, matched) = DOMAIN orders
           /\ \A p \in DOMAIN orders :
                Recorded(o, state, xid, matched)[p] =
                    IF p = o
                    THEN Folded(orders[o], [state |-> state, xid |-> xid, matched |-> matched])
                    ELSE orders[p]
<1> DEFINE view == Folded(orders[o], [state |-> state, xid |-> xid, matched |-> matched])
<1>1. view \in OrderView
  BY FoldedType
<1>2. [orders EXCEPT ![o] = view] \in Seq(OrderView)
  BY <1>1, ExceptSeq
<1>3. QED
  BY <1>2 DEF Recorded

\* A reply of the exchange leaves the locals of the callers well typed.
LEMMA AnswerType ==
    ASSUME TypeOK, NEW m \in wire, NEW reply \in PostReply, Answer(m, reply)
    PROVE  call' \in [Callers -> Locals]
<1>1. m.caller \in Callers
  BY DEF TypeOK, Request
<1>2. [call[m.caller] EXCEPT !.pc = "answered", !.reply = reply] \in Locals
  BY <1>1 DEF TypeOK, Locals
<1>3. QED
  BY <1>1, <1>2 DEF TypeOK, Answer

\* The order found for a bet that has one.
LEMMA ExistingOrderType ==
    ASSUME TypeOK, NEW b, OrdersOf(b) # {}
    PROVE  /\ ExistingOrderForBet(b) \in DOMAIN orders
           /\ ExistingOrderForBet(b) \in Nat
           /\ orders[ExistingOrderForBet(b)].bet = b
<1>1. OrdersOf(b) \in SUBSET Nat
  BY DEF OrdersOf, TypeOK
<1>2. \E o \in OrdersOf(b) : \A p \in OrdersOf(b) : o <= p
  BY <1>1, LeastExists, Zenon
<1>3. ExistingOrderForBet(b) \in OrdersOf(b)
  BY <1>2, Zenon DEF ExistingOrderForBet
<1>4. QED
  BY <1>1, <1>3 DEF OrdersOf

\* Orders and exchange orders, one by one.
LEMMA ElementTypes ==
    ASSUME TypeOK
    PROVE  /\ \A o \in DOMAIN orders : o \in Nat /\ orders[o] \in OrderView
           /\ \A x \in DOMAIN exchange : x \in 1..Len(exchange) /\ exchange[x] \in ExchangeOrder
  BY ElementOfSeq DEF TypeOK

\* Every step keeps the types, given that the locals of the callers speak of
\* orders that exist.
LEMMA TypeStep == TypeOK /\ SubmissionLocals /\ InquiryLocals /\ IdBelongsToOrder
                    /\ [Next]_vars => TypeOK'
<1> SUFFICES ASSUME TypeOK, SubmissionLocals, InquiryLocals, IdBelongsToOrder, [Next]_vars
             PROVE  TypeOK'
  OBVIOUS
<1> USE DEF TypeOK
<1>1. ASSUME NEW c \in Callers, SubmitCall(c) PROVE TypeOK'
  <2>1. PICK b \in Bets, t \in Sizes :
          call' = [call EXCEPT ![c] = [Idle EXCEPT !.pc = "lock", !.bet = b, !.size = t]]
    BY <1>1 DEF SubmitCall
  <2>2. [Idle EXCEPT !.pc = "lock", !.bet = b, !.size = t] \in Locals
    BY IdleType DEF Locals
  <2>3. QED
    BY <1>1, <2>1, <2>2 DEF SubmitCall
<1>2. ASSUME NEW c \in Callers, SubmitReturnsExisting(c) PROVE TypeOK'
  BY <1>2, IdleType DEF SubmitReturnsExisting
<1>3. ASSUME NEW c \in Callers, SubmitResumes(c) PROVE TypeOK'
  <2> DEFINE o == ExistingOrderForBet(call[c].bet)
  <2>1. o \in Nat
    BY <1>3, ExistingOrderType DEF SubmitResumes
  <2> HIDE DEF o
  <2>2. [call[c] EXCEPT !.pc = "client", !.order = o] \in Locals
    BY <2>1 DEF Locals
  <2>3. call' \in [Callers -> Locals]
    BY <1>3, <2>2 DEF SubmitResumes, o
  <2>4. QED
    BY <1>3, <2>3 DEF SubmitResumes
<1>4. ASSUME NEW c \in Callers, SubmitFindsNone(c) PROVE TypeOK'
  BY <1>4 DEF SubmitFindsNone, Locals
<1>5. ASSUME NEW c \in Callers, SubmitCreate(c) PROVE TypeOK'
  <2> DEFINE view == [bet |-> call[c].bet, size |-> call[c].size,
                      state |-> "CREATED", xid |-> NoId, matched |-> None]
  <2>1. view \in OrderView
    BY <1>5 DEF SubmitCreate, SubmissionLocals, Submitting, OrderView, States, Matched, NoId
  <2>2. orders' \in Seq(OrderView) /\ Len(orders) + 1 \in Nat
    BY <1>5, <2>1 DEF SubmitCreate
  <2>3. [call[c] EXCEPT !.pc = "client", !.order = Len(orders) + 1] \in Locals
    BY <2>2 DEF Locals
  <2>4. call' \in [Callers -> Locals]
    BY <1>5, <2>3 DEF SubmitCreate
  <2>5. QED
    BY <1>5, <2>2, <2>4 DEF SubmitCreate
<1>6. ASSUME NEW c \in Callers, SubmitMarkSubmitted(c) PROVE TypeOK'
  <2>1. orders' \in Seq(OrderView)
    BY <1>6, RecordedType DEF SubmitMarkSubmitted, SubmissionLocals, Submitting, States, Matched, NoId
  <2>2. QED
    BY <1>6, <2>1 DEF SubmitMarkSubmitted, Locals
<1>7. ASSUME NEW c \in Callers, SubmitTransmit(c) PROVE TypeOK'
  <2>1. [caller |-> c, bet |-> call[c].bet, size |-> call[c].size] \in Request
    BY <1>7 DEF SubmitTransmit, SubmissionLocals, Submitting, Request
  <2>2. call' \in [Callers -> Locals]
    BY <1>7 DEF SubmitTransmit, Locals
  <2>3. QED
    BY <1>7, <2>1, <2>2 DEF SubmitTransmit
<1>8. ASSUME NEW c \in Callers, SubmitTransmitFails(c) PROVE TypeOK'
  <2>1. orders' \in Seq(OrderView)
    BY <1>8, RecordedType DEF SubmitTransmitFails, SubmissionLocals, Submitting, States, Matched, NoId
  <2>2. QED
    BY <1>8, <2>1, IdleType DEF SubmitTransmitFails
<1>9. ASSUME NEW c \in Callers, SubmitResult(c) PROVE TypeOK'
  <2> DEFINE row == InterpretPostOrderResponse(call[c].reply, call[c].size)
  <2>1. row.state \in States /\ row.matched \in Matched /\ call[c].reply.xid \in Nat
    BY <1>9 DEF InterpretPostOrderResponse, States, TerminalStates, Matched, Locals, PostReply
  <2>2. call[c].order \in DOMAIN orders
    BY <1>9 DEF SubmitResult, SubmissionLocals, Submitting
  <2>3. orders' \in Seq(OrderView)
    BY <1>9, <2>1, <2>2, RecordedType DEF SubmitResult
  <2>4. QED
    BY <1>9, <2>3, IdleType DEF SubmitResult
<1>10. ASSUME NEW c \in Callers, NEW o \in DOMAIN orders, NEW pc \in {"query", "cancel"},
              BeginCall(c, o, pc)
       PROVE  TypeOK'
  <2> DEFINE locals == [Idle EXCEPT !.pc = pc, !.order = o, !.size = orders[o].size,
                                    !.xid = orders[o].xid]
  <2>1. o \in Nat /\ orders[o].size \in Nat /\ orders[o].xid \in Nat
    BY ElementTypes DEF OrderView
  <2>2. locals \in Locals
    BY <2>1, IdleType DEF Locals
  <2>3. QED
    BY <1>10, <2>2 DEF BeginCall
<1>11. ASSUME NEW c \in Callers, ReconcileQuery(c) PROVE TypeOK'
  <2> DEFINE known == exchange[call[c].xid]
  <2>1. PICK status \in {known.status, "other"}, matched \in {known.matched, None} :
          LET row == InterpretOrderStatus(status, matched, call[c].size) IN
          call' = [call EXCEPT ![c].pc = "resolved",
                               ![c].state = IF row.state \in TerminalStates
                                            THEN "RECONCILED" ELSE row.state,
                               ![c].matched = row.matched]
    BY <1>11, Zenon DEF ReconcileQuery
  <2> DEFINE row == InterpretOrderStatus(status, matched, call[c].size)
             state == IF row.state \in TerminalStates THEN "RECONCILED" ELSE row.state
  <2>2. matched \in Matched /\ call[c].size \in Matched
    <3>1. call[c].xid \in DOMAIN exchange
      BY <1>11 DEF ReconcileQuery, InquiryLocals, Inquiring, IdBelongsToOrder
    <3>2. known.matched \in Nat
      BY <3>1, ElementTypes DEF ExchangeOrder
    <3>3. QED
      BY <3>2 DEF Matched, Locals
  <2>3. state \in States /\ row.matched \in Matched
    BY <2>2 DEF InterpretOrderStatus, States, TerminalStates
  <2> HIDE DEF row, state
  <2>4. [call[c] EXCEPT !.pc = "resolved", !.state = state, !.matched = row.matched] \in Locals
    BY <2>3 DEF Locals
  <2>5. call' = [call EXCEPT ![c] = [call[c] EXCEPT !.pc = "resolved", !.state = state,
                                                    !.matched = row.matched]]
    BY <2>1 DEF row, state
  <2>6. QED
    BY <1>11, <2>4, <2>5 DEF ReconcileQuery
<1>12. ASSUME NEW c \in Callers, ReconcileRecord(c) PROVE TypeOK'
  <2>1. /\ call[c].order \in DOMAIN orders
        /\ call[c].state \in States /\ call[c].xid \in Nat /\ call[c].matched \in Matched
    BY <1>12 DEF ReconcileRecord, InquiryLocals, Inquiring, Locals
  <2>2. orders' \in Seq(OrderView)
    BY <1>12, <2>1, RecordedType DEF ReconcileRecord
  <2>3. QED
    BY <1>12, <2>2, IdleType DEF ReconcileRecord
<1>13. ASSUME NEW c \in Callers, CancelSend(c) PROVE TypeOK'
  <2>1. call[c].xid \in 1..Len(exchange)
    BY <1>13 DEF CancelSend, InquiryLocals, Inquiring, IdBelongsToOrder
  <2>2. [exchange[call[c].xid] EXCEPT !.status = "cancelled"] \in ExchangeOrder
    <3>1. exchange[call[c].xid] \in ExchangeOrder
      BY <2>1, ElementTypes
    <3>2. QED
      BY <3>1 DEF ExchangeOrder
  <2>3. exchange' \in Seq(ExchangeOrder)
    <3>1. [exchange EXCEPT ![call[c].xid].status = "cancelled"] \in Seq(ExchangeOrder)
      BY <2>1, <2>2, ExceptSeq
    <3>2. QED
      BY <1>13, <3>1 DEF CancelSend
  <2>4. call' \in [Callers -> Locals]
    BY <1>13 DEF CancelSend, Locals
  <2>5. QED
    BY <1>13, <2>3, <2>4 DEF CancelSend
<1>14. ASSUME NEW c \in Callers, CancelRecord(c) PROVE TypeOK'
  <2>1. call[c].order \in DOMAIN orders /\ call[c].xid \in Nat
    BY <1>14 DEF CancelRecord, InquiryLocals, Inquiring, Locals
  <2>2. orders' \in Seq(OrderView)
    BY <1>14, <2>1, RecordedType DEF CancelRecord, States, TerminalStates, Matched
  <2>3. QED
    BY <1>14, <2>2, IdleType DEF CancelRecord
<1>15. ASSUME NEW c \in Callers, Abort(c) PROVE TypeOK'
  BY <1>15, IdleType DEF Abort
<1>16. ASSUME NEW m \in wire, RequestLost(m) PROVE TypeOK'
  BY <1>16 DEF RequestLost
<1>17. ASSUME NEW m \in wire, ExchangePlaces(m) PROVE TypeOK'
  <2>1. PICK status \in {"live", "matched", "unmatched"}, reply \in PostReply :
          /\ exchange' = Append(exchange, Placed(m, status))
          /\ Answer(m, reply)
    BY <1>17 DEF ExchangePlaces, PostReply, NoReply, NoId
  <2>2. Placed(m, status) \in ExchangeOrder
    BY DEF Placed, ExchangeOrder, Request
  <2>3. exchange' \in Seq(ExchangeOrder)
    BY <2>1, <2>2
  <2>4. call' \in [Callers -> Locals]
    BY <2>1, AnswerType
  <2>5. QED
    BY <1>17, <2>3, <2>4 DEF ExchangePlaces
<1>18. ASSUME NEW m \in wire, ExchangeRefuses(m) PROVE TypeOK'
  <2>1. [NoReply EXCEPT !.success = "false"] \in PostReply
    BY DEF NoReply, PostReply, NoId
  <2>2. QED
    BY <1>18, <2>1, AnswerType DEF ExchangeRefuses
<1>19. ASSUME NEW x \in DOMAIN exchange, ExchangeFills(x) PROVE TypeOK'
  <2>1. [exchange[x] EXCEPT !.matched = @ + 1] \in ExchangeOrder
    <3>1. exchange[x] \in ExchangeOrder
      BY ElementTypes
    <3>2. PICK n \in Nat : n = exchange[x].matched + 1
      BY <3>1 DEF ExchangeOrder
    <3>3. [exchange[x] EXCEPT !.matched = n] \in ExchangeOrder
      BY <3>1 DEF ExchangeOrder
    <3>4. QED
      BY <3>2, <3>3
  <2>2. exchange' \in Seq(ExchangeOrder)
    BY <1>19, <2>1, ExceptSeq DEF ExchangeFills
  <2>3. QED
    BY <1>19, <2>2 DEF ExchangeFills
<1>20. ASSUME NEW x \in DOMAIN exchange, ExchangeCloses(x) PROVE TypeOK'
  <2> DEFINE status == IF Open(x) THEN "cancelled" ELSE "matched"
  <2>1. [exchange[x] EXCEPT !.status = status] \in ExchangeOrder
    BY ElementTypes DEF ExchangeOrder
  <2>2. exchange' \in Seq(ExchangeOrder)
    BY <1>20, <2>1, ExceptSeq DEF ExchangeCloses
  <2>3. QED
    BY <1>20, <2>2 DEF ExchangeCloses
<1>21. CASE UNCHANGED vars
  BY <1>21 DEF vars
<1>22. QED
  BY <1>1, <1>2, <1>3, <1>4, <1>5, <1>6, <1>7, <1>8, <1>9, <1>10, <1>11, <1>12, <1>13,
     <1>14, <1>15, <1>16, <1>17, <1>18, <1>19, <1>20, <1>21
  DEF Next, Begin, CallStep, SubmitStep, ReconcileCall, CancelCall, Environment

-----------------------------------------------------------------------------
(* The inductive invariant.                                                *)

\* What a row recorded for order o changes in the views: not the bets.
LEMMA RecordedFields ==
    ASSUME TypeOK, NEW o \in DOMAIN orders, NEW state \in States,
           NEW xid \in Nat, NEW matched \in Matched,
           orders' = Recorded(o, state, xid, matched)
    PROVE  /\ DOMAIN orders' = DOMAIN orders
           /\ \A p \in DOMAIN orders :
                /\ orders'[p].bet = orders[p].bet
                /\ orders'[p].state = IF p = o THEN state ELSE orders[p].state
                /\ orders'[p].xid = IF p = o /\ xid # NoId THEN xid ELSE orders[p].xid
<1> DEFINE row == [state |-> state, xid |-> xid, matched |-> matched]
<1>1. /\ DOMAIN orders' = DOMAIN orders
      /\ \A p \in DOMAIN orders :
            orders'[p] = IF p = o THEN Folded(orders[o], row) ELSE orders[p]
  <2>1. orders \in Seq(OrderView)
    BY DEF TypeOK
  <2> DEFINE after == Recorded(o, state, xid, matched)
  <2>2. /\ DOMAIN after = DOMAIN orders
        /\ \A p \in DOMAIN orders :
              after[p] = IF p = o THEN Folded(orders[o], row) ELSE orders[p]
    BY <2>1, RecordedType
  <2>3. QED
    BY <2>2
<1>2. /\ Folded(orders[o], row).bet = orders[o].bet
      /\ Folded(orders[o], row).state = state
      /\ Folded(orders[o], row).xid = IF xid = NoId THEN orders[o].xid ELSE xid
  BY DEF Folded
<1> HIDE DEF row
<1>3. QED
  BY <1>1, <1>2

\* A row that does not lead back to CREATED, and whose exchange id, if it has
\* one, is that of its own bet, keeps what the invariant says of the ledger,
\* the network and the exchange.
LEMMA RecordStep ==
    ASSUME IInv, NEW o \in DOMAIN orders, NEW state \in States \ {"CREATED"},
           NEW xid \in Nat, NEW matched \in Matched,
           orders' = Recorded(o, state, xid, matched),
           xid # NoId => xid \in DOMAIN exchange /\ exchange[xid].bet = orders[o].bet,
           UNCHANGED <<wire, exchange>>
    PROVE  /\ DOMAIN orders' = DOMAIN orders
           /\ \A p \in DOMAIN orders :
                /\ orders'[p].bet = orders[p].bet
                /\ orders'[p].state = IF p = o THEN state ELSE orders[p].state
                /\ orders'[p].xid = IF p = o /\ xid # NoId THEN xid ELSE orders[p].xid
           /\ SentIsCommitted' /\ AtMostOnePlacement' /\ IdBelongsToOrder'
<1>1. /\ DOMAIN orders' = DOMAIN orders
      /\ \A p \in DOMAIN orders :
           /\ orders'[p].bet = orders[p].bet
           /\ orders'[p].state = IF p = o THEN state ELSE orders[p].state
           /\ orders'[p].xid = IF p = o /\ xid # NoId THEN xid ELSE orders[p].xid
  BY RecordedFields DEF IInv
<1>2. SentIsCommitted'
  BY <1>1 DEF IInv, SentIsCommitted
<1>3. AtMostOnePlacement'
  BY DEF IInv, AtMostOnePlacement
<1>4. IdBelongsToOrder'
  BY <1>1 DEF IInv, IdBelongsToOrder
<1>5. QED
  BY <1>1, <1>2, <1>3, <1>4

\* The steps of submit_order that record a row of the order they hold the
\* lock for.
LEMMA MarkSubmittedStep ==
    ASSUME IInv, NEW c \in Callers, SubmitMarkSubmitted(c)
    PROVE  /\ LockProtects' /\ OneOrderPerBet' /\ SubmissionLocals' /\ InquiryLocals'
           /\ SentIsCommitted' /\ AtMostOnePlacement' /\ IdBelongsToOrder'
<1> DEFINE o == call[c].order
<1>1. /\ \A d \in Callers \ {c} : call'[d] = call[d]
      /\ call'[c].pc = "post" /\ call[c].pc = "client"
      /\ call'[c].bet = call[c].bet /\ call'[c].size = call[c].size
      /\ call'[c].order = o
      /\ UNCHANGED <<lock, wire, exchange>>
  BY DEF SubmitMarkSubmitted, IInv, TypeOK, Locals
<1>2. /\ o \in DOMAIN orders /\ orders[o].bet = call[c].bet
      /\ orders[o].xid = NoId /\ orders[o].state = "CREATED"
      /\ call[c].bet \in Bets /\ call[c].size \in Sizes
      /\ lock = c
  BY <1>1 DEF IInv, SubmissionLocals, LockProtects, Submitting
<1>3. "SUBMITTED" \in States \ {"CREATED"} /\ NoId \in Nat /\ None \in Matched
  BY DEF States, Matched, NoId
<1>4. orders' = Recorded(o, "SUBMITTED", NoId, None)
  BY DEF SubmitMarkSubmitted
<1> HIDE DEF o
<1>5. /\ DOMAIN orders' = DOMAIN orders
      /\ \A p \in DOMAIN orders :
           /\ orders'[p].bet = orders[p].bet
           /\ orders'[p].state = IF p = o THEN "SUBMITTED" ELSE orders[p].state
           /\ orders'[p].xid = orders[p].xid
      /\ SentIsCommitted' /\ AtMostOnePlacement' /\ IdBelongsToOrder'
  BY <1>1, <1>2, <1>3, <1>4, RecordStep
<1>6. LockProtects'
  BY <1>1, <1>2 DEF IInv, LockProtects
<1>7. OneOrderPerBet'
  BY <1>1, <1>5 DEF IInv, OneOrderPerBet
<1>8. InquiryLocals'
  BY <1>1, <1>5 DEF IInv, InquiryLocals, Inquiring
<1>9. \A d \in Callers \ {c} : call[d].pc \notin Submitting
  BY <1>2 DEF IInv, LockProtects
<1>10. /\ \A m \in wire : m.bet # call[c].bet
       /\ \A x \in DOMAIN exchange : exchange[x].bet # call[c].bet
  BY <1>2 DEF IInv, SentIsCommitted, OneOrderPerBet
<1>11. SubmissionLocals'
  BY <1>1, <1>2, <1>5, <1>9, <1>10 DEF IInv, SubmissionLocals, Submitting
<1>12. QED
  BY <1>5, <1>6, <1>7, <1>8, <1>11

\* A step of submit_order that records how the transmission ended.
LEMMA OutcomeStep ==
    ASSUME IInv, NEW c \in Callers, call[c].pc \in {"await", "answered"},
           NEW state \in States \ {"CREATED"}, NEW xid \in Nat, NEW matched \in Matched,
           orders' = Recorded(call[c].order, state, xid, matched),
           xid # NoId => xid \in DOMAIN exchange /\ exchange[xid].bet = call[c].bet,
           lock' = None, call' = [call EXCEPT ![c] = Idle], UNCHANGED <<wire, exchange>>
    PROVE  /\ LockProtects' /\ OneOrderPerBet' /\ SubmissionLocals' /\ InquiryLocals'
           /\ SentIsCommitted' /\ AtMostOnePlacement' /\ IdBelongsToOrder'
<1> DEFINE o == call[c].order
<1>1. /\ \A d \in Callers \ {c} : call'[d] = call[d]
      /\ call'[c].pc = "idle"
  BY IdleType DEF IInv, TypeOK
<1>2. /\ o \in DOMAIN orders /\ orders[o].bet = call[c].bet
      /\ orders[o].xid = NoId /\ lock = c
  BY DEF IInv, SubmissionLocals, LockProtects, Submitting
<1> HIDE DEF o
<1>3. /\ DOMAIN orders' = DOMAIN orders
      /\ \A p \in DOMAIN orders :
           /\ orders'[p].bet = orders[p].bet
           /\ orders'[p].state = IF p = o THEN state ELSE orders[p].state
           /\ orders'[p].xid = IF p = o /\ xid # NoId THEN xid ELSE orders[p].xid
      /\ SentIsCommitted' /\ AtMostOnePlacement' /\ IdBelongsToOrder'
  BY <1>2, RecordStep DEF o
<1>4. \A d \in Callers \ {c} : call[d].pc \notin Submitting
  BY <1>2 DEF IInv, LockProtects
<1>5. LockProtects'
  BY <1>1, <1>4 DEF LockProtects, Submitting
<1>6. OneOrderPerBet'
  BY <1>1, <1>3 DEF IInv, OneOrderPerBet
<1>7. InquiryLocals'
  BY <1>1, <1>2, <1>3 DEF IInv, InquiryLocals, Inquiring
<1>8. SubmissionLocals'
  BY <1>1, <1>4 DEF IInv, SubmissionLocals, Submitting
<1>9. QED
  BY <1>3, <1>5, <1>6, <1>7, <1>8

\* A step of reconcile_order or cancel_order that records a row.
LEMMA InquiryStep ==
    ASSUME IInv, NEW c \in Callers, call[c].pc \in Inquiring,
           NEW state \in States \ {"CREATED"}, NEW matched \in Matched,
           orders' = Recorded(call[c].order, state, call[c].xid, matched),
           call' = [call EXCEPT ![c] = Idle], UNCHANGED <<lock, wire, exchange>>
    PROVE  /\ LockProtects' /\ OneOrderPerBet' /\ SubmissionLocals' /\ InquiryLocals'
           /\ SentIsCommitted' /\ AtMostOnePlacement' /\ IdBelongsToOrder'
<1> DEFINE o == call[c].order
           xid == call[c].xid
<1>1. /\ \A d \in Callers \ {c} : call'[d] = call[d]
      /\ call'[c].pc = "idle"
  BY IdleType DEF IInv, TypeOK
<1>2. o \in DOMAIN orders /\ xid \in Nat /\ xid # NoId /\ xid = orders[o].xid
  BY DEF IInv, InquiryLocals, TypeOK, Locals
<1>3. xid \in DOMAIN exchange /\ exchange[xid].bet = orders[o].bet
  BY <1>2 DEF IInv, IdBelongsToOrder
<1>4. orders' = Recorded(o, state, xid, matched)
  OBVIOUS
<1> HIDE DEF o, xid
<1>5. /\ DOMAIN orders' = DOMAIN orders
      /\ \A p \in DOMAIN orders :
           /\ orders'[p].bet = orders[p].bet
           /\ orders'[p].state = IF p = o THEN state ELSE orders[p].state
           /\ orders'[p].xid = IF p = o /\ xid # NoId THEN xid ELSE orders[p].xid
      /\ SentIsCommitted' /\ AtMostOnePlacement' /\ IdBelongsToOrder'
  BY <1>2, <1>3, <1>4, RecordStep
<1>6. /\ \A p \in DOMAIN orders : orders'[p].xid = orders[p].xid
      /\ \A p \in DOMAIN orders : orders[p].xid = NoId => orders'[p].state = orders[p].state
  BY <1>2, <1>5
<1>7. LockProtects'
  BY <1>1 DEF IInv, LockProtects, Submitting
<1>8. OneOrderPerBet'
  BY <1>1, <1>5 DEF IInv, OneOrderPerBet
<1>9. InquiryLocals'
  BY <1>1, <1>5, <1>6 DEF IInv, InquiryLocals, Inquiring
<1>10. SubmissionLocals'
  BY <1>1, <1>5, <1>6 DEF IInv, SubmissionLocals, Submitting
<1>11. QED
  BY <1>5, <1>7, <1>8, <1>9, <1>10

\* Changes of an order on the exchange leave its bet alone.
LEMMA StatusChange ==
    ASSUME exchange \in Seq(ExchangeOrder), NEW x, NEW status
    PROVE  LET after == [exchange EXCEPT ![x].status = status] IN
           /\ DOMAIN after = DOMAIN exchange
           /\ \A y \in DOMAIN exchange : after[y].bet = exchange[y].bet
  BY ElementOfSeq DEF ExchangeOrder

\* A fill does not touch the bet either.
LEMMA FillChange ==
    ASSUME exchange \in Seq(ExchangeOrder), NEW x
    PROVE  LET after == [exchange EXCEPT ![x].matched = @ + 1] IN
           /\ DOMAIN after = DOMAIN exchange
           /\ \A y \in DOMAIN exchange : after[y].bet = exchange[y].bet
  BY ElementOfSeq DEF ExchangeOrder

\* The holder of the lock creates the order of a bet that has none.
LEMMA CreateStep ==
    ASSUME IInv, NEW c \in Callers, SubmitCreate(c)
    PROVE  /\ LockProtects' /\ OneOrderPerBet' /\ SubmissionLocals' /\ InquiryLocals'
           /\ SentIsCommitted' /\ AtMostOnePlacement' /\ IdBelongsToOrder'
<1> DEFINE n == Len(orders) + 1
<1>1. /\ \A d \in Callers \ {c} : call'[d] = call[d]
      /\ call[c].pc = "create" /\ call'[c].pc = "client"
      /\ call'[c].bet = call[c].bet /\ call'[c].size = call[c].size
      /\ call'[c].order = n
      /\ UNCHANGED <<lock, wire, exchange>>
  BY DEF SubmitCreate, IInv, TypeOK, Locals
<1>2. /\ call[c].bet \in Bets /\ call[c].size \in Sizes /\ lock = c
      /\ \A o \in DOMAIN orders : orders[o].bet # call[c].bet
  BY <1>1 DEF IInv, SubmissionLocals, LockProtects, OneOrderPerBet, Submitting
<1>3. /\ DOMAIN orders' = DOMAIN orders \union {n} /\ n \notin DOMAIN orders
      /\ \A o \in DOMAIN orders : orders'[o] = orders[o]
      /\ orders'[n].bet = call[c].bet /\ orders'[n].state = "CREATED"
      /\ orders'[n].xid = NoId
  BY DEF SubmitCreate, IInv, TypeOK
<1> HIDE DEF n
<1>4. \A d \in Callers \ {c} : call[d].pc \notin Submitting
  BY <1>2 DEF IInv, LockProtects
<1>5. LockProtects'
  BY <1>1, <1>2 DEF IInv, LockProtects
<1>6. OneOrderPerBet'
  BY <1>1, <1>2, <1>3, <1>4 DEF IInv, OneOrderPerBet, Submitting
<1>7. SubmissionLocals'
  BY <1>1, <1>2, <1>3, <1>4 DEF IInv, SubmissionLocals, Submitting
<1>8. InquiryLocals'
  BY <1>1, <1>3 DEF IInv, InquiryLocals, Inquiring
<1>9. SentIsCommitted' /\ AtMostOnePlacement' /\ IdBelongsToOrder'
  BY <1>1, <1>3 DEF IInv, SentIsCommitted, AtMostOnePlacement, IdBelongsToOrder
<1>10. QED
  BY <1>5, <1>6, <1>7, <1>8, <1>9

\* A reply reaches at most the submission of its own bet.
LEMMA AnswerFields ==
    ASSUME TypeOK, NEW m \in wire, NEW reply \in PostReply, Answer(m, reply)
    PROVE  \A d \in Callers :
            \/ call'[d] = call[d]
            \/ /\ call[d].pc = "await" /\ call'[d].pc = "answered"
               /\ call[d].bet = m.bet /\ call'[d].reply = reply
               /\ call'[d].bet = call[d].bet /\ call'[d].size = call[d].size
               /\ call'[d].order = call[d].order
  BY DEF Answer, TypeOK, Locals

\* The exchange takes an order that travelled.
LEMMA PlaceStep ==
    ASSUME IInv, NEW m \in wire, ExchangePlaces(m)
    PROVE  /\ LockProtects' /\ OneOrderPerBet' /\ SubmissionLocals' /\ InquiryLocals'
           /\ SentIsCommitted' /\ AtMostOnePlacement' /\ IdBelongsToOrder'
<1> DEFINE n == Len(exchange) + 1
<1>1. PICK reply \in PostReply, status \in {"live", "matched", "unmatched"} :
        /\ exchange' = Append(exchange, Placed(m, status))
        /\ Answer(m, reply)
        /\ reply.xid \in {NoId, n}
  BY DEF ExchangePlaces, PostReply, NoReply, NoId, IInv, TypeOK
<1>2. UNCHANGED <<orders, lock>> /\ wire' = wire \ {m}
  BY DEF ExchangePlaces
<1>3. /\ DOMAIN exchange' = DOMAIN exchange \union {n} /\ n \notin DOMAIN exchange
      /\ \A x \in DOMAIN exchange : exchange'[x] = exchange[x]
      /\ exchange'[n].bet = m.bet
  BY <1>1 DEF Placed, IInv, TypeOK
<1>4. \A d \in Callers :
        \/ call'[d] = call[d]
        \/ /\ call[d].pc = "await" /\ call'[d].pc = "answered"
           /\ call[d].bet = m.bet /\ call'[d].reply = reply
           /\ call'[d].bet = call[d].bet /\ call'[d].size = call[d].size
           /\ call'[d].order = call[d].order
  BY <1>1, AnswerFields DEF IInv
<1> HIDE DEF n
<1>5. LockProtects' /\ OneOrderPerBet'
  BY <1>2, <1>4 DEF IInv, LockProtects, OneOrderPerBet, Submitting
<1>6. SubmissionLocals'
  BY <1>1, <1>2, <1>3, <1>4 DEF IInv, SubmissionLocals, Submitting
<1>7. InquiryLocals'
  BY <1>2, <1>4 DEF IInv, InquiryLocals, Inquiring
<1>8. SentIsCommitted' /\ AtMostOnePlacement' /\ IdBelongsToOrder'
  BY <1>2, <1>3 DEF IInv, SentIsCommitted, AtMostOnePlacement, IdBelongsToOrder
<1>9. QED
  BY <1>5, <1>6, <1>7, <1>8

\* The exchange turns a request down.
LEMMA RefuseStep ==
    ASSUME IInv, NEW m \in wire, ExchangeRefuses(m)
    PROVE  /\ LockProtects' /\ OneOrderPerBet' /\ SubmissionLocals' /\ InquiryLocals'
           /\ SentIsCommitted' /\ AtMostOnePlacement' /\ IdBelongsToOrder'
<1> DEFINE reply == [NoReply EXCEPT !.success = "false"]
<1>1. reply \in PostReply /\ reply.xid = NoId
  BY DEF NoReply, PostReply, NoId
<1>2. Answer(m, reply)
  BY DEF ExchangeRefuses
<1> HIDE DEF reply
<1>3. UNCHANGED <<orders, lock, exchange>> /\ wire' = wire \ {m}
  BY DEF ExchangeRefuses
<1>4. \A d \in Callers :
        \/ call'[d] = call[d]
        \/ /\ call[d].pc = "await" /\ call'[d].pc = "answered"
           /\ call[d].bet = m.bet /\ call'[d].reply = reply
           /\ call'[d].bet = call[d].bet /\ call'[d].size = call[d].size
           /\ call'[d].order = call[d].order
  BY <1>1, <1>2, AnswerFields DEF IInv
<1>5. LockProtects' /\ OneOrderPerBet'
  BY <1>3, <1>4 DEF IInv, LockProtects, OneOrderPerBet, Submitting
<1>6. SubmissionLocals'
  BY <1>1, <1>3, <1>4 DEF IInv, SubmissionLocals, Submitting
<1>7. InquiryLocals'
  BY <1>3, <1>4 DEF IInv, InquiryLocals, Inquiring
<1>8. SentIsCommitted' /\ AtMostOnePlacement' /\ IdBelongsToOrder'
  BY <1>3 DEF IInv, SentIsCommitted, AtMostOnePlacement, IdBelongsToOrder
<1>9. QED
  BY <1>5, <1>6, <1>7, <1>8

\* Every step of the callers, the network and the exchange keeps the
\* inductive invariant.
LEMMA InvariantStep == IInv /\ [Next]_vars => IInv'
<1> SUFFICES ASSUME IInv, [Next]_vars
             PROVE  IInv'
  OBVIOUS
<1> DEFINE Parts == /\ LockProtects /\ OneOrderPerBet /\ SubmissionLocals /\ InquiryLocals
                    /\ SentIsCommitted /\ AtMostOnePlacement /\ IdBelongsToOrder
<1>0. TypeOK /\ TypeOK' /\ Parts
  BY TypeStep DEF IInv
<1>1. ASSUME NEW c \in Callers, SubmitCall(c) PROVE Parts'
  <2>1. /\ \A d \in Callers \ {c} : call'[d] = call[d]
        /\ call'[c].pc = "lock" /\ call'[c].bet \in Bets /\ call'[c].size \in Sizes
        /\ UNCHANGED <<orders, lock, wire, exchange>>
    BY <1>0, <1>1 DEF SubmitCall, Idle, TypeOK
  <2>2. LockProtects' /\ OneOrderPerBet' /\ SentIsCommitted' /\ AtMostOnePlacement'
        /\ IdBelongsToOrder'
    BY <1>0, <2>1 DEF LockProtects, OneOrderPerBet, SentIsCommitted, AtMostOnePlacement,
       IdBelongsToOrder, Submitting
  <2>3. SubmissionLocals' /\ InquiryLocals'
    BY <1>0, <2>1 DEF SubmissionLocals, InquiryLocals, Submitting, Inquiring
  <2>4. QED
    BY <2>2, <2>3
<1>2. ASSUME NEW c \in Callers, SubmitReturnsExisting(c) PROVE Parts'
  BY <1>0, <1>2, IdleType DEF SubmitReturnsExisting, LockProtects, OneOrderPerBet,
     SentIsCommitted, AtMostOnePlacement, IdBelongsToOrder, Submitting, SubmissionLocals,
     InquiryLocals, Inquiring, TypeOK
<1>3. ASSUME NEW c \in Callers, SubmitResumes(c) PROVE Parts'
  BY <1>0, <1>3, ExistingOrderType DEF SubmitResumes, LockProtects, OneOrderPerBet,
     SentIsCommitted, AtMostOnePlacement, IdBelongsToOrder, Submitting, SubmissionLocals,
     InquiryLocals, Inquiring, TypeOK
<1>4. ASSUME NEW c \in Callers, SubmitFindsNone(c) PROVE Parts'
  BY <1>0, <1>4 DEF SubmitFindsNone, OrdersOf, LockProtects, OneOrderPerBet,
     SentIsCommitted, AtMostOnePlacement, IdBelongsToOrder, Submitting, SubmissionLocals,
     InquiryLocals, Inquiring, TypeOK
<1>5. ASSUME NEW c \in Callers, SubmitCreate(c) PROVE Parts'
  BY <1>5, CreateStep
<1>6. ASSUME NEW c \in Callers, SubmitMarkSubmitted(c) PROVE Parts'
  BY <1>6, MarkSubmittedStep
<1>7. ASSUME NEW c \in Callers, SubmitTransmit(c) PROVE Parts'
  <2>1. /\ \A d \in Callers \ {c} : call'[d] = call[d]
        /\ call[c].pc = "post" /\ call'[c].pc = "await"
        /\ call'[c].bet = call[c].bet /\ call'[c].size = call[c].size
        /\ call'[c].order = call[c].order
        /\ UNCHANGED <<orders, lock, exchange>>
    BY <1>0, <1>7 DEF SubmitTransmit, TypeOK, Locals
  <2>2. /\ lock = c /\ call[c].order \in DOMAIN orders
        /\ orders[call[c].order].bet = call[c].bet
        /\ orders[call[c].order].state # "CREATED"
        /\ \A m \in wire : m.bet # call[c].bet
        /\ \A x \in DOMAIN exchange : exchange[x].bet # call[c].bet
        /\ call[c].bet \in Bets /\ call[c].size \in Sizes
    BY <1>0, <2>1 DEF LockProtects, SubmissionLocals, Submitting
  <2>3. \E m : m.bet = call[c].bet /\ wire' = wire \union {m}
    BY <1>7 DEF SubmitTransmit
  <2>4. \A d \in Callers \ {c} : call[d].pc \notin Submitting
    BY <1>0, <2>2 DEF LockProtects
  <2>5. SubmissionLocals'
    BY <1>0, <2>1, <2>2, <2>4 DEF SubmissionLocals, Submitting
  <2>6. SentIsCommitted' /\ AtMostOnePlacement'
    BY <1>0, <2>1, <2>2, <2>3 DEF SentIsCommitted, AtMostOnePlacement
  <2>7. LockProtects' /\ OneOrderPerBet' /\ InquiryLocals' /\ IdBelongsToOrder'
    BY <1>0, <2>1, <2>2 DEF LockProtects, OneOrderPerBet, InquiryLocals, Inquiring,
       IdBelongsToOrder
  <2>8. QED
    BY <2>5, <2>6, <2>7
<1>8. ASSUME NEW c \in Callers, SubmitTransmitFails(c) PROVE Parts'
  BY <1>8, OutcomeStep DEF SubmitTransmitFails, States, Matched, NoId
<1>9. ASSUME NEW c \in Callers, SubmitResult(c) PROVE Parts'
  <2> DEFINE row == InterpretPostOrderResponse(call[c].reply, call[c].size)
  <2>1. row.state \in States \ {"CREATED"} /\ row.matched \in Matched
    BY <1>0 DEF InterpretPostOrderResponse, States, TerminalStates, Matched, TypeOK, Locals
  <2>2. /\ call[c].reply.xid \in Nat
        /\ call[c].reply.xid # NoId => /\ call[c].reply.xid \in DOMAIN exchange
                                       /\ exchange[call[c].reply.xid].bet = call[c].bet
    BY <1>0, <1>9 DEF SubmitResult, SubmissionLocals, TypeOK, Locals, PostReply
  <2>3. orders' = Recorded(call[c].order, row.state, call[c].reply.xid, row.matched)
    BY <1>9 DEF SubmitResult
  <2> HIDE DEF row
  <2>4. QED
    BY <1>9, <2>1, <2>2, <2>3, OutcomeStep DEF SubmitResult
<1>10. ASSUME NEW c \in Callers, NEW o \in DOMAIN orders, NEW pc \in {"query", "cancel"},
              BeginCall(c, o, pc)
       PROVE  Parts'
  <2>1. /\ \A d \in Callers \ {c} : call'[d] = call[d]
        /\ call'[c].pc = pc /\ call'[c].order = o /\ call'[c].xid = orders[o].xid
        /\ call'[c].state = "UNKNOWN" /\ orders[o].xid # NoId
        /\ UNCHANGED <<orders, lock, wire, exchange>>
    BY <1>0, <1>10 DEF BeginCall, Actionable, Idle, TypeOK
  <2>2. LockProtects' /\ OneOrderPerBet' /\ SentIsCommitted' /\ AtMostOnePlacement'
        /\ IdBelongsToOrder'
    BY <1>0, <2>1 DEF LockProtects, OneOrderPerBet, SentIsCommitted, AtMostOnePlacement,
       IdBelongsToOrder, Submitting
  <2>3. SubmissionLocals' /\ InquiryLocals'
    BY <1>0, <2>1 DEF SubmissionLocals, InquiryLocals, Submitting, Inquiring
  <2>4. QED
    BY <2>2, <2>3
<1>11. ASSUME NEW c \in Callers, ReconcileQuery(c) PROVE Parts'
  <2> DEFINE known == exchange[call[c].xid]
  <2>a. PICK status \in {known.status, "other"}, filled \in {known.matched, None} :
          LET row == InterpretOrderStatus(status, filled, call[c].size) IN
          call' = [call EXCEPT ![c].pc = "resolved",
                               ![c].state = IF row.state \in TerminalStates
                                            THEN "RECONCILED" ELSE row.state,
                               ![c].matched = row.matched]
    BY <1>11, Zenon DEF ReconcileQuery
  <2> DEFINE row == InterpretOrderStatus(status, filled, call[c].size)
             state == IF row.state \in TerminalStates THEN "RECONCILED" ELSE row.state
             matched == row.matched
  <2>b. state # "CREATED"
    BY DEF InterpretOrderStatus
  <2>1. /\ state # "CREATED"
        /\ call' = [call EXCEPT ![c].pc = "resolved", ![c].state = state,
                                ![c].matched = matched]
    BY <2>a, <2>b
  <2> HIDE DEF row, state, matched
  <2>2. /\ \A d \in Callers \ {c} : call'[d] = call[d]
        /\ call[c].pc = "query" /\ call'[c].pc = "resolved"
        /\ call'[c].order = call[c].order /\ call'[c].xid = call[c].xid
        /\ call'[c].state = state
        /\ UNCHANGED <<orders, lock, wire, exchange>>
    BY <1>0, <1>11, <2>1 DEF ReconcileQuery, TypeOK, Locals
  <2>3. LockProtects' /\ OneOrderPerBet' /\ SentIsCommitted' /\ AtMostOnePlacement'
        /\ IdBelongsToOrder'
    BY <1>0, <2>2 DEF LockProtects, OneOrderPerBet, SentIsCommitted, AtMostOnePlacement,
       IdBelongsToOrder, Submitting
  <2>4. SubmissionLocals'
    BY <1>0, <2>2 DEF SubmissionLocals, Submitting
  <2>5. InquiryLocals'
    BY <1>0, <2>1, <2>2 DEF InquiryLocals, Inquiring
  <2>6. QED
    BY <2>3, <2>4, <2>5
<1>12. ASSUME NEW c \in Callers, ReconcileRecord(c) PROVE Parts'
  <2>1. call[c].pc \in Inquiring /\ call[c].state \in States \ {"CREATED"}
        /\ call[c].matched \in Matched
    BY <1>0, <1>12 DEF ReconcileRecord, InquiryLocals, Inquiring, TypeOK, Locals
  <2>2. QED
    BY <1>12, <2>1, InquiryStep DEF ReconcileRecord
<1>13. ASSUME NEW c \in Callers, CancelSend(c) PROVE Parts'
  <2>1. /\ \A d \in Callers \ {c} : call'[d] = call[d]
        /\ call[c].pc = "cancel" /\ call'[c].pc = "cancelled"
        /\ call'[c].order = call[c].order /\ call'[c].xid = call[c].xid
        /\ call'[c].state = call[c].state
        /\ UNCHANGED <<orders, lock, wire>>
    BY <1>0, <1>13 DEF CancelSend, TypeOK, Locals
  <2>2. DOMAIN exchange' = DOMAIN exchange
        /\ \A x \in DOMAIN exchange : exchange'[x].bet = exchange[x].bet
    <3>1. CASE exchange' = [exchange EXCEPT ![call[c].xid].status = "cancelled"]
      BY <1>0, <3>1, StatusChange DEF TypeOK
    <3>2. CASE UNCHANGED exchange
      BY <3>2
    <3>3. QED
      BY <1>13, <3>1, <3>2 DEF CancelSend
  <2>3. LockProtects' /\ OneOrderPerBet' /\ SentIsCommitted' /\ AtMostOnePlacement'
        /\ IdBelongsToOrder'
    BY <1>0, <2>1, <2>2 DEF LockProtects, OneOrderPerBet, SentIsCommitted,
       AtMostOnePlacement, IdBelongsToOrder, Submitting
  <2>4. SubmissionLocals' /\ InquiryLocals'
    BY <1>0, <2>1, <2>2 DEF SubmissionLocals, InquiryLocals, Submitting, Inquiring
  <2>5. QED
    BY <2>3, <2>4
<1>14. ASSUME NEW c \in Callers, CancelRecord(c) PROVE Parts'
  BY <1>14, InquiryStep DEF CancelRecord, Inquiring, States, TerminalStates, Matched
<1>15. ASSUME NEW c \in Callers, Abort(c) PROVE Parts'
  <2>1. /\ \A d \in Callers \ {c} : call'[d] = call[d]
        /\ call'[c].pc = "idle"
        /\ lock' = IF lock = c THEN None ELSE lock
        /\ UNCHANGED <<orders, wire, exchange>>
    BY <1>0, <1>15, IdleType DEF Abort, TypeOK
  <2>2. LockProtects'
    BY <1>0, <2>1 DEF LockProtects, Submitting
  <2>3. OneOrderPerBet' /\ SentIsCommitted' /\ AtMostOnePlacement' /\ IdBelongsToOrder'
    BY <1>0, <2>1 DEF OneOrderPerBet, SentIsCommitted, AtMostOnePlacement, IdBelongsToOrder
  <2>4. SubmissionLocals' /\ InquiryLocals'
    BY <1>0, <2>1 DEF SubmissionLocals, InquiryLocals, Submitting, Inquiring
  <2>5. QED
    BY <2>2, <2>3, <2>4
<1>16. ASSUME NEW m \in wire, RequestLost(m) PROVE Parts'
  BY <1>0, <1>16 DEF RequestLost, LockProtects, OneOrderPerBet, SentIsCommitted,
     AtMostOnePlacement, IdBelongsToOrder, SubmissionLocals, InquiryLocals
<1>17. ASSUME NEW m \in wire, ExchangePlaces(m) PROVE Parts'
  BY <1>17, PlaceStep
<1>18. ASSUME NEW m \in wire, ExchangeRefuses(m) PROVE Parts'
  BY <1>18, RefuseStep
<1>19. ASSUME NEW x \in DOMAIN exchange, ExchangeFills(x) PROVE Parts'
  <2>1. /\ UNCHANGED <<orders, lock, call, wire>>
        /\ DOMAIN exchange' = DOMAIN exchange
        /\ \A y \in DOMAIN exchange : exchange'[y].bet = exchange[y].bet
    BY <1>0, <1>19, FillChange DEF ExchangeFills, TypeOK
  <2>2. QED
    BY <1>0, <2>1 DEF LockProtects, OneOrderPerBet, SentIsCommitted,
       AtMostOnePlacement, IdBelongsToOrder, SubmissionLocals, InquiryLocals
<1>20. ASSUME NEW x \in DOMAIN exchange, ExchangeCloses(x) PROVE Parts'
  <2>1. /\ UNCHANGED <<orders, lock, call, wire>>
        /\ DOMAIN exchange' = DOMAIN exchange
        /\ \A y \in DOMAIN exchange : exchange'[y].bet = exchange[y].bet
    BY <1>0, <1>20, StatusChange DEF ExchangeCloses, TypeOK
  <2>2. QED
    BY <1>0, <2>1 DEF LockProtects, OneOrderPerBet, SentIsCommitted,
       AtMostOnePlacement, IdBelongsToOrder, SubmissionLocals, InquiryLocals
<1>21. ASSUME UNCHANGED vars PROVE Parts'
  BY <1>0, <1>21 DEF vars, LockProtects, OneOrderPerBet, SentIsCommitted,
     AtMostOnePlacement, IdBelongsToOrder, SubmissionLocals, InquiryLocals
<1> HIDE DEF Parts
<1>22. Parts'
  BY <1>1, <1>2, <1>3, <1>4, <1>5, <1>6, <1>7, <1>8, <1>9, <1>10, <1>11, <1>12, <1>13,
     <1>14, <1>15, <1>16, <1>17, <1>18, <1>19, <1>20, <1>21
  DEF Next, Begin, CallStep, SubmitStep, ReconcileCall, CancelCall, Environment
<1>23. QED
  BY <1>0, <1>22 DEF IInv, Parts

-----------------------------------------------------------------------------
(* Theorems.                                                               *)

\* The inductive invariant holds in the first state.
LEMMA InitIInv == Init => IInv
  BY InitType, IdleType DEF Init, IInv, LockProtects, OneOrderPerBet, SubmissionLocals,
     InquiryLocals, SentIsCommitted, AtMostOnePlacement, IdBelongsToOrder, Submitting,
     Inquiring

\* The inductive invariant holds in every reachable state.
THEOREM InvariantHolds == Spec => []IInv
  BY InitIInv, InvariantStep, PTL DEF Spec

\* The ledger, the locals of the callers, the network and the exchange only
\* ever hold what the code can put there.
THEOREM TypeCorrect == Spec => []TypeOK
<1>1. IInv => TypeOK
  BY DEF IInv
<1>2. QED
  BY <1>1, InvariantHolds, PTL

\* No bet is ever sent to the exchange twice, however many callers submit,
\* reconcile and cancel it, fail and retry (submit_order, layer 4).
THEOREM PlacedAtMostOnce == Spec => []AtMostOnePlacement
<1>1. IInv => AtMostOnePlacement
  BY DEF IInv
<1>2. QED
  BY <1>1, InvariantHolds, PTL

\* The exchange id of a local order is that of an order for the same bet.
THEOREM IdsAreTheirOwn == Spec => []IdBelongsToOrder
<1>1. IInv => IdBelongsToOrder
  BY DEF IInv
<1>2. QED
  BY <1>1, InvariantHolds, PTL

\* A bet that is on its way to the exchange, or was taken by it, has its
\* order recorded past CREATED: a crash never makes it resumable.
THEOREM WrittenAhead == Spec => []SentOnlyAfterSubmitted
<1>1. IInv => SentOnlyAfterSubmitted
  <2> SUFFICES ASSUME IInv, NEW b \in Bets,
                      \/ \E m \in wire : m.bet = b
                      \/ \E x \in DOMAIN exchange : exchange[x].bet = b
               PROVE  /\ OrdersOf(b) # {}
                      /\ orders[ExistingOrderForBet(b)].state # "CREATED"
    BY DEF SentOnlyAfterSubmitted
  <2>1. PICK o \in DOMAIN orders : orders[o].bet = b /\ orders[o].state # "CREATED"
    BY DEF IInv, SentIsCommitted
  <2>2. OrdersOf(b) # {}
    BY <2>1 DEF OrdersOf
  <2>3. ExistingOrderForBet(b) \in DOMAIN orders
        /\ orders[ExistingOrderForBet(b)].bet = b
    BY <2>2, ExistingOrderType, Zenon DEF IInv
  <2>4. ExistingOrderForBet(b) = o
    BY <2>1, <2>3 DEF IInv, OneOrderPerBet
  <2>5. QED
    BY <2>1, <2>2, <2>4
<1>2. QED
  BY <1>1, InvariantHolds, PTL

\* As long as go_gate answers NO-GO nothing happens at all.
THEOREM InertBehindTheGate == Spec => []InertWhileGateClosed
<1>1. Init => InertWhileGateClosed
  BY DEF Init, InertWhileGateClosed
<1>2. InertWhileGateClosed /\ [Next]_vars => InertWhileGateClosed'
  <2> SUFFICES ASSUME GoGate = "NO-GO", orders = <<>>, exchange = <<>>, wire = {},
                      \A c \in Callers : call[c] = Idle, [Next]_vars
               PROVE  UNCHANGED <<orders, call, wire, exchange>>
    BY DEF InertWhileGateClosed
  <2>1. DOMAIN orders = {} /\ DOMAIN exchange = {}
    OBVIOUS
  <2>2. ASSUME NEW c \in Callers PROVE ~Begin(c)
    BY <2>1 DEF Begin, SubmitCall, ReconcileCall, CancelCall
  <2>3. ASSUME NEW c \in Callers PROVE ~CallStep(c) /\ ~Abort(c)
    BY IdleType DEF CallStep, SubmitStep, SubmitReturnsExisting, SubmitResumes,
       SubmitFindsNone, SubmitCreate, SubmitMarkSubmitted, SubmitTransmit,
       SubmitTransmitFails, SubmitResult, ReconcileQuery, ReconcileRecord, CancelSend,
       CancelRecord, Abort
  <2>4. ~Environment
    BY <2>1 DEF Environment
  <2>5. QED
    BY <2>2, <2>3, <2>4 DEF Next, vars
<1>3. QED
  BY <1>1, <1>2, PTL DEF Spec

-----------------------------------------------------------------------------
(* Fills and terminal states.                                              *)

\* What a step may do to the orders of the exchange: it places new ones, adds
\* to fills, and closes.
ExchangeGrows ==
    /\ DOMAIN exchange \subseteq DOMAIN exchange'
    /\ \A x \in DOMAIN exchange :
        /\ exchange'[x].size = exchange[x].size
        /\ exchange[x].matched <= exchange'[x].matched
        /\ exchange[x].status \in {"matched", "unmatched"} =>
            exchange'[x].status = exchange[x].status
        /\ ~Open(x) => ~Open(x)'

\* The exchange changes one order.
LEMMA ExchangeChange ==
    ASSUME IInv, ExchangeFits, NEW x \in DOMAIN exchange, NEW after \in ExchangeOrder,
           exchange' = [exchange EXCEPT ![x] = after],
           after.size = exchange[x].size, after.matched <= after.size,
           exchange[x].matched <= after.matched,
           after.status = "matched" => after.matched = after.size,
           \/ exchange[x].status = "live"
           \/ after = exchange[x]
    PROVE  ExchangeGrows /\ ExchangeFits'
<1>1. /\ DOMAIN exchange' = DOMAIN exchange /\ exchange'[x] = after
      /\ \A y \in DOMAIN exchange : y # x => exchange'[y] = exchange[y]
      /\ \A y \in DOMAIN exchange : exchange[y].matched \in Nat /\ exchange[y].size \in Nat
      /\ after.matched \in Nat /\ after.size \in Nat
  BY ElementTypes, SizesAssumption DEF IInv, TypeOK, ExchangeOrder
<1>2. ExchangeFits'
  BY <1>1 DEF ExchangeFits
<1>3. \A y \in DOMAIN exchange : ~Open(y) => ~Open(y)'
  BY <1>1 DEF Open, ExchangeFits
<1> QED
  BY <1>1, <1>2, <1>3 DEF ExchangeGrows

\* The exchange takes a new order.
LEMMA ExchangeAppend ==
    ASSUME IInv, ExchangeFits, NEW new \in ExchangeOrder, exchange' = Append(exchange, new),
           new.matched <= new.size, new.status = "matched" => new.matched = new.size
    PROVE  ExchangeGrows /\ ExchangeFits'
<1>1. /\ DOMAIN exchange' = DOMAIN exchange \union {Len(exchange) + 1}
      /\ Len(exchange) + 1 \notin DOMAIN exchange /\ exchange'[Len(exchange) + 1] = new
      /\ \A y \in DOMAIN exchange : exchange'[y] = exchange[y]
      /\ \A y \in DOMAIN exchange : exchange[y].matched \in Nat
  BY ElementTypes DEF IInv, TypeOK, ExchangeOrder
<1>2. ExchangeFits'
  BY <1>1 DEF ExchangeFits
<1>3. ExchangeGrows
  BY <1>1 DEF ExchangeGrows, Open
<1> QED
  BY <1>2, <1>3

\* No step takes a fill back or reopens an order.
LEMMA ExchangeStep ==
    ASSUME IInv, ExchangeFits, [Next]_vars
    PROVE  ExchangeGrows /\ ExchangeFits'
<1>1. \A x \in DOMAIN exchange :
        /\ exchange[x] \in ExchangeOrder /\ exchange[x].size \in Nat
        /\ exchange[x].matched \in Nat /\ exchange[x].matched <= exchange[x].size
        /\ exchange[x].status = "matched" => exchange[x].matched = exchange[x].size
  BY ElementTypes, SizesAssumption DEF IInv, ExchangeFits, ExchangeOrder
<1>2. CASE UNCHANGED exchange
  BY <1>1, <1>2 DEF ExchangeGrows, ExchangeFits, Open
<1>3. ASSUME NEW c \in Callers, CancelSend(c), exchange' # exchange
      PROVE  ExchangeGrows /\ ExchangeFits'
  <2> DEFINE x == call[c].xid
             after == [exchange[x] EXCEPT !.status = "cancelled"]
  <2>1. x \in DOMAIN exchange
    BY <1>3 DEF CancelSend, IInv, InquiryLocals, Inquiring, IdBelongsToOrder
  <2>2. exchange[x].status = "live" /\ exchange' = [exchange EXCEPT ![x] = after]
    BY <1>3, <2>1 DEF CancelSend, Open, IInv, TypeOK
  <2>3. /\ after \in ExchangeOrder /\ after.size = exchange[x].size
        /\ after.matched = exchange[x].matched /\ after.status = "cancelled"
    BY <1>1, <2>1 DEF ExchangeOrder
  <2> HIDE DEF x, after
  <2>4. /\ after.matched <= after.size /\ exchange[x].matched <= after.matched
        /\ after.status # "matched"
    BY <1>1, <2>1, <2>3
  <2> QED
    BY <2>1, <2>2, <2>3, <2>4, ExchangeChange
<1>4. ASSUME NEW m \in wire, ExchangePlaces(m) PROVE ExchangeGrows /\ ExchangeFits'
  <2>1. PICK status \in {"live", "matched", "unmatched"} :
          exchange' = Append(exchange, Placed(m, status))
    BY <1>4 DEF ExchangePlaces
  <2>2. m.bet \in Bets /\ m.size \in Sizes /\ m.size \in Nat
    BY SizesAssumption DEF IInv, TypeOK, Request
  <2>3. /\ Placed(m, status) \in ExchangeOrder
        /\ Placed(m, status).matched <= Placed(m, status).size
        /\ Placed(m, status).status = "matched" =>
            Placed(m, status).matched = Placed(m, status).size
    BY <2>2 DEF Placed, ExchangeOrder
  <2> QED
    BY <2>1, <2>3, ExchangeAppend
<1>5. ASSUME NEW x \in DOMAIN exchange, ExchangeFills(x) PROVE ExchangeGrows /\ ExchangeFits'
  <2> DEFINE n == exchange[x].matched + 1
             after == [exchange[x] EXCEPT !.matched = n]
  <2>1. /\ exchange[x].status = "live" /\ n \in Nat /\ n <= exchange[x].size
        /\ exchange[x].matched <= n /\ exchange' = [exchange EXCEPT ![x] = after]
    BY <1>1, <1>5 DEF ExchangeFills, Open, IInv, TypeOK
  <2> HIDE DEF n
  <2>2. /\ after \in ExchangeOrder /\ after.size = exchange[x].size
        /\ after.matched = n /\ after.status = "live"
    BY <1>1, <2>1 DEF ExchangeOrder
  <2> HIDE DEF after
  <2>3. /\ after.matched <= after.size /\ exchange[x].matched <= after.matched
        /\ after.status # "matched"
    BY <1>1, <2>1, <2>2
  <2> QED
    BY <2>1, <2>2, <2>3, ExchangeChange
<1>6. ASSUME NEW x \in DOMAIN exchange, ExchangeCloses(x) PROVE ExchangeGrows /\ ExchangeFits'
  <2> DEFINE status == IF Open(x) THEN "cancelled" ELSE "matched"
             after == [exchange[x] EXCEPT !.status = status]
  <2>1. /\ exchange[x].status = "live" /\ exchange' = [exchange EXCEPT ![x] = after]
        /\ status \in {"cancelled", "matched"}
        /\ status = "matched" => exchange[x].matched = exchange[x].size
    BY <1>1, <1>6 DEF ExchangeCloses, Open, IInv, TypeOK
  <2> HIDE DEF status
  <2>2. /\ after \in ExchangeOrder /\ after.size = exchange[x].size
        /\ after.matched = exchange[x].matched /\ after.status = status
    BY <1>1, <2>1 DEF ExchangeOrder
  <2> HIDE DEF after
  <2>3. /\ after.matched <= after.size /\ exchange[x].matched <= after.matched
        /\ after.status = "matched" => after.matched = after.size
    BY <1>1, <2>1, <2>2
  <2> QED
    BY <2>1, <2>2, <2>3, ExchangeChange
<1>7. \/ UNCHANGED exchange
      \/ \E c \in Callers : CancelSend(c)
      \/ \E m \in wire : ExchangePlaces(m)
      \/ \E x \in DOMAIN exchange : ExchangeFills(x) \/ ExchangeCloses(x)
  BY DEF Next, Begin, CallStep, SubmitStep, ReconcileCall, CancelCall, BeginCall, Environment,
         SubmitCall, SubmitReturnsExisting, SubmitResumes, SubmitFindsNone, SubmitCreate,
         SubmitMarkSubmitted, SubmitTransmit, SubmitTransmitFails, SubmitResult,
         ReconcileQuery, ReconcileRecord, CancelRecord, Abort, RequestLost, ExchangeRefuses,
         vars
<1> QED
  BY <1>2, <1>3, <1>4, <1>5, <1>6, <1>7

\* What a caller that takes no step was told still fits.
LEMMA OthersFit ==
    ASSUME IInv, IInv', ExchangeGrows, NEW c \in Callers, ReplyFits(c), AnswerFits(c),
           call'[c] = call[c], call[c].pc = "await" => wire' \subseteq wire,
           DOMAIN orders \subseteq DOMAIN orders',
           \A o \in DOMAIN orders : orders'[o].size = orders[o].size
    PROVE  ReplyFits(c)' /\ AnswerFits(c)'
<1>1. ReplyFits(c)'
  <2>1. call[c].pc = "answered" /\ call[c].reply.xid # NoId =>
            call[c].reply.xid \in DOMAIN exchange
    BY DEF IInv, SubmissionLocals, Submitting
  <2> QED
    BY <2>1 DEF ReplyFits, ExchangeGrows
<1>2. AnswerFits(c)'
  <2>1. CASE call[c].pc \in Inquiring
    <3> DEFINE o == call[c].order
               x == call[c].xid
    <3>1. o \in DOMAIN orders /\ x \in DOMAIN exchange
      BY <2>1 DEF IInv, InquiryLocals, IdBelongsToOrder
    <3>2. /\ exchange[x].matched <= exchange'[x].matched
          /\ exchange'[x].size = exchange[x].size
          /\ exchange'[x].status = "live" /\ exchange'[x].matched < exchange'[x].size => Open(x)
          /\ orders'[o].size = orders[o].size
      BY <3>1 DEF ExchangeGrows, Open
    <3>3. exchange[x].matched \in Nat /\ exchange'[x].matched \in Nat
      <4>1. DOMAIN exchange \subseteq DOMAIN exchange'
        BY DEF ExchangeGrows
      <4>2. exchange \in Seq(ExchangeOrder) /\ exchange' \in Seq(ExchangeOrder)
        BY DEF IInv, TypeOK
      <4>3. exchange[x] \in ExchangeOrder
        BY <3>1, <4>2, ElementOfSeq
      <4>4. exchange'[x] \in ExchangeOrder
        BY <3>1, <4>1, <4>2, ElementOfSeq
      <4> QED
        BY <4>3, <4>4 DEF ExchangeOrder
    <3>4. call[c].matched # None => call[c].matched \in Nat
      BY DEF IInv, TypeOK, Locals, Matched
    <3>5. call[c].matched # None /\ call[c].matched <= exchange[x].matched
            => call[c].matched <= exchange'[x].matched
      BY <3>2, <3>3, <3>4
    <3> QED
      BY <2>1, <3>1, <3>2, <3>5 DEF AnswerFits, Open
  <2>2. CASE call[c].pc \notin Inquiring
    BY <2>2 DEF AnswerFits, Inquiring
  <2> QED
    BY <2>1, <2>2
<1> QED
  BY <1>1, <1>2

\* A caller that waits for no reply and holds no answer has nothing to fit.
LEMMA OwnCallFits ==
    ASSUME IInv, IInv', FillIInv, ExchangeGrows, NEW c \in Callers,
           \A d \in Callers \ {c} : /\ call'[d] = call[d]
                                    /\ call[d].pc = "await" => wire' \subseteq wire,
           DOMAIN orders \subseteq DOMAIN orders',
           \A o \in DOMAIN orders : orders'[o].size = orders[o].size,
           \/ call'[c].pc \in {"idle", "lock", "create", "client", "post"}
           \/ ReplyFits(c)' /\ AnswerFits(c)'
    PROVE  \A d \in Callers : ReplyFits(d)' /\ AnswerFits(d)'
<1>1. ReplyFits(c)' /\ AnswerFits(c)'
  BY DEF ReplyFits, AnswerFits, Inquiring
<1>2. ASSUME NEW d \in Callers \ {c} PROVE ReplyFits(d)' /\ AnswerFits(d)'
  BY OthersFit DEF FillIInv
<1> QED
  BY <1>1, <1>2

\* Views that nobody records to stay true while the exchange goes on.
LEMMA ViewsFit ==
    ASSUME IInv, IInv', FillIInv, ExchangeGrows, UNCHANGED orders
    PROVE  FillIsNotOverstated' /\ ReadAsClosedMeansClosed'
<1> SUFFICES ASSUME NEW o \in DOMAIN orders, orders[o].xid # NoId,
                    orders[o].size = exchange'[orders[o].xid].size
             PROVE  /\ orders[o].matched # None =>
                        orders[o].matched <= exchange'[orders[o].xid].matched
                    /\ orders[o].state \in ReadAsClosed =>
                        ~(/\ exchange'[orders[o].xid].status = "live"
                          /\ exchange'[orders[o].xid].matched < exchange'[orders[o].xid].size)
  BY DEF FillIsNotOverstated, ReadAsClosedMeansClosed, SameTerms, Open
<1> DEFINE x == orders[o].xid
<1>1. x \in DOMAIN exchange /\ x \in DOMAIN exchange'
  BY DEF IInv, IdBelongsToOrder
<1>2. /\ exchange[x].matched <= exchange'[x].matched /\ exchange'[x].size = exchange[x].size
      /\ exchange'[x].status = "live" /\ exchange'[x].matched < exchange'[x].size => Open(x)
  BY <1>1 DEF ExchangeGrows, Open
<1>3. exchange[x].matched \in Nat /\ exchange'[x].matched \in Nat
  <2>1. exchange \in Seq(ExchangeOrder) /\ exchange' \in Seq(ExchangeOrder)
    BY DEF IInv, TypeOK
  <2>2. exchange[x] \in ExchangeOrder
    BY <1>1, <2>1, ElementOfSeq
  <2>3. exchange'[x] \in ExchangeOrder
    BY <1>1, <2>1, ElementOfSeq
  <2> QED
    BY <2>2, <2>3 DEF ExchangeOrder
<1>4. orders[o].matched # None => orders[o].matched \in Nat
  BY ElementTypes DEF IInv, OrderView, Matched
<1>5. /\ orders[o].matched # None => orders[o].matched <= exchange[x].matched
      /\ orders[o].state \in ReadAsClosed => ~Open(x)
  BY <1>2 DEF FillIInv, FillIsNotOverstated, ReadAsClosedMeansClosed, SameTerms
<1> QED
  BY <1>2, <1>3, <1>4, <1>5

\* A row whose fill and state are true of the order it names.
LEMMA RecordFits ==
    ASSUME IInv, FillIInv, NEW o \in DOMAIN orders, NEW state \in States,
           NEW xid \in Nat, NEW matched \in Matched,
           orders' = Recorded(o, state, xid, matched), UNCHANGED exchange,
           \/ xid = NoId /\ orders[o].xid = NoId
           \/ /\ xid # NoId
              /\ orders[o].size = exchange[xid].size =>
                    /\ matched # None => matched <= exchange[xid].matched
                    /\ state \in ReadAsClosed => ~Open(xid)
    PROVE  /\ FillIsNotOverstated' /\ ReadAsClosedMeansClosed'
           /\ DOMAIN orders \subseteq DOMAIN orders'
           /\ \A p \in DOMAIN orders : orders'[p].size = orders[p].size
<1> DEFINE row == [state |-> state, xid |-> xid, matched |-> matched]
<1>1. /\ DOMAIN orders' = DOMAIN orders
      /\ \A p \in DOMAIN orders :
            orders'[p] = IF p = o THEN Folded(orders[o], row) ELSE orders[p]
  <2>1. orders \in Seq(OrderView)
    BY DEF IInv, TypeOK
  <2> DEFINE after == Recorded(o, state, xid, matched)
  <2>2. /\ DOMAIN after = DOMAIN orders
        /\ \A p \in DOMAIN orders :
              after[p] = IF p = o THEN Folded(orders[o], row) ELSE orders[p]
    BY <2>1, RecordedType
  <2>3. QED
    BY <2>2
<1>2. /\ Folded(orders[o], row).size = orders[o].size
      /\ Folded(orders[o], row).state = state
      /\ Folded(orders[o], row).matched = matched
      /\ Folded(orders[o], row).xid = IF xid = NoId THEN orders[o].xid ELSE xid
  BY DEF Folded
<1> HIDE DEF row
<1>3. FillIsNotOverstated'
  BY <1>1, <1>2 DEF FillIInv, FillIsNotOverstated, SameTerms
<1>4. ReadAsClosedMeansClosed'
  BY <1>1, <1>2 DEF FillIInv, ReadAsClosedMeansClosed, SameTerms, Open
<1> QED
  BY <1>1, <1>2, <1>3, <1>4

\* What reconcile_order is told about an order of the size it expects is true,
\* and terminal only if the order is closed.
LEMMA StatusFits ==
    ASSUME IInv, ExchangeFits, NEW x \in DOMAIN exchange,
           NEW status \in {exchange[x].status, "other"},
           NEW matched \in {exchange[x].matched, None},
           NEW row, row = InterpretOrderStatus(status, matched, exchange[x].size)
    PROVE  /\ row.matched # None => row.matched <= exchange[x].matched
           /\ row.state \in TerminalStates => ~Open(x)
<1>1. /\ exchange[x].matched \in Nat /\ exchange[x].size \in Nat
      /\ exchange[x].status \in {"live", "matched", "cancelled", "unmatched"}
  BY ElementTypes, SizesAssumption DEF IInv, ExchangeOrder
<1>2. exchange[x].status = "matched" => exchange[x].matched = exchange[x].size
  BY DEF ExchangeFits
<1>3. matched # None => matched = exchange[x].matched
  OBVIOUS
<1>4. CASE status = "cancelled"
  BY <1>1, <1>3, <1>4 DEF InterpretOrderStatus, Open
<1>5. CASE status = "matched"
  BY <1>1, <1>2, <1>3, <1>5 DEF InterpretOrderStatus, Open
<1>6. CASE status = "live"
  BY <1>1, <1>3, <1>6, NoneAssumption DEF InterpretOrderStatus, Open, TerminalStates
<1>7. CASE status = "unmatched"
  BY <1>1, <1>3, <1>7 DEF InterpretOrderStatus, Open
<1>8. CASE status \notin {"cancelled", "matched", "live", "unmatched"}
  BY <1>1, <1>3, <1>8 DEF InterpretOrderStatus, TerminalStates
<1> QED
  BY <1>4, <1>5, <1>6, <1>7, <1>8

\* The outcome that submit_order reads from a reply is true of the order the
\* reply names.
LEMMA OutcomeFits ==
    ASSUME IInv, IInv', FillIInv, NEW c \in Callers, SubmitResult(c)
    PROVE  /\ FillIsNotOverstated' /\ ReadAsClosedMeansClosed'
           /\ DOMAIN orders \subseteq DOMAIN orders'
           /\ \A p \in DOMAIN orders : orders'[p].size = orders[p].size
<1> DEFINE row == InterpretPostOrderResponse(call[c].reply, call[c].size)
           o == call[c].order
           x == call[c].reply.xid
<1>1. /\ call[c].pc = "answered" /\ UNCHANGED exchange
      /\ orders' = Recorded(o, row.state, x, row.matched)
  BY DEF SubmitResult
<1>2. /\ o \in DOMAIN orders /\ orders[o].xid = NoId /\ call[c].size \in Nat
      /\ x \in Nat
      /\ x # NoId => x \in DOMAIN exchange
  BY <1>1, SizesAssumption DEF IInv, SubmissionLocals, Submitting, TypeOK, Locals, PostReply
<1>3. row.state \in States /\ row.matched \in Matched
  BY <1>2 DEF InterpretPostOrderResponse, States, TerminalStates, Matched
<1>4. ASSUME x # NoId
      PROVE  orders[o].size = exchange[x].size =>
                /\ row.matched # None => row.matched <= exchange[x].matched
                /\ row.state \in ReadAsClosed => ~Open(x)
  <2>1. /\ call[c].reply.success = "true" /\ exchange[x].size = call[c].size
        /\ call[c].reply.status \in {"matched", "unmatched"} =>
            exchange[x].status = call[c].reply.status
    BY <1>1, <1>4 DEF FillIInv, ReplyFits
  <2>2. /\ exchange[x].matched \in Nat
        /\ exchange[x].status = "matched" => exchange[x].matched = exchange[x].size
    BY <1>2, <1>4, ElementTypes DEF IInv, ExchangeOrder, FillIInv, ExchangeFits
  <2>3. CASE call[c].reply.status = "matched"
    BY <1>2, <2>1, <2>2, <2>3 DEF InterpretPostOrderResponse, Open
  <2>4. CASE call[c].reply.status = "unmatched"
    BY <2>1, <2>4 DEF InterpretPostOrderResponse, Open
  <2>5. CASE call[c].reply.status = "live"
    BY <2>1, <2>2, <2>5 DEF InterpretPostOrderResponse, ReadAsClosed, TerminalStates
  <2>6. CASE call[c].reply.status \notin {"matched", "unmatched", "live"}
    BY <1>4, <2>1, <2>6 DEF InterpretPostOrderResponse, ReadAsClosed, TerminalStates
  <2> QED
    BY <2>3, <2>4, <2>5, <2>6
<1> HIDE DEF row, o, x
<1> QED
  BY <1>1, <1>2, <1>3, <1>4, RecordFits

\* The rows of the other calls.
LEMMA RowsFit ==
    ASSUME IInv, IInv', FillIInv, NEW c \in Callers,
           \/ SubmitMarkSubmitted(c) \/ SubmitTransmitFails(c)
           \/ ReconcileRecord(c) \/ CancelRecord(c)
    PROVE  /\ FillIsNotOverstated' /\ ReadAsClosedMeansClosed'
           /\ DOMAIN orders \subseteq DOMAIN orders'
           /\ \A p \in DOMAIN orders : orders'[p].size = orders[p].size
<1> DEFINE o == call[c].order
           x == call[c].xid
<1>1. NoId \in Nat /\ None \in Matched /\ {"SUBMITTED", "UNKNOWN", "CANCELLED"} \subseteq States
  BY DEF NoId, Matched, States, TerminalStates
<1>2. CASE SubmitMarkSubmitted(c) \/ SubmitTransmitFails(c)
  <2>1. PICK state \in {"SUBMITTED", "UNKNOWN"} : orders' = Recorded(o, state, NoId, None)
    BY <1>2 DEF SubmitMarkSubmitted, SubmitTransmitFails
  <2>2. o \in DOMAIN orders /\ orders[o].xid = NoId /\ UNCHANGED exchange
    BY <1>2 DEF SubmitMarkSubmitted, SubmitTransmitFails, IInv, SubmissionLocals, Submitting
  <2>3. state \in States
    BY <1>1
  <2> HIDE DEF o
  <2> QED
    BY <1>1, <2>1, <2>2, <2>3, RecordFits
<1>3. CASE ReconcileRecord(c) \/ CancelRecord(c)
  <2>1. /\ call[c].pc \in {"resolved", "cancelled"} /\ UNCHANGED exchange
        /\ o \in DOMAIN orders /\ x \in Nat /\ x # NoId
        /\ call[c].state \in States /\ call[c].matched \in Matched
    BY <1>3 DEF ReconcileRecord, CancelRecord, IInv, InquiryLocals, Inquiring, TypeOK, Locals
  <2>2. /\ call[c].size = orders[o].size
        /\ (call[c].pc = "resolved" /\ call[c].size = exchange[x].size) =>
             /\ call[c].matched # None => call[c].matched <= exchange[x].matched
             /\ call[c].state \in ReadAsClosed => ~Open(x)
    BY <2>1 DEF FillIInv, AnswerFits, Inquiring
  <2>3. PICK state \in States, matched \in Matched :
          /\ orders' = Recorded(o, state, x, matched)
          /\ orders[o].size = exchange[x].size =>
                /\ matched # None => matched <= exchange[x].matched
                /\ state \in ReadAsClosed => ~Open(x)
    <3>1. CASE ReconcileRecord(c)
      BY <2>1, <2>2, <3>1 DEF ReconcileRecord
    <3>2. CASE CancelRecord(c)
      BY <1>1, <3>2 DEF CancelRecord, ReadAsClosed
    <3> QED
      BY <1>3, <3>1, <3>2
  <2> HIDE DEF o, x
  <2> QED
    BY <2>1, <2>3, RecordFits
<1> QED
  BY <1>2, <1>3

\* The answer that a reconciliation gets.
LEMMA QueryFits ==
    ASSUME IInv, IInv', FillIInv, NEW c \in Callers, ReconcileQuery(c)
    PROVE  ReplyFits(c)' /\ AnswerFits(c)'
<1> DEFINE x == call[c].xid
           known == exchange[x]
<1>1. /\ call[c].pc = "query" /\ UNCHANGED <<orders, lock, wire, exchange>>
      /\ x \in DOMAIN exchange /\ call[c].size = orders[call[c].order].size
  BY DEF ReconcileQuery, IInv, InquiryLocals, Inquiring, IdBelongsToOrder, FillIInv, AnswerFits
<1>2. PICK status \in {known.status, "other"}, matched \in {known.matched, None} :
        LET row == InterpretOrderStatus(status, matched, call[c].size) IN
        call' = [call EXCEPT ![c].pc = "resolved",
                             ![c].state = IF row.state \in TerminalStates
                                          THEN "RECONCILED" ELSE row.state,
                             ![c].matched = row.matched]
  BY Zenon DEF ReconcileQuery
<1> DEFINE row == InterpretOrderStatus(status, matched, call[c].size)
<1>3. /\ call'[c].pc = "resolved" /\ call'[c].matched = row.matched
      /\ call'[c].state = IF row.state \in TerminalStates THEN "RECONCILED" ELSE row.state
      /\ call'[c].xid = x /\ call'[c].size = call[c].size /\ call'[c].order = call[c].order
  BY <1>2 DEF IInv, TypeOK, Locals
<1>4. call[c].size = known.size =>
        /\ row.matched # None => row.matched <= known.matched
        /\ row.state \in TerminalStates => ~Open(x)
  BY <1>1, StatusFits DEF FillIInv
<1>5. call'[c].state \in ReadAsClosed => row.state \in TerminalStates
  BY <1>3 DEF ReadAsClosed
<1> HIDE DEF row, known
<1>6. call[c].size = exchange[x].size =>
        /\ row.matched # None => row.matched <= exchange[x].matched
        /\ row.state \in TerminalStates => ~Open(x)
  BY <1>4 DEF known
<1> HIDE DEF x
<1> QED
  BY <1>1, <1>3, <1>5, <1>6 DEF ReplyFits, AnswerFits, Open

\* The exchange answers a submission about what that submission sent.
LEMMA PlacedFits ==
    ASSUME IInv, IInv', FillIInv, ExchangeGrows, NEW m \in wire,
           ExchangePlaces(m) \/ ExchangeRefuses(m)
    PROVE  \A d \in Callers : ReplyFits(d)' /\ AnswerFits(d)'
<1> DEFINE n == Len(exchange) + 1
<1>1. PICK reply \in PostReply :
        /\ Answer(m, reply) /\ UNCHANGED orders /\ wire' = wire \ {m}
        /\ reply.xid # NoId =>
            /\ reply.xid \in DOMAIN exchange' /\ reply.success = "true"
            /\ exchange'[reply.xid].size = m.size
            /\ reply.status \in {"matched", "unmatched"} =>
                exchange'[reply.xid].status = reply.status
  <2>1. CASE ExchangeRefuses(m)
    <3> DEFINE reply == [NoReply EXCEPT !.success = "false"]
    <3>1. reply \in PostReply /\ reply.xid = NoId
      BY DEF NoReply, PostReply, NoId
    <3>2. Answer(m, reply) /\ UNCHANGED orders /\ wire' = wire \ {m}
      BY <2>1 DEF ExchangeRefuses
    <3> HIDE DEF reply
    <3> QED
      BY <3>1, <3>2
  <2>2. CASE ExchangePlaces(m)
    <3>1. PICK status \in {"live", "matched", "unmatched"} :
            /\ exchange' = Append(exchange, Placed(m, status))
            /\ \E read \in {status, "other"} :
                \/ Answer(m, [success |-> "true", status |-> read, xid |-> n])
                \/ Answer(m, NoReply)
            /\ UNCHANGED orders /\ wire' = wire \ {m}
      BY <2>2 DEF ExchangePlaces
    <3>2. n \in DOMAIN exchange' /\ n \in Nat /\ exchange'[n] = Placed(m, status)
      BY <3>1 DEF IInv, TypeOK
    <3> HIDE DEF n
    <3>3. exchange'[n].size = m.size /\ exchange'[n].status = status
      BY <3>2 DEF Placed
    <3>4. ASSUME NEW read \in {status, "other"},
                 Answer(m, [success |-> "true", status |-> read, xid |-> n])
          PROVE  \E reply \in PostReply :
                    /\ Answer(m, reply) /\ UNCHANGED orders /\ wire' = wire \ {m}
                    /\ reply.xid # NoId =>
                        /\ reply.xid \in DOMAIN exchange' /\ reply.success = "true"
                        /\ exchange'[reply.xid].size = m.size
                        /\ reply.status \in {"matched", "unmatched"} =>
                            exchange'[reply.xid].status = reply.status
      <4> DEFINE reply == [success |-> "true", status |-> read, xid |-> n]
      <4>1. /\ reply \in PostReply /\ reply.xid = n /\ reply.success = "true"
            /\ reply.status = read
        BY <3>2 DEF PostReply
      <4>2. Answer(m, reply)
        BY <3>4
      <4> HIDE DEF reply
      <4> QED
        BY <3>1, <3>2, <3>3, <4>1, <4>2
    <3>5. CASE Answer(m, NoReply)
      <4>1. NoReply \in PostReply /\ NoReply.xid = NoId
        BY DEF NoReply, PostReply, NoId
      <4> QED
        BY <3>1, <3>5, <4>1
    <3> QED
      BY <3>1, <3>4, <3>5
  <2> QED
    BY <2>1, <2>2
<1>2. \A d \in Callers :
        \/ call'[d] = call[d]
        \/ /\ call[d].pc = "await" /\ call'[d].pc = "answered"
           /\ call[d].bet = m.bet /\ call'[d].reply = reply
           /\ call'[d].bet = call[d].bet /\ call'[d].size = call[d].size
           /\ call'[d].order = call[d].order
  BY <1>1, AnswerFields DEF IInv
<1> SUFFICES ASSUME NEW d \in Callers PROVE ReplyFits(d)' /\ AnswerFits(d)'
  OBVIOUS
<1>3. CASE call'[d] = call[d]
  BY <1>1, <1>3, OthersFit DEF FillIInv
<1>4. CASE call'[d] # call[d]
  <2>1. /\ call[d].pc = "await" /\ call'[d].pc = "answered" /\ call[d].bet = m.bet
        /\ call'[d].reply = reply /\ call'[d].size = call[d].size
    BY <1>2, <1>4
  <2>2. call[d].size = m.size
    BY <2>1 DEF FillIInv, ReplyFits
  <2> QED
    BY <1>1, <2>1, <2>2 DEF ReplyFits, AnswerFits, Inquiring
<1> QED
  BY <1>3, <1>4

\* A request leaves while no other of its bet is under way.
LEMMA SentFits ==
    ASSUME IInv, IInv', FillIInv, ExchangeGrows, NEW c \in Callers, SubmitTransmit(c)
    PROVE  \A d \in Callers : ReplyFits(d)' /\ AnswerFits(d)'
<1> DEFINE m == [caller |-> c, bet |-> call[c].bet, size |-> call[c].size]
<1>1. /\ call[c].pc = "post" /\ call'[c].pc = "await" /\ wire' = wire \union {m}
      /\ call'[c].bet = call[c].bet /\ call'[c].size = call[c].size
      /\ UNCHANGED <<orders, exchange>>
      /\ \A d \in Callers \ {c} : call'[d] = call[d]
  BY DEF SubmitTransmit, IInv, TypeOK, Locals
<1>2. \A d \in Callers \ {c} : call[d].pc # "await"
  BY <1>1 DEF IInv, LockProtects, Submitting
<1>3. \A r \in wire : r.bet # call[c].bet
  BY <1>1 DEF IInv, SubmissionLocals
<1>4. m.size = call[c].size
  OBVIOUS
<1> HIDE DEF m
<1>5. ReplyFits(c)' /\ AnswerFits(c)'
  BY <1>1, <1>3, <1>4 DEF ReplyFits, AnswerFits, Inquiring
<1> QED
  BY <1>1, <1>2, <1>5, OwnCallFits

\* A request to cancel tells its caller nothing that could be wrong.
LEMMA CancelFits ==
    ASSUME IInv, FillIInv, NEW c \in Callers, CancelSend(c)
    PROVE  ReplyFits(c)' /\ AnswerFits(c)'
<1>1. /\ call[c].pc = "cancel" /\ call'[c].pc = "cancelled" /\ UNCHANGED orders
      /\ call'[c].size = call[c].size /\ call'[c].order = call[c].order
  BY DEF CancelSend, IInv, TypeOK, Locals
<1>2. call[c].size = orders[call[c].order].size
  BY <1>1 DEF FillIInv, AnswerFits, Inquiring
<1> QED
  BY <1>1, <1>2 DEF ReplyFits, AnswerFits, Inquiring

\* Every step keeps fills true and terminal orders closed.
LEMMA FillStep == IInv /\ FillIInv /\ [Next]_vars => FillIInv'
<1> SUFFICES ASSUME IInv, FillIInv, [Next]_vars PROVE FillIInv'
  OBVIOUS
<1>1. IInv'
  BY InvariantStep
<1>2. ExchangeGrows /\ ExchangeFits'
  BY ExchangeStep DEF FillIInv
<1>3. UNCHANGED orders => FillIsNotOverstated' /\ ReadAsClosedMeansClosed'
  BY <1>1, <1>2, ViewsFit
<1>4. ASSUME NEW c \in Callers,
             \/ SubmitCall(c) \/ SubmitReturnsExisting(c) \/ SubmitResumes(c)
             \/ SubmitFindsNone(c) \/ Abort(c)
      PROVE  FillIInv'
  <2>1. /\ UNCHANGED <<orders, wire, exchange>>
        /\ \A d \in Callers \ {c} : call'[d] = call[d]
        /\ call'[c].pc \in {"idle", "lock", "create", "client"}
    <3>1. CASE SubmitCall(c)
      <4>1. PICK b \in Bets, s \in Sizes :
              call' = [call EXCEPT ![c] = [Idle EXCEPT !.pc = "lock", !.bet = b, !.size = s]]
        BY <3>1 DEF SubmitCall
      <4>2. [Idle EXCEPT !.pc = "lock", !.bet = b, !.size = s].pc = "lock"
        BY DEF Idle
      <4> QED
        BY <3>1, <4>1, <4>2 DEF SubmitCall, IInv, TypeOK
    <3>2. CASE SubmitReturnsExisting(c) \/ Abort(c)
      BY <3>2, IdleType DEF SubmitReturnsExisting, Abort, IInv, TypeOK
    <3>3. CASE SubmitResumes(c) \/ SubmitFindsNone(c)
      BY <3>3 DEF SubmitResumes, SubmitFindsNone, IInv, TypeOK, Locals
    <3> QED
      BY <1>4, <3>1, <3>2, <3>3
  <2> QED
    BY <1>1, <1>2, <1>3, <2>1, OwnCallFits DEF FillIInv
<1>5. ASSUME NEW c \in Callers, NEW o \in DOMAIN orders, NEW pc \in {"query", "cancel"},
             BeginCall(c, o, pc)
      PROVE  FillIInv'
  <2>1. /\ UNCHANGED <<orders, wire, exchange>>
        /\ \A d \in Callers \ {c} : call'[d] = call[d]
        /\ call'[c].pc = pc /\ call'[c].order = o /\ call'[c].size = orders[o].size
    BY <1>5, IdleType DEF BeginCall, IInv, TypeOK, Locals
  <2>2. ReplyFits(c)' /\ AnswerFits(c)'
    BY <2>1 DEF ReplyFits, AnswerFits, Inquiring
  <2> QED
    BY <1>1, <1>2, <1>3, <2>1, <2>2, OwnCallFits DEF FillIInv
<1>6. ASSUME NEW c \in Callers, SubmitCreate(c) PROVE FillIInv'
  <2> DEFINE n == Len(orders) + 1
  <2>1. /\ UNCHANGED <<wire, exchange>> /\ call'[c].pc = "client"
        /\ \A d \in Callers \ {c} : call'[d] = call[d]
    BY <1>6 DEF SubmitCreate, IInv, TypeOK, Locals
  <2>2. /\ DOMAIN orders' = DOMAIN orders \union {n}
        /\ \A o \in DOMAIN orders : orders'[o] = orders[o]
        /\ orders'[n].xid = NoId
    BY <1>6 DEF SubmitCreate, IInv, TypeOK
  <2> HIDE DEF n
  <2>3. FillIsNotOverstated' /\ ReadAsClosedMeansClosed'
    BY <2>1, <2>2 DEF FillIInv, FillIsNotOverstated, ReadAsClosedMeansClosed, SameTerms, Open
  <2> QED
    BY <1>1, <1>2, <2>1, <2>2, <2>3, OwnCallFits DEF FillIInv
<1>7. ASSUME NEW c \in Callers,
             \/ SubmitMarkSubmitted(c) \/ SubmitTransmitFails(c) \/ SubmitResult(c)
             \/ ReconcileRecord(c) \/ CancelRecord(c)
      PROVE  FillIInv'
  <2>1. /\ UNCHANGED <<wire, exchange>> /\ call'[c].pc \in {"idle", "post"}
        /\ \A d \in Callers \ {c} : call'[d] = call[d]
    BY <1>7, IdleType DEF SubmitMarkSubmitted, SubmitTransmitFails, SubmitResult,
                          ReconcileRecord, CancelRecord, IInv, TypeOK, Locals
  <2>2. /\ FillIsNotOverstated' /\ ReadAsClosedMeansClosed'
        /\ DOMAIN orders \subseteq DOMAIN orders'
        /\ \A p \in DOMAIN orders : orders'[p].size = orders[p].size
    BY <1>1, <1>7, RowsFit, OutcomeFits
  <2> QED
    BY <1>1, <1>2, <2>1, <2>2, OwnCallFits DEF FillIInv
<1>8. ASSUME NEW c \in Callers, ReconcileQuery(c) \/ CancelSend(c) PROVE FillIInv'
  <2>1. /\ UNCHANGED <<orders, wire>> /\ \A d \in Callers \ {c} : call'[d] = call[d]
    BY <1>8 DEF ReconcileQuery, CancelSend, IInv, TypeOK
  <2>2. ReplyFits(c)' /\ AnswerFits(c)'
    BY <1>1, <1>8, QueryFits, CancelFits
  <2> QED
    BY <1>1, <1>2, <1>3, <2>1, <2>2, OwnCallFits DEF FillIInv
<1>9. ASSUME NEW c \in Callers, SubmitTransmit(c) PROVE FillIInv'
  <2>1. UNCHANGED orders
    BY <1>9 DEF SubmitTransmit
  <2> QED
    BY <1>1, <1>2, <1>3, <1>9, <2>1, SentFits DEF FillIInv
<1>10. ASSUME NEW m \in wire, ExchangePlaces(m) \/ ExchangeRefuses(m) PROVE FillIInv'
  <2>1. UNCHANGED orders
    BY <1>10 DEF ExchangePlaces, ExchangeRefuses
  <2> QED
    BY <1>1, <1>2, <1>3, <1>10, <2>1, PlacedFits DEF FillIInv
<1>11. CASE \/ \E m \in wire : RequestLost(m)
            \/ \E x \in DOMAIN exchange : ExchangeFills(x) \/ ExchangeCloses(x)
            \/ UNCHANGED vars
  <2>1. UNCHANGED <<orders, call>> /\ wire' \subseteq wire
    BY <1>11 DEF RequestLost, ExchangeFills, ExchangeCloses, vars
  <2>2. \A d \in Callers : ReplyFits(d)' /\ AnswerFits(d)'
    BY <1>1, <1>2, <2>1, OthersFit DEF FillIInv
  <2> QED
    BY <1>2, <1>3, <2>1, <2>2 DEF FillIInv
<1> QED
  BY <1>4, <1>5, <1>6, <1>7, <1>8, <1>9, <1>10, <1>11
  DEF Next, Begin, CallStep, SubmitStep, ReconcileCall, CancelCall, Environment

\* The invariant of the fills holds in the first state.
LEMMA InitFits == Init => FillIInv
  BY IdleType DEF Init, FillIInv, ExchangeFits, FillIsNotOverstated, ReadAsClosedMeansClosed,
     ReplyFits, AnswerFits, Inquiring

\* The ledger and the answers under way stay true of the exchange.
THEOREM FillInvariantHolds == Spec => []FillIInv
  BY InitFits, FillStep, InvariantHolds, PTL DEF Spec

\* However late a reply is read and recorded, the ledger never claims more
\* than the exchange has filled, of an order with unchanged terms.
THEOREM FillsAreNotOverstated == Spec => []FillIsNotOverstated
<1>1. FillIInv => FillIsNotOverstated
  BY DEF FillIInv
<1> QED
  BY <1>1, FillInvariantHolds, PTL

\* An order that was recorded as ended upon an answer of the exchange is closed
\* there, with unchanged terms, whichever calls raced.
THEOREM TerminalIsClosed == Spec => []ReadAsClosedMeansClosed
<1>1. FillIInv => ReadAsClosedMeansClosed
  BY DEF FillIInv
<1> QED
  BY <1>1, FillInvariantHolds, PTL

=============================================================================

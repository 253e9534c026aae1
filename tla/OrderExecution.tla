--------------------------- MODULE OrderExecution ---------------------------
(***************************************************************************)
(* Transmission of real orders to the Polymarket CLOB:                     *)
(* src/src/execution_polymarket.py.                                        *)
(*                                                                         *)
(* Callers (threads or processes) run submit_order, reconcile_order and    *)
(* cancel_order.  They share data/orders.jsonl, the lock that only         *)
(* submit_order takes, and the exchange, reached over a network that       *)
(* delays and loses requests and replies.  A caller may die between any    *)
(* two steps: what it appended to the ledger stays, the operating system   *)
(* releases its lock.                                                      *)
(*                                                                         *)
(* The ledger only grows and is only read through order_view, so "orders"  *)
(* holds, for every local order, the view order_view rebuilds; that a row  *)
(* changes the view as Folded says is proved in OrderExecutionProofs.      *)
(* Position o of the sequence is the local_order_id of the o-th            *)
(* order_created row.  The terms of an order (token, side, price, size)    *)
(* are abstracted to its size, the one reconcile_order computes with.      *)
(***************************************************************************)
EXTENDS OrderLedger

CONSTANTS
    Bets,      \* ids of bets recorded with real=True and an approval
    Sizes,     \* sizes an operator may approve an order for
    Callers,   \* threads and processes; each runs one call at a time
    None,      \* Python's None: no holder, no bet, no size_matched
    GoGate     \* what betting.go_gate decides: "NO-GO" on every path today

ASSUME SizesAssumption == Sizes \subseteq Nat \ {0}
ASSUME NoneAssumption  == None \notin Nat \union Bets \union Callers
ASSUME GateAssumption  == GoGate \in {"GO", "NO-GO"}

VARIABLES
    orders,    \* order_view of every local order, in order of creation
    lock,      \* holder of _ORDERS_LOCK and of the lock file of orders.jsonl
    call,      \* what each caller is doing, with the locals it holds
    wire,      \* post_order requests on their way to the exchange
    exchange   \* orders the exchange knows; the position is the exchange id

vars == <<orders, lock, call, wire, exchange>>

-----------------------------------------------------------------------------
(* Data.                                                                   *)

TerminalStates == {"FILLED", "CANCELLED", "REJECTED", "RECONCILED"}
\* Those that are only recorded upon an answer of the exchange that says so.
ReadAsClosed == TerminalStates \ {"CANCELLED"}
States == TerminalStates \union
          {"CREATED", "SUBMITTED", "ACCEPTED", "PARTIALLY_FILLED", "UNKNOWN"}

Matched == Nat \union {None}    \* size_matched

OrderView == [bet: Bets, size: Sizes, state: States, xid: Nat, matched: Matched]
ExchangeOrder == [bet: Bets, size: Sizes, matched: Nat,
                  status: {"live", "matched", "cancelled", "unmatched"}]
Request == [caller: Callers, bet: Bets, size: Sizes]

\* A reply of post_order.  "delayed" is read like "live"; "other" is every
\* status the code does not recognise, and a reply that is not a dict.
PostReply == [success: {"true", "false", "absent"},
              status: {"matched", "live", "unmatched", "other"}, xid: Nat]
NoReply == [success |-> "absent", status |-> "other", xid |-> NoId]

\* The locals of the three calls in one record: the bet and size passed to
\* submit_order or the size in the view of reconcile_order, the local order,
\* its exchange id, the reply of post_order, the state and fill to record.
Locals == [pc: {"idle", "lock", "create", "client", "post", "await", "answered",
                "query", "resolved", "cancel", "cancelled"},
           bet: Bets \union {None}, size: Nat, order: Nat, xid: Nat,
           reply: PostReply, state: States, matched: Matched]
Idle == [pc |-> "idle", bet |-> None, size |-> 0, order |-> 0, xid |-> NoId,
         reply |-> NoReply, state |-> "UNKNOWN", matched |-> None]

TypeOK ==
    /\ orders \in Seq(OrderView)
    /\ lock \in Callers \union {None}
    /\ call \in [Callers -> Locals]
    /\ wire \subseteq Request
    /\ exchange \in Seq(ExchangeOrder)

Init ==
    /\ orders = <<>>
    /\ lock = None
    /\ call = [c \in Callers |-> Idle]
    /\ wire = {}
    /\ exchange = <<>>

-----------------------------------------------------------------------------
(* The ledger.                                                             *)

\* The views after a row of order o was appended to the ledger.
Recorded(o, state, xid, matched) ==
    [orders EXCEPT ![o] =
        Folded(orders[o], [state |-> state, xid |-> xid, matched |-> matched])]

\* Faulty variant of OrdersOf: the rows are not filtered by bet_id.
EveryOrder(b) == DOMAIN orders

OrdersOf(b) == {o \in DOMAIN orders : orders[o].bet = b}

\* The order of the first order_created row of the bet.
ExistingOrderForBet(b) ==
    CHOOSE o \in OrdersOf(b) : \A p \in OrdersOf(b) : o <= p

-----------------------------------------------------------------------------
(* Reading the replies of the exchange.                                    *)

\* Faulty variant: an order that rests in the book is taken for filled.
ReadLiveAsFilled(reply, requested) ==
    IF reply.success # "false" /\ reply.status \in {"matched", "live"}
    THEN [state |-> "FILLED", matched |-> requested]
    ELSE [state |-> "UNKNOWN", matched |-> None]

InterpretPostOrderResponse(reply, requested) ==
    IF reply.success = "false" THEN [state |-> "REJECTED", matched |-> None]
    ELSE IF reply.status = "matched" THEN [state |-> "FILLED", matched |-> requested]
    ELSE IF reply.status = "live" THEN [state |-> "ACCEPTED", matched |-> 0]
    ELSE IF reply.status = "unmatched" THEN [state |-> "REJECTED", matched |-> None]
    ELSE IF reply.success = "true" /\ reply.xid # NoId
         THEN [state |-> "ACCEPTED", matched |-> None]
    ELSE [state |-> "UNKNOWN", matched |-> None]

\* Faulty variants: the status of the exchange is recorded as it is; a live
\* order with any fill is taken for filled.
StatusAsItIs(status, matched, requested) == [state |-> status, matched |-> matched]
AnyFillIsAll(status, matched, requested) ==
    [state |-> IF matched \notin {None, 0} THEN "FILLED" ELSE "ACCEPTED",
     matched |-> matched]

InterpretOrderStatus(status, matched, requested) ==
    IF status = "cancelled" THEN [state |-> "CANCELLED", matched |-> matched]
    ELSE IF status = "matched"
         THEN [state |-> "FILLED",
               matched |-> IF matched = None THEN requested ELSE matched]
    ELSE IF status = "live"
         THEN [state |-> IF matched = None \/ matched = 0 THEN "ACCEPTED"
                         ELSE IF matched >= requested THEN "FILLED"
                         ELSE "PARTIALLY_FILLED",
               matched |-> matched]
    ELSE IF status = "unmatched" THEN [state |-> "REJECTED", matched |-> matched]
    ELSE [state |-> "UNKNOWN", matched |-> matched]

-----------------------------------------------------------------------------
(* submit_order.                                                           *)

\* The call passes its layers: arguments, gate, real bet, approval of the bet
\* and of the terms, live trading opt-in.  A call that fails one raises
\* before it touches anything.  An approval can be issued anew at any time,
\* so a later call for the same bet may come with other approved terms.
SubmitCall(c) ==
    /\ call[c].pc = "idle"
    /\ GoGate = "GO"
    /\ \E b \in Bets, s \in Sizes :
        call' = [call EXCEPT ![c] = [Idle EXCEPT !.pc = "lock", !.bet = b, !.size = s]]
    /\ UNCHANGED <<orders, lock, wire, exchange>>

\* Under the lock: an order that left CREATED is returned as it is.
SubmitReturnsExisting(c) ==
    /\ call[c].pc = "lock"
    /\ lock = None
    /\ OrdersOf(call[c].bet) # {}
    /\ orders[ExistingOrderForBet(call[c].bet)].state # "CREATED"
    /\ call' = [call EXCEPT ![c] = Idle]
    /\ UNCHANGED <<orders, lock, wire, exchange>>

\* Faulty variant: an order whose outcome is UNKNOWN is resumed, too.
ResumesUnknown(c) ==
    LET o == ExistingOrderForBet(call[c].bet) IN
    /\ call[c].pc = "lock"
    /\ lock = None
    /\ OrdersOf(call[c].bet) # {}
    /\ orders[o].state \in {"CREATED", "UNKNOWN"}
    /\ lock' = c
    /\ call' = [call EXCEPT ![c].pc = "client", ![c].order = o]
    /\ UNCHANGED <<orders, wire, exchange>>

\* An order still in CREATED is resumed.
SubmitResumes(c) ==
    /\ call[c].pc = "lock"
    /\ lock = None
    /\ OrdersOf(call[c].bet) # {}
    /\ orders[ExistingOrderForBet(call[c].bet)].state = "CREATED"
    /\ lock' = c
    /\ call' = [call EXCEPT ![c].pc = "client",
                            ![c].order = ExistingOrderForBet(call[c].bet)]
    /\ UNCHANGED <<orders, wire, exchange>>

\* Faulty variant: the ledger is read without the lock.
FindsNoneUnlocked(c) ==
    /\ call[c].pc = "lock"
    /\ OrdersOf(call[c].bet) = {}
    /\ lock' = c
    /\ call' = [call EXCEPT ![c].pc = "create"]
    /\ UNCHANGED <<orders, wire, exchange>>

SubmitFindsNone(c) ==
    /\ call[c].pc = "lock"
    /\ lock = None
    /\ OrdersOf(call[c].bet) = {}
    /\ lock' = c
    /\ call' = [call EXCEPT ![c].pc = "create"]
    /\ UNCHANGED <<orders, wire, exchange>>

SubmitCreate(c) ==
    /\ call[c].pc = "create"
    /\ orders' = Append(orders, [bet |-> call[c].bet, size |-> call[c].size,
                                 state |-> "CREATED", xid |-> NoId, matched |-> None])
    /\ call' = [call EXCEPT ![c].pc = "client", ![c].order = Len(orders) + 1]
    /\ UNCHANGED <<lock, wire, exchange>>

\* Faulty variant: the intention to transmit is not written down.
TransmitsUnmarked(c) ==
    /\ call[c].pc = "client"
    /\ call' = [call EXCEPT ![c].pc = "post"]
    /\ UNCHANGED <<orders, lock, wire, exchange>>

\* client_factory returned; the intention to transmit is made durable.
SubmitMarkSubmitted(c) ==
    /\ call[c].pc = "client"
    /\ orders' = Recorded(call[c].order, "SUBMITTED", NoId, None)
    /\ call' = [call EXCEPT ![c].pc = "post"]
    /\ UNCHANGED <<lock, wire, exchange>>

SubmitTransmit(c) ==
    /\ call[c].pc = "post"
    /\ wire' = wire \union {[caller |-> c, bet |-> call[c].bet, size |-> call[c].size]}
    /\ call' = [call EXCEPT ![c].pc = "await"]
    /\ UNCHANGED <<orders, lock, exchange>>

\* Faulty variant: an exception leaves the lock taken.
FailsWithLock(c) ==
    /\ call[c].pc \in {"await", "answered"}
    /\ orders' = Recorded(call[c].order, "UNKNOWN", NoId, None)
    /\ call' = [call EXCEPT ![c] = Idle]
    /\ UNCHANGED <<lock, wire, exchange>>

\* transmit raised: a time-out, a lost connection, a reply that got lost.
SubmitTransmitFails(c) ==
    /\ call[c].pc \in {"await", "answered"}
    /\ orders' = Recorded(call[c].order, "UNKNOWN", NoId, None)
    /\ lock' = None
    /\ call' = [call EXCEPT ![c] = Idle]
    /\ UNCHANGED <<wire, exchange>>

SubmitResult(c) ==
    /\ call[c].pc = "answered"
    /\ LET row == InterpretPostOrderResponse(call[c].reply, call[c].size) IN
        orders' = Recorded(call[c].order, row.state, call[c].reply.xid, row.matched)
    /\ lock' = None
    /\ call' = [call EXCEPT ![c] = Idle]
    /\ UNCHANGED <<wire, exchange>>

-----------------------------------------------------------------------------
(* reconcile_order and cancel_order take no lock: each reads the view,     *)
(* talks to the exchange, then appends a row, and the ledger may have      *)
(* changed in between.                                                     *)

\* The order may still be reconciled or cancelled: it is not terminal (a
\* no-op otherwise) and has an exchange id (an exception otherwise).
Actionable(o) ==
    /\ orders[o].state \notin TerminalStates
    /\ orders[o].xid # NoId

BeginCall(c, o, pc) ==
    /\ call[c].pc = "idle"
    /\ Actionable(o)
    /\ call' = [call EXCEPT ![c] = [Idle EXCEPT !.pc = pc, !.order = o,
                                               !.size = orders[o].size,
                                               !.xid = orders[o].xid]]
    /\ UNCHANGED <<orders, lock, wire, exchange>>

ReconcileCall(c) == \E o \in DOMAIN orders : BeginCall(c, o, "query")

\* get_order: the status may be one the code does not know, size_matched may
\* be missing.
ReconcileQuery(c) ==
    /\ call[c].pc = "query"
    /\ LET known == exchange[call[c].xid] IN
       \E status \in {known.status, "other"}, matched \in {known.matched, None} :
        LET row == InterpretOrderStatus(status, matched, call[c].size) IN
        call' = [call EXCEPT ![c].pc = "resolved",
                             ![c].state = IF row.state \in TerminalStates
                                          THEN "RECONCILED" ELSE row.state,
                             ![c].matched = row.matched]
    /\ UNCHANGED <<orders, lock, wire, exchange>>

ReconcileRecord(c) ==
    /\ call[c].pc = "resolved"
    /\ orders' = Recorded(call[c].order, call[c].state, call[c].xid, call[c].matched)
    /\ call' = [call EXCEPT ![c] = Idle]
    /\ UNCHANGED <<lock, wire, exchange>>

CancelCall(c) == \E o \in DOMAIN orders : BeginCall(c, o, "cancel")

\* What is left of an order can be bought or sold on the exchange.
Open(x) == exchange[x].status = "live" /\ exchange[x].matched < exchange[x].size

\* The exchange may cancel an open order, or answer that it did not: because
\* the order is not open, or for a reason of its own.  cancel_order keeps the
\* answer in its row but does not look at it, so that both go on alike.
CancelSend(c) ==
    /\ call[c].pc = "cancel"
    /\ \/ /\ Open(call[c].xid)
          /\ exchange' = [exchange EXCEPT ![call[c].xid].status = "cancelled"]
       \/ UNCHANGED exchange
    /\ call' = [call EXCEPT ![c].pc = "cancelled"]
    /\ UNCHANGED <<orders, lock, wire>>

CancelRecord(c) ==
    /\ call[c].pc = "cancelled"
    /\ orders' = Recorded(call[c].order, "CANCELLED", call[c].xid, None)
    /\ call' = [call EXCEPT ![c] = Idle]
    /\ UNCHANGED <<lock, wire, exchange>>

\* The caller dies, or client_factory, get_order or cancel raises: the locals
\* are gone and the lock, if held, is released.
Abort(c) ==
    /\ call[c].pc # "idle"
    /\ call' = [call EXCEPT ![c] = Idle]
    /\ lock' = IF lock = c THEN None ELSE lock
    /\ UNCHANGED <<orders, wire, exchange>>

-----------------------------------------------------------------------------
(* The network and the exchange, as the code uses them.                    *)

RequestLost(m) ==
    /\ wire' = wire \ {m}
    /\ UNCHANGED <<orders, lock, call, exchange>>

\* The exchange answers with a reply the code can read or not; the caller
\* sees it only if it still waits for it.
Answer(m, reply) ==
    call' = IF call[m.caller].pc = "await" /\ call[m.caller].bet = m.bet
            THEN [call EXCEPT ![m.caller].pc = "answered", ![m.caller].reply = reply]
            ELSE call

Placed(m, status) ==
    [bet |-> m.bet, size |-> m.size, status |-> status,
     matched |-> IF status = "matched" THEN m.size ELSE 0]

\* The exchange takes the order, at whatever moment the request arrives:
\* it rests in the book, is filled at once, or is refused and keeps an id.
ExchangePlaces(m) ==
    \E status \in {"live", "matched", "unmatched"} :
        /\ exchange' = Append(exchange, Placed(m, status))
        /\ \E read \in {status, "other"} :
            \/ Answer(m, [success |-> "true", status |-> read, xid |-> Len(exchange) + 1])
            \/ Answer(m, NoReply)
        /\ wire' = wire \ {m}
        /\ UNCHANGED <<orders, lock>>

ExchangeRefuses(m) ==
    /\ wire' = wire \ {m}
    /\ Answer(m, [NoReply EXCEPT !.success = "false"])
    /\ UNCHANGED <<orders, lock, exchange>>

ExchangeFills(x) ==
    /\ Open(x)
    /\ exchange' = [exchange EXCEPT ![x].matched = @ + 1]
    /\ UNCHANGED <<orders, lock, call, wire>>

\* A full order is reported as matched some time after its last fill; what
\* is left of an open one may be cancelled by the exchange itself.
ExchangeCloses(x) ==
    /\ exchange[x].status = "live"
    /\ exchange' = [exchange EXCEPT ![x].status =
                        IF Open(x) THEN "cancelled" ELSE "matched"]
    /\ UNCHANGED <<orders, lock, call, wire>>

-----------------------------------------------------------------------------
SubmitStep(c) ==
    \/ SubmitReturnsExisting(c) \/ SubmitResumes(c) \/ SubmitFindsNone(c)
    \/ SubmitCreate(c) \/ SubmitMarkSubmitted(c) \/ SubmitTransmit(c)
    \/ SubmitTransmitFails(c) \/ SubmitResult(c)

CallStep(c) ==
    \/ SubmitStep(c)
    \/ ReconcileQuery(c) \/ ReconcileRecord(c)
    \/ CancelSend(c) \/ CancelRecord(c)

Begin(c) == SubmitCall(c) \/ ReconcileCall(c) \/ CancelCall(c)

Environment ==
    \/ \E m \in wire : RequestLost(m) \/ ExchangePlaces(m) \/ ExchangeRefuses(m)
    \/ \E x \in DOMAIN exchange : ExchangeFills(x) \/ ExchangeCloses(x)

Next == (\E c \in Callers : Begin(c) \/ CallStep(c) \/ Abort(c)) \/ Environment

\* A caller that is running keeps running: transmit returns or raises.
\* Nobody has to start a call, and neither the network nor the exchange has
\* to do anything.
Fairness == \A c \in Callers : WF_vars(CallStep(c))

Spec == Init /\ [][Next]_vars /\ Fairness

-----------------------------------------------------------------------------
(* Properties.                                                             *)

\* The same bet is never sent to the exchange twice, counting the requests
\* that may still arrive, whatever crashes, time-outs and retries happen
\* (layer 4 of submit_order, "o mesmo bet nunca e submetido duas vezes").
AtMostOnePlacement ==
    /\ \A x, y \in DOMAIN exchange : exchange[x].bet = exchange[y].bet => x = y
    /\ \A m, n \in wire : m.bet = n.bet => m = n
    /\ \A m \in wire, x \in DOMAIN exchange : exchange[x].bet # m.bet

\* Whatever is or may get on the exchange was first made durable as SUBMITTED:
\* after a crash the ledger never offers to resume an order that was sent.
SentOnlyAfterSubmitted ==
    \A b \in Bets :
        (\E m \in wire : m.bet = b) \/ (\E x \in DOMAIN exchange : exchange[x].bet = b)
        => /\ OrdersOf(b) # {}
           /\ orders[ExistingOrderForBet(b)].state # "CREATED"

\* The exchange id a local order carries is the id of its own bet, so that
\* reconcile_order and cancel_order never act on the order of another bet.
IdBelongsToOrder ==
    \A o \in DOMAIN orders :
        orders[o].xid # NoId =>
            /\ orders[o].xid \in DOMAIN exchange
            /\ exchange[orders[o].xid].bet = orders[o].bet

\* The terms in the order_created row are those that were transmitted.
SameTerms(o) == orders[o].size = exchange[orders[o].xid].size

\* The ledger never claims a larger fill than the exchange has made, though
\* replies are read late and recorded later (orders with unchanged terms).
FillIsNotOverstated ==
    \A o \in DOMAIN orders :
        (orders[o].xid # NoId /\ SameTerms(o) /\ orders[o].matched # None)
            => orders[o].matched <= exchange[orders[o].xid].matched

\* An order on record as ended by what the exchange answered is not open there:
\* nothing would look at it again.  Answers are recorded late, and after those
\* of other calls (orders with unchanged terms).  CANCELLED is no such state:
\* cancel_order records it whatever the exchange answered (line 559).
ReadAsClosedMeansClosed ==
    \A o \in DOMAIN orders :
        (orders[o].xid # NoId /\ SameTerms(o) /\ orders[o].state \in ReadAsClosed)
            => ~Open(orders[o].xid)

\* Without the restriction to unchanged terms: RECONCILED is an outcome confirmed
\* against the exchange (docstring, line 37).
ReconciledIsConfirmed ==
    \A o \in DOMAIN orders :
        orders[o].state = "RECONCILED" => ~Open(orders[o].xid)

\* reconcile_order and cancel_order are no-ops on a terminal order
\* (docs/EXECUTION_POLYMARKET.md:61-63): its view never changes again.
TerminalIsFinal ==
    [][\A o \in DOMAIN orders :
        orders[o].state \in TerminalStates => orders'[o] = orders[o]]_orders

\* No failure leaves the submissions of every process blocked: whoever holds
\* the lock releases it, by an outcome, an exception or its death.
LockIsReleased == \A c \in Callers : lock = c ~> lock # c

-----------------------------------------------------------------------------
(* The inductive invariant behind the safety properties above.             *)

Submitting == {"create", "client", "post", "await", "answered"}
Inquiring == {"query", "resolved", "cancel", "cancelled"}

\* Only the holder of the lock is past the idempotency check.
LockProtects == \A c \in Callers : call[c].pc \in Submitting => lock = c

\* A bet has one local order: who is about to create one found none.
OneOrderPerBet ==
    /\ \A o, p \in DOMAIN orders : orders[o].bet = orders[p].bet => o = p
    /\ \A c \in Callers : call[c].pc = "create" =>
        \A o \in DOMAIN orders : orders[o].bet # call[c].bet

\* The locals of a submission speak of the order of its own bet, which left
\* CREATED before anything was transmitted.
SubmissionLocals ==
    \A c \in Callers :
        /\ call[c].pc \in Submitting \union {"lock"} =>
            call[c].bet \in Bets /\ call[c].size \in Sizes
        /\ call[c].pc \in Submitting \ {"create"} =>
            /\ call[c].order \in DOMAIN orders
            /\ orders[call[c].order].bet = call[c].bet
            /\ orders[call[c].order].xid = NoId
            /\ (orders[call[c].order].state = "CREATED") <=> (call[c].pc = "client")
        /\ call[c].pc = "post" =>
            /\ \A m \in wire : m.bet # call[c].bet
            /\ \A x \in DOMAIN exchange : exchange[x].bet # call[c].bet
        /\ (call[c].pc = "answered" /\ call[c].reply.xid # NoId) =>
            /\ call[c].reply.xid \in DOMAIN exchange
            /\ exchange[call[c].reply.xid].bet = call[c].bet

\* A call that reconciles or cancels holds the exchange id of its order, and
\* writes no state that would let submit_order resume it.
InquiryLocals ==
    \A c \in Callers : call[c].pc \in Inquiring =>
        /\ call[c].order \in DOMAIN orders
        /\ call[c].xid = orders[call[c].order].xid
        /\ call[c].xid # NoId
        /\ call[c].state # "CREATED"

\* What was sent belongs to an order that left CREATED, and an order in
\* CREATED has no exchange id.
SentIsCommitted ==
    /\ \A m \in wire : \E o \in DOMAIN orders :
        orders[o].bet = m.bet /\ orders[o].state # "CREATED"
    /\ \A x \in DOMAIN exchange : \E o \in DOMAIN orders :
        orders[o].bet = exchange[x].bet /\ orders[o].state # "CREATED"
    /\ \A o \in DOMAIN orders : orders[o].state = "CREATED" => orders[o].xid = NoId

IInv ==
    /\ TypeOK
    /\ LockProtects
    /\ OneOrderPerBet
    /\ SubmissionLocals
    /\ InquiryLocals
    /\ SentIsCommitted
    /\ AtMostOnePlacement
    /\ IdBelongsToOrder

\* The exchange fills no order beyond its size, and one it reports as matched
\* is full.
ExchangeFits ==
    \A x \in DOMAIN exchange :
        /\ exchange[x].matched <= exchange[x].size
        /\ exchange[x].status = "matched" => exchange[x].matched = exchange[x].size

\* What a submission waits for has the terms it sent; a reply with an id tells
\* of that order, and what it tells cannot change any more.
ReplyFits(c) ==
    /\ call[c].pc = "await" =>
        \A m \in wire : m.bet = call[c].bet => m.size = call[c].size
    /\ (call[c].pc = "answered" /\ call[c].reply.xid # NoId) =>
        LET known == exchange[call[c].reply.xid] IN
        /\ call[c].reply.success = "true" /\ known.size = call[c].size
        /\ call[c].reply.status \in {"matched", "unmatched"} =>
            known.status = call[c].reply.status

\* An answer of the exchange that a reconciliation has not recorded yet still
\* holds: fills only grow, and what is closed stays closed.
AnswerFits(c) ==
    /\ call[c].pc \in Inquiring => call[c].size = orders[call[c].order].size
    /\ (call[c].pc = "resolved" /\ call[c].size = exchange[call[c].xid].size) =>
        /\ call[c].matched # None => call[c].matched <= exchange[call[c].xid].matched
        /\ call[c].state \in ReadAsClosed => ~Open(call[c].xid)

FillIInv ==
    /\ ExchangeFits /\ FillIsNotOverstated /\ ReadAsClosedMeansClosed
    /\ \A c \in Callers : ReplyFits(c) /\ AnswerFits(c)

\* With the gate at NO-GO, as betting.go_gate has it, the module is inert:
\* no order is created, nothing is transmitted, nothing is on the exchange
\* (docs/EXECUTION_POLYMARKET.md:8-17).
InertWhileGateClosed ==
    GoGate = "NO-GO" => /\ orders = <<>> /\ exchange = <<>> /\ wire = {}
                        /\ \A c \in Callers : call[c] = Idle
=============================================================================

----------------------------- MODULE PaperBroker -----------------------------
(***************************************************************************)
(* The in-memory paper broker (src/brokers/paper_broker.py).               *)
(*                                                                         *)
(* The broker is called by asyncio tasks.  A task runs without             *)
(* interruption except at one await that really suspends: the              *)
(* data_provider.get_quote call in _get_reference_price.  A task is        *)
(*   "idle"   not inside the broker,                                       *)
(*   "fetch"  suspended in get_quote, about to execute order task[t].id,   *)
(*   "run"    holding the event loop in the for loop of                    *)
(*            _check_pending_orders, between two orders of to_fill.        *)
(* While a task is in "run" nobody else moves (LoopFree), so the steps of  *)
(* one pass that are not separated by a suspension are atomic, as in the   *)
(* code.                                                                   *)
(*                                                                         *)
(* Order ids are the serial numbers of the place_order calls: the code     *)
(* draws fresh uuids, and the insertion order of the _pending_orders dict  *)
(* is the order in which the pending orders were placed.  Prices are       *)
(* integers (ticks); cash is counted in hundredths of a tick, which makes  *)
(* the percentage commission exact.                                        *)
(***************************************************************************)
EXTENDS Integers, FiniteSets, FiniteSetsExt

CONSTANTS
    Symbols,          \* the instruments
    Tasks,            \* asyncio tasks that call into the broker
    MaxOrders,        \* bound: number of place_order calls in a behaviour
    Requests,         \* the OrderRequests callers submit
    Updates,          \* the updates given to modify_order
    NoRequest,        \* "no order has this id yet"
    NoPrice,          \* None: an absent limit_price, stop_price or update
    Prices,           \* quotes of the data provider and of the price feed
    Placeholder,      \* the 100.0 of _get_reference_price
    HasProvider,      \* is a data provider injected?
    InitialCapital,   \* in ticks
    CommissionPct,    \* commission in percent of the order value
    HalfSpread,       \* half of the simulated spread, in ticks
    MaxSlippage       \* largest simulated slippage, in ticks

OrderIds == 1 .. MaxOrders
Sides    == {"buy", "sell"}
Types    == {"market", "limit", "stop", "stop_limit", "trailing_stop"}
Statuses == {"none", "submitted", "filled", "cancelled", "rejected"}

Request == [symbol   : Symbols,
            side     : Sides,
            type     : Types,
            quantity : Int,
            trigger  : Nat \cup {NoPrice},   \* limit_price or stop_price
            stopLoss : Nat \cup {NoPrice}]

Update == [limit : Nat \cup {NoPrice}, quantity : Int \cup {NoPrice}]

ASSUME BrokerConstants ==
    /\ MaxOrders \in Nat
    /\ Requests \subseteq Request
    /\ Updates \subseteq Update
    /\ NoRequest \notin Requests
    /\ Prices \subseteq Nat
    /\ Placeholder \in Nat
    /\ HasProvider \in BOOLEAN
    /\ InitialCapital \in Nat
    /\ CommissionPct \in 0 .. 100
    /\ HalfSpread \in Nat
    /\ MaxSlippage \in Nat

VARIABLES
    cash,        \* _cash
    position,    \* _positions: a symbol is a key iff its quantity is not 0
    order,       \* _orders: status "none" when the id is not a key
    pending,     \* keys of _pending_orders
    tradeCount,  \* _trade_count
    placed,      \* number of place_order calls so far
    request,     \* the OrderRequest each id was placed with
    task         \* control state of the tasks

vars == <<cash, position, order, pending, tradeCount, placed, request, task>>
account == <<cash, position, order, tradeCount>>

-----------------------------------------------------------------------------
(* Data *)

\* Average entry prices are exact fractions.
Zero == [num |-> 0, den |-> 1]
Flat == [qty |-> 0, price |-> 0, avg |-> Zero]
NoOrder == [status |-> "none", quantity |-> 0, limit |-> NoPrice,
            fill |-> 0]
Idle == [pc |-> "idle", id |-> 0, todo |-> {}]
Fetching(id, todo) == [pc |-> "fetch", id |-> id, todo |-> todo]
Looping(todo) == IF todo = {} THEN Idle
                 ELSE [pc |-> "run", id |-> 0, todo |-> todo]

Held(s) == position[s].qty # 0
Open(id) == order[id].status = "submitted"
Filled(id) == order[id].status = "filled"
Executed(id) == order[id].status \in {"filled", "rejected"}
LoopFree == \A t \in Tasks : task[t].pc # "run"

Floor(x) == IF x > 0 THEN x ELSE 0

\* Spread against the trader, then 0 .. MaxSlippage more against the trader.
FillPrices(side, ref) ==
    IF side = "buy"
      THEN ref + HalfSpread .. ref + HalfSpread + MaxSlippage
      ELSE Floor(ref - HalfSpread - MaxSlippage) .. Floor(ref - HalfSpread)

OrderValue(r, f) == 100 * (f * r.quantity)
Commission(r, f) == CommissionPct * (f * r.quantity)

\* What a fill of r at price f adds to the cash.
CashFlow(r, f) == IF r.side = "buy" THEN -(OrderValue(r, f) + Commission(r, f))
                                    ELSE OrderValue(r, f) - Commission(r, f)

SignedQty(r) == IF r.side = "buy" THEN r.quantity ELSE -r.quantity

\* Mutant: the new average ignores the quantities.
NewPositionPlainMean(pos, r, f) ==
    LET qty == pos.qty + SignedQty(r)
    IN  IF qty = 0 THEN Flat
        ELSE [qty |-> qty, price |-> f,
              avg |-> CASE r.side = "sell" -> pos.avg
                        [] r.side = "buy" /\ pos.qty = 0 ->
                             [num |-> f, den |-> 1]
                        [] OTHER -> [num |-> pos.avg.num + f * pos.avg.den,
                                     den |-> 2 * pos.avg.den]]

\* _update_position
NewPosition(pos, r, f) ==
    LET qty == pos.qty + SignedQty(r)
        avg == CASE r.side = "sell" -> pos.avg
                 [] r.side = "buy" /\ qty > 0 ->
                      [num |-> pos.avg.num * pos.qty
                                 + f * r.quantity * pos.avg.den,
                       den |-> pos.avg.den * qty]
                 [] OTHER -> Zero
    IN  IF qty = 0 THEN Flat ELSE [qty |-> qty, price |-> f, avg |-> avg]

ValidOrder(r) ==
    /\ r.quantity > 0
    /\ r.type \in {"limit", "stop"} => r.trigger # NoPrice

\* The trigger test of _check_pending_orders; other types never trigger.
Triggered(r, p) ==
    LET at == IF r.trigger = NoPrice THEN 0 ELSE r.trigger
    IN  \/ r.type = "limit" /\ r.side = "buy"  /\ p <= at
        \/ r.type = "limit" /\ r.side = "sell" /\ p >= at
        \/ r.type = "stop"  /\ r.side = "buy"  /\ p >= at
        \/ r.type = "stop"  /\ r.side = "sell" /\ p <= at

-----------------------------------------------------------------------------
(* _execute_market_order from the moment the reference price is known *)

Reject(id, r) ==
    /\ order' = [order EXCEPT ![id] = [NoOrder EXCEPT !.status = "rejected",
                                                     !.quantity = r.quantity]]
    /\ UNCHANGED <<cash, position, tradeCount>>

\* Mutant: sales are credited without the commission being taken off.
FillCommissionFreeSales(id, r, f) ==
    /\ position' = [position EXCEPT ![r.symbol] = NewPosition(@, r, f)]
    /\ cash' = cash + IF r.side = "sell" THEN OrderValue(r, f) ELSE CashFlow(r, f)
    /\ tradeCount' = tradeCount + 1
    /\ order' = [order EXCEPT ![id] =
                   [status |-> "filled", quantity |-> r.quantity,
                    limit |-> NoPrice, fill |-> f]]

Fill(id, r, f) ==
    /\ position' = [position EXCEPT ![r.symbol] = NewPosition(@, r, f)]
    /\ cash' = cash + CashFlow(r, f)
    /\ tradeCount' = tradeCount + 1
    /\ order' = [order EXCEPT ![id] =
                   [status |-> "filled", quantity |-> r.quantity,
                    limit |-> NoPrice, fill |-> f]]

\* The funds check and the debit are one step: nothing suspends in between.
Execute(id, r, ref) ==
    \E f \in FillPrices(r.side, ref) :
      IF r.side = "buy" /\ cash + CashFlow(r, f) < 0
        THEN Reject(id, r)
        ELSE Fill(id, r, f)

\* _get_reference_price: only a symbol that is not held is asked for.
NeedsQuote(s) == ~Held(s) /\ HasProvider
KnownPrice(s) == IF Held(s) THEN position[s].price ELSE Placeholder

\* Start the execution of order id by task t, the rest of its pass being
\* todo: suspend in get_quote, or execute at once.
StartExecution(t, id, r, todo) ==
    IF NeedsQuote(r.symbol)
      THEN /\ task' = [task EXCEPT ![t] = Fetching(id, todo)]
           /\ UNCHANGED account
      ELSE /\ Execute(id, r, KnownPrice(r.symbol))
           /\ task' = [task EXCEPT ![t] = Looping(todo)]

-----------------------------------------------------------------------------
(* Operations *)

\* Mutant: the order id is taken from the trade counter.
PlaceMarketIdFromTradeCount(t, r) ==
    LET id == tradeCount + 1
    IN  /\ LoopFree /\ task[t] = Idle
        /\ placed < MaxOrders
        /\ ValidOrder(r) /\ r.type = "market"
        /\ placed' = placed + 1
        /\ request' = [request EXCEPT ![id] = r]
        /\ StartExecution(t, id, r, {})
        /\ UNCHANGED pending

\* place_order with a MARKET request.
PlaceMarket(t, r) ==
    LET id == placed + 1
    IN  /\ LoopFree /\ task[t] = Idle
        /\ placed < MaxOrders
        /\ ValidOrder(r) /\ r.type = "market"
        /\ placed' = id
        /\ request' = [request EXCEPT ![id] = r]
        /\ StartExecution(t, id, r, {})
        /\ UNCHANGED pending

\* place_order with any other type: _create_pending_order never suspends.
PlacePending(r) ==
    LET id == placed + 1
    IN  /\ LoopFree
        /\ placed < MaxOrders
        /\ ValidOrder(r) /\ r.type # "market"
        /\ placed' = id
        /\ request' = [request EXCEPT ![id] = r]
        /\ order' = [order EXCEPT ![id] =
                       [NoOrder EXCEPT !.status = "submitted",
                                       !.quantity = r.quantity,
                                       !.limit = r.trigger]]
        /\ pending' = pending \cup {id}
        /\ UNCHANGED <<cash, position, tradeCount, task>>

\* get_quote returns a quote, or raises and the placeholder is used; the
\* task resumes, executes its order and goes on with its pass.
QuoteArrives(t) ==
    LET id == task[t].id
    IN  /\ LoopFree /\ task[t].pc = "fetch"
        /\ \E ref \in Prices \cup {Placeholder} : Execute(id, request[id], ref)
        /\ task' = [task EXCEPT ![t] = Looping(@.todo)]
        /\ UNCHANGED <<pending, placed, request>>

\* The task of a place_order call is cancelled while it waits for the quote
\* (MarketMonitor.stop): get_quote raises CancelledError, which
\* _get_reference_price does not catch, and nothing is recorded.
AbandonPlace(t) ==
    /\ LoopFree /\ task[t].pc = "fetch"
    /\ request[task[t].id].type = "market"
    /\ task' = [task EXCEPT ![t] = Idle]
    /\ UNCHANGED <<account, pending, placed, request>>

\* Mutant: pending orders are checked only for symbols that are held.
UpdatePriceHeldOnly(t, s, p) ==
    LET todo == {id \in pending : /\ request[id].symbol = s
                                  /\ Triggered(request[id], p)}
    IN  /\ LoopFree /\ task[t] = Idle
        /\ Held(s)
        /\ position' = [position EXCEPT ![s].price = p]
        /\ task' = [task EXCEPT ![t] = Looping(todo)]
        /\ UNCHANGED <<cash, order, tradeCount, pending, placed, request>>

\* update_price up to the first step of the loop over to_fill.
UpdatePrice(t, s, p) ==
    LET todo == {id \in pending : /\ request[id].symbol = s
                                  /\ Triggered(request[id], p)}
    IN  /\ LoopFree /\ task[t] = Idle
        /\ position' = IF Held(s) THEN [position EXCEPT ![s].price = p]
                                  ELSE position
        /\ task' = [task EXCEPT ![t] = Looping(todo)]
        /\ UNCHANGED <<cash, order, tradeCount, pending, placed, request>>

\* Mutant: the request is read but not popped.
FillNextWithoutPop(t) ==
    /\ task[t].pc = "run"
    /\ LET id == Min(task[t].todo)
       IN  /\ id \in pending
           /\ StartExecution(t, id, request[id], task[t].todo \ {id})
    /\ UNCHANGED <<pending, placed, request>>

\* Mutant: the request is popped only when it executes without suspending.
FillNextPopsLate(t) ==
    /\ task[t].pc = "run"
    /\ LET id == Min(task[t].todo)
       IN  /\ id \in pending
           /\ pending' = IF NeedsQuote(request[id].symbol) THEN pending
                         ELSE pending \ {id}
           /\ StartExecution(t, id, request[id], task[t].todo \ {id})
    /\ UNCHANGED <<placed, request>>

\* One iteration of the loop: pop the next id, execute its request.
FillNext(t) ==
    /\ task[t].pc = "run"
    /\ LET id == Min(task[t].todo)
       IN  /\ id \in pending
           /\ pending' = pending \ {id}
           /\ StartExecution(t, id, request[id], task[t].todo \ {id})
    /\ UNCHANGED <<placed, request>>

\* The id was cancelled, or popped by another pass, while this pass was
\* suspended: pop raises KeyError and the rest of to_fill is given up.
FillNextGone(t) ==
    /\ task[t].pc = "run"
    /\ Min(task[t].todo) \notin pending
    /\ task' = [task EXCEPT ![t] = Idle]
    /\ UNCHANGED <<account, pending, placed, request>>

\* Mutant: any order can be cancelled.
CancelAnyOrder(id) ==
    /\ LoopFree
    /\ order[id].status # "none"
    /\ order' = [order EXCEPT ![id].status = "cancelled"]
    /\ pending' = pending \ {id}
    /\ UNCHANGED <<cash, position, tradeCount, placed, request, task>>

\* Mutant: the cancelled order stays in _pending_orders.
CancelWithoutPop(id) ==
    /\ LoopFree
    /\ Open(id)
    /\ order' = [order EXCEPT ![id].status = "cancelled"]
    /\ UNCHANGED <<cash, position, tradeCount, pending, placed, request, task>>

\* cancel_order of an order that exists and is still open.
CancelOrder(id) ==
    /\ LoopFree
    /\ Open(id)
    /\ order' = [order EXCEPT ![id].status = "cancelled"]
    /\ pending' = pending \ {id}
    /\ UNCHANGED <<cash, position, tradeCount, placed, request, task>>

\* modify_order: the OrderResult changes, the pending OrderRequest does not.
ModifyOrder(id, u) ==
    /\ LoopFree
    /\ Open(id)
    /\ order' = [order EXCEPT
                   ![id].limit    = IF u.limit = NoPrice THEN @ ELSE u.limit,
                   ![id].quantity = IF u.quantity = NoPrice THEN @ ELSE u.quantity]
    /\ UNCHANGED <<cash, position, tradeCount, pending, placed, request, task>>

-----------------------------------------------------------------------------
Init ==
    /\ cash = 100 * InitialCapital
    /\ position = [s \in Symbols |-> Flat]
    /\ order = [id \in OrderIds |-> NoOrder]
    /\ pending = {}
    /\ tradeCount = 0
    /\ placed = 0
    /\ request = [id \in OrderIds |-> NoRequest]
    /\ task = [t \in Tasks |-> Idle]

Place == \E r \in Requests : PlacePending(r) \/ \E t \in Tasks : PlaceMarket(t, r)
Resume == \E t \in Tasks : QuoteArrives(t) \/ AbandonPlace(t)
Pass == \E t \in Tasks : FillNext(t) \/ FillNextGone(t)
Feed == \E t \in Tasks, s \in Symbols, p \in Prices : UpdatePrice(t, s, p)
Manage == \E id \in OrderIds :
            \/ CancelOrder(id)
            \/ \E u \in Updates : ModifyOrder(id, u)

Next == Place \/ Resume \/ Pass \/ Feed \/ Manage

Spec == Init /\ [][Next]_vars

\* The event loop never abandons a runnable task, and get_quote returns or
\* raises.  Nothing makes callers place, cancel or report prices.
Fairness == \A t \in Tasks : /\ WF_vars(QuoteArrives(t))
                            /\ WF_vars(FillNext(t) \/ FillNextGone(t))

FairSpec == Spec /\ Fairness

\* A price feed that keeps reporting each of its prices (the caller of
\* update_price; in the repository the bar loop of the backtest).
FeedFairness == \A t \in Tasks, s \in Symbols, p \in Prices :
                  SF_vars(UpdatePrice(t, s, p))

FeedSpec == FairSpec /\ FeedFairness

-----------------------------------------------------------------------------
(* Properties *)

\* Every variable has its type.
TypeOK ==
    /\ cash \in Int
    /\ position \in [Symbols -> [qty : Int, price : Nat,
                                avg : [num : Int, den : Int]]]
    /\ order \in [OrderIds -> [status : Statuses, quantity : Int,
                              limit : Nat \cup {NoPrice}, fill : Nat]]
    /\ pending \in SUBSET OrderIds
    /\ tradeCount \in Nat
    /\ placed \in 0 .. MaxOrders
    /\ request \in [OrderIds -> Requests \cup {NoRequest}]
    /\ task \in [Tasks -> [pc : {"idle", "fetch", "run"},
                          id : 0 .. MaxOrders, todo : SUBSET OrderIds]]

\* No interleaving of callers overdraws the account: the funds check of
\* _execute_market_order still holds when its debit is made.
CashNeverNegative == cash >= 0

FilledIds == {id \in OrderIds : Filled(id)}

\* What the orders reported FILLED have brought in, at the fill prices
\* reported, and the signed quantities they have moved of a symbol.
CashFlows == [id \in FilledIds |-> CashFlow(request[id], order[id].fill)]
Moves(s) == [id \in {i \in FilledIds : request[i].symbol = s} |->
               SignedQty(request[id])]

\* The cash is the initial capital plus the cash flows of exactly the orders
\* reported FILLED: no execution is unrecorded, recorded twice or recorded at
\* another price.
CashReconciles == cash = 100 * InitialCapital + SumFunction(CashFlows)

\* Each position is the net quantity of the FILLED orders for its symbol.
PositionsReconcile ==
    \A s \in Symbols : position[s].qty = SumFunction(Moves(s))

\* The order book and the table of orders agree: what waits in
\* _pending_orders is open, and an order reported open either waits there or
\* was popped by a suspended update_price that is about to execute it.
OpenOrdersAreLive ==
    \A id \in OrderIds :
      /\ id \in pending => Open(id)
      /\ Open(id) => \/ id \in pending
                     \/ \E t \in Tasks : /\ task[t].pc = "fetch"
                                        /\ task[t].id = id

\* An order is executed by one task at a time, not while it still waits and
\* not again once it is filled or rejected.
ExecutedOnce ==
    \A t \in Tasks : task[t].pc = "fetch" =>
      /\ task[t].id \notin pending
      /\ ~Executed(task[t].id)
      /\ \A u \in Tasks \ {t} :
           task[u].pc = "fetch" => task[u].id # task[t].id

\* FILLED and REJECTED are final: no later cancel, modification or pass
\* changes the record of an executed order.
ExecutedOrdersAreFinal ==
    [][\A id \in OrderIds :
         Executed(id) => order'[id] = order[id]]_vars

\* The account as an abstract ledger (see OrderLedger).
Ledger == INSTANCE OrderLedger
            WITH Ids <- OrderIds, Deposit <- 100 * InitialCapital,
                 balance <- cash, settled <- FilledIds
ImplementsLedger == Ledger!Spec

\* A limit or stop order whose price the feed keeps reaching does not stay
\* open for ever, although a pass that meets a missing id gives up the rest
\* of its orders.
TriggeredOrdersResolve ==
    \A id \in OrderIds :
      (Open(id) /\ \E p \in Prices : Triggered(request[id], p)) ~> ~Open(id)

\* What the documentation promises and the code does not do.

\* BrokerAdapter.cancel_order: "Cancel a pending order."
CancelledOrdersStayCancelled ==
    [][\A id \in OrderIds : order[id].status = "cancelled" =>
                              order'[id].status = "cancelled"]_vars
=============================================================================

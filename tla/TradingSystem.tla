---------------------------- MODULE TradingSystem ----------------------------
(***************************************************************************)
(* The running paper-trading process (src/api/main.py with                 *)
(* src/paper_trading/engine.py): its startup and shutdown, the market      *)
(* monitor loop, the orchestrator it drives, the risk gate, the broker,    *)
(* and the REST endpoints that share the broker with the loop.  Everything *)
(* runs on one event loop.                                                 *)
(*                                                                         *)
(* The process is either the API server or the console launcher            *)
(* (src/paper_trading/start_paper_trading.py), which runs the same engine  *)
(* without endpoints until it gets a signal.                               *)
(*                                                                         *)
(* Each MarketMonitor.start creates a new asyncio task, an element of      *)
(* Loops.  Such a loop is                                                  *)
(*   "off"    not created, or ended,                                       *)
(*   "scan"   awaiting data, agents or broadcasts on the way to a decision *)
(*            about Watchlist[at],                                         *)
(*   "order"  suspended inside broker.place_order,                         *)
(*   "sleep"  between two scans.                                           *)
(* MarketMonitor.stop cancels the loop; until the event loop resumes it,   *)
(* the loop is in the set cancelled, and start may already have made the   *)
(* next one.                                                               *)
(*                                                                         *)
(* In this process nothing calls update_price, activate_kill_switch,       *)
(* update_daily_pnl or update_peak_value: pending orders are never         *)
(* triggered, and the state of the risk engine is its initial state, so    *)
(* the gate is instantiated with it.                                       *)
(***************************************************************************)
EXTENDS Integers, Sequences, FiniteSetsExt

CONSTANTS
    Symbols, Prices, Placeholder, NoRequest, NoPrice,
    InitialCapital, CommissionPct, HalfSpread, MaxSlippage,  \* see PaperBroker
    RequireStopLoss, MaxPositionPct, MaxLossPerTradePct,
    MaxOpenPositions, MaxDailyLossPct, MaxDrawdownPct,       \* see RiskEngine
    MaxOrders,        \* bound: number of orders in a behaviour
    Watchlist,        \* the symbols scanned, in order
    Loops,            \* incarnations of the monitor loop
    NoLoop,           \* None: no loop was ever started
    ApiTasks,         \* tasks that serve REST requests
    ApiRequests,      \* orders submitted to POST /orders
    SettingsCapital,  \* settings.paper_trading_initial_capital
    Share,            \* order sizes are in lots, so many to one share
    HumanApproval     \* does the environment require human approval?

ASSUME SystemConstants ==
    /\ Watchlist \in Seq(Symbols) /\ Watchlist # <<>>
    /\ NoLoop \notin Loops
    /\ Loops \cap ApiTasks = {}
    /\ MaxOrders \in Nat
    /\ MaxOpenPositions \in Nat
    /\ IsFiniteSet(Symbols)
    /\ Share \in Nat \ {0}
    /\ HumanApproval \in BOOLEAN
    /\ Prices \subseteq Nat \ {0} /\ Placeholder \in Nat /\ NoPrice \notin Int
    /\ \A p \in Prices : p % 20 = 0          \* 5% of a price is in ticks
    /\ InitialCapital \in Nat /\ SettingsCapital \in Nat \ {0}
    /\ CommissionPct \in 0 .. 100 /\ HalfSpread \in Nat /\ MaxSlippage \in Nat
    /\ MaxPositionPct \in Nat /\ MaxLossPerTradePct \in Nat
    /\ MaxDrawdownPct \in 0 .. 100

VARIABLES
    phase,       \* of the process: "starting", "up" (serving requests),
                 \* "alone" (launched from a console), "stopping" or "down"
    cash, position, order, pending, tradeCount, placed, request, task,
    running,     \* MarketMonitor._is_running
    current,     \* MarketMonitor._task
    cancelled,   \* loops whose task was cancelled and has not ended
    loop,        \* control state of the loops
    author       \* who placed each order

broker  == <<cash, position, order, pending, tradeCount, placed, request, task>>
monitor == <<running, current, cancelled, loop>>
vars == <<phase, broker, monitor, author>>

\* YFinanceProvider.get_quote: the price, or 0.0 when the data has none; an
\* exception is a decision not made, or the placeholder of the broker.
Quotes == Prices \cup {0}

Broker == INSTANCE PaperBroker
            WITH Tasks <- Loops \cup ApiTasks, Requests <- ApiRequests,
                 Prices <- Quotes,
                 Updates <- {}, HasProvider <- TRUE

ASSUME RequestConstants ==
    /\ ApiRequests \subseteq Broker!Request
    /\ NoRequest \notin Broker!Request

Gate == INSTANCE RiskEngine
          WITH Capital <- SettingsCapital, Requests <- {}, Accounts <- {},
               PnlChanges <- {}, PortfolioValues <- {}, MaxPnl <- 0,
               killSwitch <- FALSE, dailyPnl <- 0,
               peak <- 100 * SettingsCapital

Off == [pc |-> "off", at |-> 1]
AtStart == [pc |-> "scan", at |-> 1]

\* Mutant: after the last symbol the first one again, without a sleep.
NextSymbolWrapsAround(at) ==
    [pc |-> "scan", at |-> IF at < Len(Watchlist) THEN at + 1 ELSE 1]

\* After a symbol: the next one, or the sleep at the end of the watchlist.
NextSymbol(at) == IF at < Len(Watchlist) THEN [pc |-> "scan", at |-> at + 1]
                                         ELSE [pc |-> "sleep", at |-> 1]

Alive(l) == loop[l].pc # "off" /\ l \notin cancelled
HeldSymbols == {s \in Symbols : position[s].qty # 0}

\* get_account and get_positions
Account ==
    [cash |-> cash,
     equity |-> cash + 100 * SumFunction(
                  [s \in Symbols |-> position[s].qty * position[s].price]),
     positions |-> Cardinality(HeldSymbols)]

-----------------------------------------------------------------------------
(* Lifecycle of the process and of the monitor *)

\* MarketMonitor.start, behind the is_running test of its callers.
MonitorStart ==
    /\ \E l \in Loops :
         /\ loop[l].pc = "off"
         /\ current' = l
         /\ loop' = [loop EXCEPT ![l] = AtStart]
    /\ running' = TRUE
    /\ UNCHANGED cancelled

\* Mutant: the flag is cleared but the task is not cancelled.
MonitorStopWithoutCancel ==
    /\ running' = FALSE
    /\ UNCHANGED <<current, cancelled, loop>>

\* MarketMonitor.stop.
MonitorStop ==
    /\ running' = FALSE
    /\ cancelled' = IF running THEN cancelled \cup {current} ELSE cancelled
    /\ UNCHANGED <<current, loop>>

\* PaperTradingEngine.start and stop, which do nothing a second time.
EngineStart == IF running THEN UNCHANGED monitor ELSE MonitorStart
EngineStop == IF running THEN MonitorStop ELSE UNCHANGED monitor

\* lifespan up to its yield.  An exception of init_db ends the process.
Startup ==
    /\ phase = "starting"
    /\ \/ phase' = "up" /\ EngineStart
       \/ phase' = "down" /\ UNCHANGED monitor
    /\ UNCHANGED <<broker, author>>

\* lifespan behind its yield.  The server lets the requests it serves finish
\* before.
Shutdown ==
    /\ phase = "up" /\ \A t \in ApiTasks : task[t].pc = "idle"
    /\ phase' = "stopping"
    /\ EngineStop
    /\ UNCHANGED <<broker, author>>

\* The launcher: main starts the engine and waits for the event that the
\* handler of SIGINT and SIGTERM sets once it has stopped the engine.
Launch ==
    /\ phase = "starting" /\ phase' = "alone"
    /\ EngineStart
    /\ UNCHANGED <<broker, author>>

Signal ==
    /\ phase = "alone" /\ phase' = "stopping"
    /\ EngineStop
    /\ UNCHANGED <<broker, author>>

\* The connections are closed, or the final status is printed, and the tasks
\* that were cancelled have ended.  What the broker holds is lost with the
\* process.
Exit ==
    /\ phase = "stopping" /\ \A l \in Loops : loop[l].pc = "off"
    /\ phase' = "down"
    /\ UNCHANGED <<broker, monitor, author>>

\* get_engine: the routes find the engine that startup registered.
Serving == phase = "up"

\* POST /paper-trading/start
Start ==
    /\ Serving
    /\ EngineStart
    /\ UNCHANGED <<phase, broker, author>>

\* POST /paper-trading/stop
Stop ==
    /\ Serving
    /\ EngineStop
    /\ UNCHANGED <<phase, broker, author>>

\* POST /system/kill: the flag it sets, settings.enable_kill_switch, is read
\* by no check, so that it is a stop.
Kill == Stop

\* Mutant: cancellation is noticed only by the sleep.
LoopEndsFromSleep(l) ==
    /\ l \in cancelled /\ loop[l].pc = "sleep"
    /\ loop' = [loop EXCEPT ![l] = Off]
    /\ cancelled' = cancelled \ {l}
    /\ UNCHANGED <<phase, broker, running, current, author>>

\* A cancelled loop resumes with CancelledError, which nothing on the way
\* catches but _run_loop itself: an order waiting for its quote is dropped.
LoopEnds(l) ==
    /\ l \in cancelled
    /\ IF loop[l].pc = "order" THEN Broker!AbandonPlace(l)
                               ELSE UNCHANGED broker
    /\ loop' = [loop EXCEPT ![l] = Off]
    /\ cancelled' = cancelled \ {l}
    /\ UNCHANGED <<phase, running, current, author>>

\* The sleep is over: while self._is_running.
Wake(l) ==
    /\ loop[l].pc = "sleep" /\ l \notin cancelled
    /\ loop' = [loop EXCEPT ![l] = IF running THEN AtStart ELSE Off]
    /\ UNCHANGED <<phase, broker, running, current, cancelled, author>>

-----------------------------------------------------------------------------
(* Orchestrator.analyze_and_decide *)

\* TechnicalAgentNode: what the direction of the fused signal is to the graph;
\* the fusion's HOLD and NO_TRADE are one opinion to it.
TechnicalSignal(direction) == CASE direction = "buy"  -> "LONG"
                                [] direction = "sell" -> "SHORT"
                                [] OTHER -> "NEUTRAL"

\* RiskAgentNode consults no limit: it agrees with the technical agent.
RiskOpinion(tech) == IF tech \in {"LONG", "SHORT"} THEN tech ELSE "NEUTRAL"

\* DecisionAgentNode at price p: the common signal, with a stop loss 5% away.
Decision(tech, risk, p) ==
    IF risk # tech \/ tech = "NEUTRAL"
      THEN [action |-> "NEUTRAL", stopLoss |-> NoPrice]
      ELSE [action |-> tech,
            stopLoss |-> IF tech = "LONG" THEN p - p \div 20 ELSE p + p \div 20]

\* The whole numbers nearest to n / d (round, either way on a tie).
Nearest(n, d) == {q \in {n \div d, (n \div d) + 1} :
                    2 * q * d - 2 * n \in -d .. d}

\* The smaller of two quantities, but never less than one share.
SizeWithin(byRisk, bySize) == Max({Share, Min({byRisk, bySize})})

\* _calculate_position_size for a stop loss 5% away from the price p; one share
\* when there is no price.
PositionSizes(equity, p) ==
    IF p <= 0 \/ equity <= 0 THEN {Share}
    ELSE {SizeWithin(byRisk, bySize) :
            byRisk \in Nearest(MaxLossPerTradePct * equity, 10000 * (p \div 20)),
            bySize \in Nearest(MaxPositionPct * equity, 10000 * p)}

\* The order of analyze_and_decide for decision d.
OrderFor(s, d, q) ==
    [symbol |-> s, side |-> IF d.action = "LONG" THEN "buy" ELSE "sell",
     type |-> "market", quantity |-> q, trigger |-> NoPrice,
     stopLoss |-> d.stopLoss]

\* NEUTRAL, no decision, or an exception caught by scan_watchlist.
NoTrade(l) ==
    /\ loop[l].pc = "scan" /\ l \notin cancelled
    /\ loop' = [loop EXCEPT ![l] = NextSymbol(@.at)]
    /\ UNCHANGED <<phase, broker, running, current, cancelled, author>>

\* From the decision to the broker's first suspension nothing else runs: the
\* gate judges the account the order is placed on.
Trade(l) ==
    LET s == Watchlist[loop[l].at]
        account == Account
    IN  /\ loop[l].pc = "scan" /\ l \notin cancelled
        /\ ~HumanApproval
        /\ \E p \in Quotes, direction \in {"buy", "sell", "hold", "no_trade"} :
             LET tech == TechnicalSignal(direction)
                 d == Decision(tech, RiskOpinion(tech), p)
             IN  /\ d.action # "NEUTRAL"
                 /\ \E q \in PositionSizes(account.equity, p) :
                      /\ Gate!Approves(OrderFor(s, d, q), account)
                      /\ Broker!PlaceMarket(l, OrderFor(s, d, q))
        /\ author' = [author EXCEPT ![placed'] = "loop"]
        /\ loop' = [loop EXCEPT ![l] =
                      IF task'[l].pc = "fetch" THEN [@ EXCEPT !.pc = "order"]
                                               ELSE NextSymbol(@.at)]
        /\ UNCHANGED <<phase, running, current, cancelled>>

\* Mutant: a cancelled loop still finishes its order.
OrderReturnsThoughCancelled(l) ==
    /\ loop[l].pc = "order"
    /\ Broker!QuoteArrives(l)
    /\ loop' = [loop EXCEPT ![l] = NextSymbol(@.at)]
    /\ UNCHANGED <<phase, running, current, cancelled, author>>

\* The quote arrives, place_order executes the order and returns.
OrderReturns(l) ==
    /\ loop[l].pc = "order" /\ l \notin cancelled
    /\ Broker!QuoteArrives(l)
    /\ loop' = [loop EXCEPT ![l] = NextSymbol(@.at)]
    /\ UNCHANGED <<phase, running, current, cancelled, author>>

-----------------------------------------------------------------------------
(* The REST endpoints of src/api/routes/trading.py *)

\* POST /orders only asks for a stop loss.
ApiPlace(t, r) ==
    /\ Serving
    /\ RequireStopLoss => r.stopLoss # NoPrice
    /\ Broker!PlaceMarket(t, r) \/ Broker!PlacePending(r)
    /\ author' = [author EXCEPT ![placed'] = "api"]
    /\ UNCHANGED <<phase, monitor>>

ApiOrderReturns(t) ==
    /\ Broker!QuoteArrives(t)
    /\ UNCHANGED <<phase, monitor, author>>

\* DELETE /orders/{id}
ApiCancel(id) ==
    /\ Serving
    /\ Broker!CancelOrder(id)
    /\ UNCHANGED <<phase, monitor, author>>

-----------------------------------------------------------------------------
Init ==
    /\ phase = "starting"
    /\ Broker!Init
    /\ running = FALSE
    /\ current = NoLoop
    /\ cancelled = {}
    /\ loop = [l \in Loops |-> Off]
    /\ author = [id \in Broker!OrderIds |-> "none"]

LoopStep(l) == Wake(l) \/ NoTrade(l) \/ Trade(l) \/ OrderReturns(l) \/ LoopEnds(l)

Api == \/ \E t \in ApiTasks : \/ \E r \in ApiRequests : ApiPlace(t, r)
                             \/ ApiOrderReturns(t)
       \/ \E id \in Broker!OrderIds : ApiCancel(id)

Lifecycle == \/ Startup \/ Shutdown \/ Launch \/ Signal \/ Exit
             \/ Start \/ Stop \/ Kill

Next == Lifecycle \/ Api \/ \E l \in Loops : LoopStep(l)

Spec == Init /\ [][Next]_vars

\* Data requests, agents and sleeps end; the event loop is fair to its tasks
\* and a process that is stopping to its last steps.
Fairness == /\ \A l \in Loops : WF_vars(LoopStep(l))
            /\ \A t \in ApiTasks : WF_vars(ApiOrderReturns(t))
            /\ WF_vars(Exit)

FairSpec == Spec /\ Fairness

-----------------------------------------------------------------------------
(* Properties *)

\* Every variable of the monitor has its type.
TypeOK ==
    /\ phase \in {"starting", "up", "alone", "stopping", "down"}
    /\ running \in BOOLEAN
    /\ current \in Loops \cup {NoLoop}
    /\ cancelled \in SUBSET Loops
    /\ loop \in [Loops -> [pc : {"off", "scan", "order", "sleep"},
                          at : 1 .. Len(Watchlist)]]
    /\ author \in [Broker!OrderIds -> {"none", "loop", "api"}]

\* However start and stop are interleaved with a loop that has not ended yet,
\* only the loop that is_running speaks of and that stop would cancel trades,
\* and none while the process comes up or goes down.
OneLoopTrades ==
    \A l \in Loops : Alive(l) => running /\ l = current /\ phase \in {"up", "alone"}

\* After a stop or a kill, until the next start, the automated side neither
\* places an order nor completes one that was waiting for its quote.
HaltedEngineIsQuiet ==
    [][~running =>
         \A id \in Broker!OrderIds :
           author'[id] = "loop" =>
             author[id] = "loop" /\ order'[id] = order[id]]_vars

\* The loop never acts on a SHORT decision, neither to open a short position
\* nor to close a long one: the gate judges it at 1.02 times its stop loss,
\* itself 5% above the price, and a position sized at the limit exceeds it
\* then.  Only without a price, when the order is for one share and its stop
\* loss of 0 makes the gate skip every check of its value, does it sell.
SellsOnlyWithoutPrice ==
    \A id \in Broker!OrderIds :
      author[id] = "loop" /\ request[id].side = "sell" =>
        request[id].stopLoss = 0 /\ request[id].quantity = Share

\* As long as no order came in through the API, the loop never holds more
\* symbols than allowed, although each order waits for its quote after the
\* gate has counted the positions.
OpenPositionsWithinLimit ==
    (\A id \in Broker!OrderIds : author[id] # "api") =>
      Cardinality(HeldSymbols) <= MaxOpenPositions

\* Every scan comes to its end, a cancelled loop ends whatever it was waiting
\* for, and a process told to stop goes down.
EverythingSettles ==
    /\ \A l \in Loops : loop[l].pc \in {"scan", "order"} ~>
                           loop[l].pc \in {"sleep", "off"}
    /\ \A l \in Loops : l \in cancelled ~> loop[l].pc = "off"
    /\ phase = "stopping" ~> phase = "down"

\* What the documentation promises and the code does not do.

\* settings.max_position_size_pct: "Max % of portfolio per position".
PositionsWithinCap ==
    \A s \in Symbols :
      10000 * (position[s].qty * position[s].price)
        <= MaxPositionPct * Account.equity
=============================================================================

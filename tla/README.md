# TLA+ models and proofs for Trading01

Trading01 is a paper-trading platform in Python: strategies produce signals,
agents and a fusion step turn them into a decision, a risk gate judges the
order, an in-memory broker executes it, and a FastAPI process with a WebSocket
dashboard runs the loop. Everything runs on one asyncio event loop, so the
hard parts are not threads but *suspension points*: what may happen between an
`await` and the statement after it, which tasks are cancelled there, and which
shared dictionaries, lists and flags have changed meanwhile.

Paths below are relative to the Python package (`src/` of the repository);
`paper_broker.py` is `src/brokers/paper_broker.py`, and so on. `PROJECT.json`
gives the source lines of every definition.

## 1. Inventory

| Component | State | Operations | Hard behaviour | What makes it correct |
|---|---|---|---|---|
| Paper broker `brokers/paper_broker.py` | cash, positions, orders, pending requests, trade count | place, cancel, modify, `update_price`, account queries | `get_quote` is awaited between accepting an order and executing it; `update_price` suspends in the middle of a pass over triggered orders; a caller is cancelled while it waits | cash covers every fill; books reconcile with the reported fills; each order is executed once; executed orders are final |
| Risk engine `risk/engine.py` | kill switch, daily P&L, peak value | `validate_order`, the kill switch, P&L and peak updates, the daily reset | checks that are skipped when there is nothing to divide by; limits reached exactly; four parties acting on two variables | no order without equity; a sounder account is never judged more strictly; the loss limit blocks and raises the switch; only an administrator lifts it |
| Market monitor `workers/market_monitor.py` | `_is_running`, `_task` | start, stop, the scan loop | stop and start again before the cancelled loop has noticed | at most one loop trades; a stopped one is quiet and ends |
| Orchestrator `agents/orchestrator.py` | none of its own | analyse, size, gate, place; scan the watchlist | the gate judges an account that may change before the order executes | limits hold for the orders it places |
| Process, REST routes (`api/main.py`, `api/routes/trading.py`, `paper_trading/*.py`) | phase of the process | startup, shutdown, launch from a console, place and cancel an order, start, stop, kill | share the broker with the loop, beside the gate; shutdown with tasks under way | do not disturb the broker's invariants; a stopping process goes down |
| Agent graph `agents/graph.py` | pending, running, results | execute a DAG of agents | agents end in any order, fail, time out; cycles are not rejected | complete inputs, no rerun, always ends |
| Ablation `agents/ablation.py` | the `enabled` flags of the graph | disable one agent, execute, score, restore | cancellation while an agent is disabled | the graph is restored; essential agents score 1.0 |
| Backtest `backtesting/engine.py` | bar index, executed trades | run | order of price report, signal and order; the final close | ends flat; fills at the prices of the bars; its record agrees with the broker |
| WebSocket hub `api/main.py` | `active_connections` | connect, disconnect, broadcast | the list changes while a broadcast iterates over it | live clients stay listed; those whose browser is gone leave |
| Signal fusion `signals/fusion.py` | none | fuse | signs, ties and thresholds of a weighted vote | unbiased, dissent does not help |
| Strategies `strategies/*.py` | none | signal per price history | every condition written out twice, for both directions | unbiased; signal when they should |
| Redis client `core/redis_client.py` | counters and cache entries in Redis, each with a time to live | limit a request, get, set, get-or-set, delete, flush | each operation is several commands, between which other clients and expiry come in | requests beyond the limit are bounded; limits lift; old values leave; a flush is complete |
| MCP server `mcp/server.py` | a broker of its own | tools that size and judge orders, place and cancel them, report the account | repeats the gate's checks by hand | its advice agrees with the gate and with itself |
| Account reports (`api/routes/portfolio.py`, `paper_trading/engine.py`, `mcp/server.py`) | none | account, positions, exposure, P&L, status | taken while orders are being executed | agree with each other and with the orders |
| Backtest analytics `backtesting/analytics.py` | none | tearsheet | sees recorded trades, not executions | tells the recorded trades, all of them and nothing else |
| Dashboard connection `frontend/src/components/Dashboard.tsx` | socket, reconnect timer | connect, reconnect, clean up | events arrive after the effect that caused them is gone | one line to the hub, never two |
| Data providers `data/providers/*.py` | none | quotes, histories | failures, gaps, retries | modelled by their outcomes where they are called |
| Agent nodes `agents/nodes.py` | none | opinion, risk check, decision | | operators of `SignalFusion` and `TradingSystem` |
| Authentication, LLM providers, database session and tables, market and strategy routes, configuration, the rest of the frontend | see section 7 | | | not modelled |

How they interact:

```
strategies -> agent nodes -> AgentGraph <- AblationEngine
                                 |
MarketMonitor --scan--> Orchestrator --validate_order--> RiskEngine
     |                       |
     | broadcast             +--place_order--> PaperBroker <-- REST routes, MCP
     v                                              ^   |
ConnectionManager <-- /ws dashboard     update_price|   +--get_quote--> provider
                                                    |
                        BacktestEngine -------------+   (own broker, own gate)
```

Calls are direct method calls on shared objects. The only places at which
another task can run are awaits on something external: the provider's quote,
agent tasks, `asyncio.sleep` and WebSocket sends and receives.

## 2. Modules

| Module | Models | Uses |
|---|---|---|
| `PaperBroker` | the broker and the tasks that call it | |
| `OrderLedger` | the abstract account the broker implements | |
| `AccountViews` | what routes, MCP tools and the engine report of the account | `PaperBroker` |
| `RiskEngine` | the gate and its state | |
| `McpTools` | the risk tools of the MCP server | `RiskEngine` |
| `TradingSystem` | the running process: lifecycle, monitor, orchestrator, gate, broker, REST | `PaperBroker`, `RiskEngine` |
| `AgentGraph` | a decision: baseline and shadow executions | |
| `BacktestEngine` | a backtest of one symbol, from the fetch to the tearsheet | `PaperBroker`, `RiskEngine` |
| `WebSocketHub` | connections and broadcasts | |
| `Dashboard` | the browser's reconnecting end | `WebSocketHub` |
| `Strategies` | the decision tables of the eight strategies | |
| `SignalFusion` | from readings to one decision and its levels | `Strategies` |
| `RedisClient` | rate limiter and cache, command by command | |
| `MC*` | instances for TLC (`MCPaperBroker` of `AccountViews`, `MCRiskEngine` of `McpTools`) | the module after `MC` |
| `*Proofs` | theorems | the module before `Proofs` (`PaperBrokerProofs`: `AccountViews`, `RiskEngineProofs`: `McpTools`) |

Definitions whose comment begins with "Mutant:" are deliberately wrong
variants of the definition that follows; no specification uses them. Each one
goes with a property that must notice it (`mutants` in `PROJECT.json`).

### PaperBroker

An asyncio task inside the broker is *idle*, suspended in *fetch* (in
`get_quote`, in `_get_reference_price`), or in *run* (holding the event loop in
`_check_pending_orders`). No other task moves while one is in "run", since no
statement between two suspensions can be interleaved. That makes `UpdatePrice`
(the update of the mark and the computation of `to_fill`), then one `FillNext`
per id, exactly the code's granularity: a `FillNext` for a symbol that is not
held suspends in the middle of the pass, and everything else may happen there.

* `PlaceMarket`, `PlacePending` are `place_order`; a request that
  `_validate_order` rejects changes nothing and has no action. `QuoteArrives`
  is the return of `get_quote`, with a quote or with the placeholder price the
  code falls back to. `AbandonPlace` is the `CancelledError` that passes
  through `place_order`; only a placing task is ever cancelled, by
  `MarketMonitor.stop`.
* `FillNextGone` is the `KeyError` of `_pending_orders.pop` when the id was
  cancelled or filled by another pass meanwhile: the rest of the pass is given
  up.
* `CancelOrder` and `ModifyOrder` act on the `OrderResult` of an open order.
  `ModifyOrder` leaves the pending `OrderRequest` alone, as the code does.
* Prices are ticks and cash is counted in hundredths, so a percentage
  commission is exact. Slippage is any whole number of ticks up to a bound.
  Average entry prices are fractions.
* Order ids are serial numbers: the code's uuids are only compared, and the
  insertion order of the `_pending_orders` dictionary is the placing order.

`OrderLedger` says what an account promises: money moves only when an order
settles, an order settles once, and the balance is never overdrawn. It is
implemented with `settled <- FilledIds`, `balance <- cash`.

### RiskEngine

`Approves(r, a)` is `validate_order` with one operator per check, in the order
of the code. `Given` is Python's truth of an optional price: 0 counts as
absent where the code writes `if price`, and as present where it writes
`is None`. The actions are the methods that change the kill switch, the daily
P&L and the peak.

### AccountViews

The reports are operators over a state of `PaperBroker`: none of the functions
they come from suspends. `Equity`, `PositionView`, `Exposure` and `Pnl` are
`get_account`, `get_positions` and the portfolio routes; `PortfolioExposure`
and `ToolPnl` are the MCP tools of the same names, `EngineStatus` is
`get_status` of the engine.

### TradingSystem

Composes the broker and the gate with the monitor and its callers. Each
`MarketMonitor.start` makes a new asyncio task, an element of `Loops`; `stop`
cancels the current one, which stays in `cancelled` until it resumes and ends,
and `start` may run in between. `phase` is the life of the process, which is
either the API server (`Startup`, `Shutdown`) or the console launcher of
`paper_trading/start_paper_trading.py` (`Launch`, `Signal`); `Exit` waits for
cancelled tasks.

`Trade` is `analyze_and_decide` from the decision to the broker's first
suspension. Sizing, order, gate and placing run without a suspension, so the
gate judges the very account the order is placed on; `OrderReturns` comes
after any number of other steps. The fused signal may have any direction;
`TechnicalSignal`, `RiskOpinion`, `Decision`, `PositionSizes` and `OrderFor` are what the code
makes of it, with the stop loss 5% away and the size rounded in lots. A quote
may be 0, which is what `get_quote` returns for a frame without a price.
Since nothing in this process changes the state of the risk engine, the gate
is instantiated with its initial state.

### AgentGraph

`StartReady` is one head of the loop in `execute`, `NodeEnds` the end of an
agent's task (a timeout is an exception), `Collect` the return of
`asyncio.wait` together with the processing of every task done by then, hence
`finished` as a set. `BaselineEnds`, `ShadowEnds` and `Cancel` are
`evaluate_impact`. The dependency relation and the enabled nodes are arbitrary
initial values: TLC and the proofs go through *every* graph, cyclic ones too,
because `_validate_dag` accepts them.

### BacktestEngine

`Fetch` is `get_historical_data` with what the provider may meet (an exception,
missing columns, rows with gaps, too few rows). Then a broker without data
provider and a gate are driven through the bars, with an arbitrary signal per
bar, and the position is closed at the end. `RoundTrips`, `MaxDrawdown` and
`Tearsheet` are `calculate_tearsheet` as folds over the recorded history, in
exact fractions; `MatchTrade` and `AddTrip` are one round of its two loops.
`Refused` and `Closed` are what the history and the account differ by: recorded
trades that the broker rejected, and the final close, which is not recorded.

### WebSocketHub and Dashboard

`WebSocketHub` splits `broadcast` at each awaited send. The iteration is by
position in the live list, which is what Python does. Three history variables
(`due`, `got`, `left`) describe the current broadcast for the properties only.
A handler ends because the browser is gone (`HandlerEnds`, which takes the
connection off the list) or by another exception (`HandlerFails`, which leaves
it there: main.py:273 catches `WebSocketDisconnect` only). The dashboard sends
nothing, so its own handlers do not fail.
`Dashboard` adds the effect of `Dashboard.tsx`: each mount has an `isMounted`
of its own (`live`: the sockets whose handlers find it true), while `wsRef` and
the timer are shared by all mounts, and the close event of a socket is a step
of its own that comes at any later time.

### RedisClient

Each Redis command is an action; between two commands of an operation anything
else happens, other callers and `Tick` (expiry) included. `CheckLimit` and then
`OpenWindow` or `Admit` are `RateLimiter.is_allowed`; `Miss`, `Fetched` or
`FetchFails` and `Store` are `get_or_set`, whose factory is a provider call
that is retried; `FlushStart`, `FlushVisit` and `FlushDelete` are
`flush_namespace` with its `scan_iter`. `orphans`, `admitted` (how many requests
of an identifier were let through since its key last came into being) and
`unwritten` are history variables of the properties. Nothing in the repository calls the module yet;
the callers are those its docstrings describe.

### Strategies and SignalFusion

A strategy is an operator from readings to the set of its signals, empty or
with one element. Readings are what the code compares: signs of differences of
averages, an RSI, a z-score, a volume relative to its average. Several strategies
read the same market, so the readings they share (`market`: number of bars, ADX,
RSI, volume, volatility ratio) are chosen once per behaviour, and the others
by each strategy. Scores, strengths and confidences are integers in
thousandths. Where a score equals its threshold exactly, floating point
decides in the code; `TrendTie`, and the last argument of `Direction`, say how,
as established by evaluating the code's sums. The breakout range is computed
from bars, as whether it includes the current bar is the point. `MarketReadings`
and `ReadingsOf` say which readings there can be at all; TLC takes finite sets of
them, the proofs every set. They leave out one corner: after twenty equal closes
the Bollinger bands have no width, and where the RSI still remembers a fall the code
buys at a band that is the mean too, with a target equal to the price.

`SignalFusion` asks the strategies in order and collects what they answer; a
strategy that raises is skipped, so each list on the way is one that `fuse` can
be given, among them those of the technical agent, which asks three strategies
and no classifier. `Fuse` is `fuse` in exact fractions, with the weight tables
as `DefaultWeights` and `RegimeWeightModifiers`; `FusedSignal` adds the stop
loss and the target, kept as sides of the entry, which come from the most
confident signal, `BestSignal`.

### McpTools

`ToolPasses` is `calculate_risk` and `Suggested` is `calculate_position_size`,
next to the gate they should agree with. Division by the portfolio value is
what it does in the code: an exception at zero, a reversed comparison below.

## 3. Runs

| Run | Question | Instance, and why it is enough |
|---|---|---|
| `broker_core` | Do the books and the reports of the account agree under every interleaving of two tasks with quotes, passes, cancels and modifications? | 2 symbols, 2 tasks, 3 orders out of 6 requests. 9 ticks of capital, so that one purchase is covered and the next may not be; limit and stop orders that trigger at the same price, so that a pass suspends between them; a commission of 25% so that it decides at the boundary. Tasks are symmetric and every property is a safety property. |
| `broker_live` | Do triggered orders leave the book? | 1 symbol, 2 tasks, 3 orders, a feed that keeps reporting (below); no symmetry. |
| `broker_cancel` | Does a cancelled order stay cancelled? **No.** | the same symbol with 2 orders. |
| `risk_gate` | Is the gate sound for accounts and requests on both sides of every limit, and does the MCP server advise as it judges? | 8 requests by 63 accounts, including zero and negative equity, in every reachable state of kill switch, P&L and peak. |
| `system` | Is automated trading confined to one loop, quiet after stop, within its limits, and does everything come to an end? | 2 symbols, 2 incarnations of the loop, one REST task, 2 orders, one open position allowed, so that the limits are met; each quote may be 0. A third loop would be the second after the first has ended. |
| `system_cap` | Is a position limited to `max_position_size_pct`? **No.** | 1 symbol, 2 orders, 2 open positions. 5% of the capital of 8070 is no whole number of shares, so that the largest order the gate lets through stays within the limit after its commission too: one order alone does not break the property (with `MaxOrders = 1` it holds), the second scan that buys again does. |
| `agent_graph` | Does every decision end, with complete inputs and the graph restored? | all 4096 combinations of dependencies and enabled flags over 3 agents, all outcomes. |
| `backtest` | Does a backtest leave the account flat, filling held symbols at their bars, and what does its tearsheet tell? | 4 bars, prices 20, 100, 800 around a placeholder of 300 and a capital of 305, so that the slippage decides whether an opening purchase is refused; a short bought back at 800 cannot be paid for; two round trips fit, one with a profit and one with a loss. |
| `backtest_fill` | Is every order filled at the price of its bar? **No.** | 3 bars. |
| `hub` | Do live clients stay listed, do those whose browser is gone leave, and does the dashboard keep one line? | a dashboard that connects up to twice and another client; every departure lies before, at or after the position of a broadcast, and the other client's handler may fail. |
| `fusion` | Are strategies and vote unbiased, unharmed by dissent, and do trades carry usable levels? | the eight strategies in the order of the backtest with their real weights and thresholds; 48 markets times private readings on both sides of each threshold; three bars of two prices, which hold a close above all earlier highs. |
| `redis` | Do limits hold and lift, and does the cache forget what it should? | 3 callers at a limit of 2, a reader and direct writes of one key, 2 attempts, times to live of 2 ticks, so that expiry falls before, between and after any two commands. A second reader would only store what `Set` stores. |

Bounds: `MaxOrders` (calls of `place_order`), `MaxBars`, `MaxPnl` (size of the
daily P&L) and `MaxVersion` (changes of a cached source) appear in guards;
`MaxSlippage` bounds the simulated slippage; `Sockets` and `Loops` are used up
one per connection and per start. Deadlock checking is off where the system
really stops: no order left to place, a process down, a decision, a backtest
or a fusion over, all clients gone, and in `redis`, where no step is due when
nobody asks. `RiskEngine` always has a next step and is checked for it.

### The properties

* `CashReconciles` and `PositionsReconcile` tie the account to the reported
  fills: no fill is lost, doubled or booked at another price, in whatever order
  executions suspend and resume. `ExecutedOnce`, `OpenOrdersAreLive` and
  `ExecutedOrdersAreFinal` tie the order book, the table of orders and the
  tasks to each other. `ReportsAddUp` asks the same of what users see: the
  reports agree with cash and exposure, with the P&L of the orders (through the
  incremental average price), and with the tasks under way.
* `TriggeredOrdersResolve`: although a pass that meets a missing id gives up
  the rest of its orders, a price that keeps coming back clears them.
* `GateIsMonotone` is about all checks together: no guard that skips a check
  may reject a sounder account or approve a weaker one. `NoEquityNoTrade` is
  the corner where size and risk checks are skipped and only the drawdown
  check is left.
* `ToolAgreesWithGate` compares two implementations of the same checks;
  `SuggestionIsTight` says that the two tools fit together up to the rounding of
  the suggestion to four decimals, half a digit of which may lie over the limit.
* `SellsOnlyWithoutPrice` is a property the code has and probably does not
  want: a SHORT decision is judged at 1.02 times a stop loss that lies above
  the price, and sized at the limit, so the gate refuses it; the loop can
  neither open a short position nor close a long one. The exception is a quote
  of 0: the stop loss is then 0 too, every check of a value is skipped, and one
  share is sold at the broker's price.
* `OneLoopTrades`, `HaltedEngineIsQuiet` and `OpenPositionsWithinLimit` are
  about stop, start, launch, shutdown and the REST endpoints interleaved with
  an order that waits for its quote; `EverythingSettles` says that scans,
  cancelled loops and the shutdown end.
* `EssentialNodesScoreFull`: an agent the decision rests on gets impact 1.0
  whatever it said, as the shadow execution without it cannot decide.
* `TearsheetTellsTheTrades`: the tearsheet is made from recorded trades alone,
  and run_backtest.py:76 makes it when the backtest is over. In every state, that
  one included, its position, its number of trips and its profit are those of
  the account but for exactly two things: trades the broker refused are told as
  if they had happened (engine.py:148), and the final close is not told
  (engine.py:163), so that a closed position is reported as open and its trip
  and profit are missing.
* `EachDepartureCostsOneAtMost` measures what a list that changes under its
  iteration costs: n removals during a broadcast cost at most n live clients
  their message. `OneLine`: over every order of mounts, losses and late events
  the dashboard has exactly one socket, close event or timer to go on with.
* `DirectionsAreMirrored` checks that buy and sell, which go through different
  lists, signs and thresholds, are treated alike; `DissentersDoNotHelp` that a
  minority seller never turns a non-buy into a buy. `EveryTradeHasLevels`: a
  trade always has a stop and a target on opposite sides of the entry, also
  when a target is a mean of the price. `StrategiesAreMirrored` asks
  each strategy: on the same history upside down it must say the
  opposite as confidently. It holds but for two things it leaves out, the
  confidence of the statistical strategy and the strength of a trend's SELL.
* `OvershootIsBounded`: the limiter reads and counts in two commands, so that
  callers judged by one count all pass; and a caller that found no key stores
  the count 1 over whatever was counted meanwhile (redis_client.py:161), which
  also starts the window anew. The property counts the requests let through while
  a key exists: with n callers and a limit of M at most n(2M + n - 1)/2, where
  "Maximum requests in window" is promised. Each late SETEX starts a round of
  counting anew; TLC shows the bound to be reached for 2 and for 3 callers.
  `LimitsLift`: a full counter expires, except one that an INCR has created
  after the counter it had read expired. `StaleValuesLeave` and `FlushEmpties`
  bound the life of superseded values although slow readers store them late.

### Disagreements found (runs that expect a violation)

1. `broker_cancel`: `_check_pending_orders` pops a triggered order and suspends
   in `get_quote` while the order still reads SUBMITTED; `cancel_order`
   succeeds in between and the resumed execution overwrites CANCELLED by FILLED.
   It takes a caller of `update_price`: the running process, which has none, is
   free of it (theorem `CancelledStayCancelled`).
2. `system_cap`: the gate compares the value of the single order, not of the
   position it adds to, with "Max % of portfolio per position". In the trace two
   scans decide LONG; each order is within the limit, their position is not.
3. `backtest_fill`: the backtest's broker has no provider and remembers prices
   of held symbols only, so each opening order fills at the placeholder 100.0.

Other differences between text and code, met while modelling and modelled as
the code is, without a run of their own:

* broker: `modify_order` changes only the reported order (base.py:202); stop
  losses and take profits of requests are never executed (paper_broker.py:15);
  STOP_LIMIT and TRAILING_STOP orders never trigger; a failed quote is replaced
  by 100.0 in live trading too (paper_broker.py:354); limit and stop orders never
  trigger there and positions keep the price of their last fill, as only the
  backtest calls `update_price`; a short position keeps an average price of 0, so
  that its unrealised P&L is minus its value.
* lifecycle: the kill endpoint announces that pending orders are cancelled
  (main.py:210) and sets `settings.enable_kill_switch`, which no check reads and
  which is true from the start, so that a later start resumes trading while the
  dashboard keeps showing the system as halted. REST orders do not pass the gate
  they are said to pass (trading.py:44), nor do those of the MCP tool
  (server.py:513): both only ask for a stop loss. REST stop orders cannot be
  placed, since the request has no stop price.
* risk: the P&L, peak and kill-switch methods of the risk engine have no caller,
  and its peak is the configured capital whatever `--capital` says: an account
  that starts with half of it is refused every order as a drawdown. A quote of 0
  makes the gate skip the checks of value, and one whole share is traded.
* the graph's docstring calls it a DAG, and cycles are accepted (graph.py:45).
* fusion: "No single strategy can force a trade" (fusion.py:159) while a single
  signal is enough; disagreement adds confidence from a tie on (fusion.py:161),
  which is why `DissentersDoNotHelp` is restricted to a minority; a confident
  HOLD may lift the confidence over its threshold; the documented sign
  convention of SELL strengths (base.py:76) is not the one used (fusion.py:227); a
  BUY may carry the stop and the target of a more confident SELL (fusion.py:242),
  which the backtest trades with.
* strategies: a breakout is never signalled, although breakout.py:1-9 describes
  a strategy that detects breakouts, the repository's README.md:119 lists it with
  "S/R breaks, vol expansion" and docs/ARCHITECTURE.md:83 gives it a weight of 12%:
  the rolling range that a close would have to leave (breakout.py:51, :69)
  includes the bar that closes. `BreakoutNeverSignals` states it and theorem
  `NoBreakoutIsSignalled` proves it, as a defect: no run asks for it; an oversold price
  always has the statistical strategy's highest confidence (statistical.py:68); a
  trend's SELL is not capped at 1 (trend_following.py:194), the limit of
  base.py:76; volume "confirmation" adds to both sides and decides only where
  a score meets its threshold exactly.
* `calculate_risk` promises to check the daily loss and the drawdown
  (server.py:402) and checks neither; without equity it raises.
* backtest: REJECTED orders count among its trades (engine.py:148) and the final
  close does not (engine.py:163), so that the tearsheet of a finished backtest
  leaves out its last trip and shows a position nobody holds; the drawdown is said
  to be "based on trade sequence" (analytics.py:87) and is that of all profits
  followed by all losses, whatever their order. The fraction reported may be
  above or below that of the trades in their order, so no property relates them.
* hub and dashboard: a disconnect during a broadcast shifts the list, and the
  next connection misses the message (main.py:241); a handler that ends by another
  exception than a disconnect leaves its connection listed (main.py:273). The manual trade form
  announces a confirmed order although it may still be pending, and a lost
  response invites a second one.
* Redis: more than the "Maximum requests in window" (redis_client.py:150) pass, by
  concurrent INCRs and by a late SETEX (above); a counter that INCR creates has no time to live (redis_client.py:168)
  and, once full, shuts its identifier out until it is reset.

## 4. Fairness

* Broker: weak fairness of `QuoteArrives` (the provider returns or raises) and
  of the steps of a pass (the event loop resumes what is runnable). Nothing
  makes callers place or cancel. `TriggeredOrdersResolve` adds strong fairness
  of the price feed, because a feed reports in rounds: each price is reported
  again and again, and a task that is momentarily busy is free later.
* System: weak fairness of each loop and REST task: agents, data requests and
  sleeps end, `agents/graph.py` giving each agent a timeout; and of `Exit`, since
  a process told to stop runs its last statements. Start and stop are never
  forced.
* Graph: weak fairness of the loop and of each agent's task, which `wait_for`
  ends by its timeout; an agent may still always fail.
* Hub and dashboard: a send ends and the server notices that a browser is gone.
  Broadcasts need not happen, and the browser need not reconnect.
* Redis: time passes, and Redis and the factory answer, be it with an exception.
  Nobody needs to ask, store or flush.
* Backtest, fusion, gate: nothing about progress is claimed; the formula of
  `BacktestEngine` has the weak fairness of its single task.

## 5. Proofs

TLAPS proves the following for every value of the constants, hence for any
number of tasks, loops, orders, agents, sockets, bars, strategies, readings,
prices and limits. The proofs rest only on the named assumptions
(`BrokerConstants`, `RiskConstants`, `SystemConstants`, `RequestConstants`,
`GraphConstants`, `BacktestConstants`, `DashboardConstants`, `FusionConstants`,
`RedisConstants`), which say that constants have their types and ranges, and
which TLC evaluates on its runs; two theorems state a hypothesis of their own
(below). **Every invariant, every action property and the refinement that the
passing runs check are theorems.**

**PaperBrokerProofs.** `TypeCorrect`, `NeverOverdrawn`, `SingleExecution`,
`Finality`, `Refinement`, `NoOrderIsLost` (OpenOrdersAreLive). None of these properties is inductive. Cash stays
covered only if what is debited is a product of naturals, which needs that the
order being executed had passed `_validate_order`; that an executed order is
not executed again needs that ids are given out in order and that what waits is
open. The invariant is

    IInv == StateOK /\ KnownIds /\ LiveIdsPlaced /\ PendingIsOpen /\ ExecutedOnce

`StateOK` is the type invariant with a cash that is not negative; `KnownIds` says that exactly the ids up to `placed` carry a
valid request; `LiveIdsPlaced` that waiting and executing orders were placed;
`PendingIsOpen` that what waits is open. `ExecuteLemma` (what one execution
does to cash and record) is used by every action that executes. `NextLemma`
also shows that each step either leaves cash and orders alone or touches one
order in the way the ledger allows, from which `Finality` and `Refinement`
follow. `NoOrderIsLost` needs one fact more, `BookInv`: an open order is no
market order. Otherwise the cancellation of a placing task, which forgets its
order, could leave an open one behind.

`CashIsAccountedFor`, `PositionsAreAccountedFor` and `ReportsAgree` are about sums over
sets of orders and of symbols of any finite size. What such a sum is follows
from the definition of the library's fold, by induction over the subsets of a
finite set; as an induction theorem with an operator parameter is out of reach,
`SetInduction` takes a *set* of subsets, whose smallest non-member it refutes.
From it come existence and uniqueness of folds, and of those the rules for sums
(`SumStep`, `SumRemove`, `SumChange`, `SumByKind`, ...) that every later module
uses. A step then fills no order, which changes no sum, or one (`FillNextOrNone`),
which adds one term to each. For the P&L in `ReportsAgree` the average entry price
is needed: `AverageInv` says that, while nothing was sold, average times quantity
is what the orders paid.

**RiskEngineProofs.** `TypeCorrect`, `Solvency` (NoEquityNoTrade), `Monotone`
(GateIsMonotone), `LossRaises`, `ToolAgreement`, `SuggestionsAreTight`. The strengthening is
that the peak stays positive, so the drawdown check is never skipped: without
equity the drawdown is at least 100%. Monotonicity goes check by check, with a
lemma on scaling a limit by a larger equity. `ToolAgreement` needs the same
strengthening: with equity the shared checks coincide one by one (`SharedChecks`),
without it both sides refuse, the gate by its drawdown check. The assumption
`MaxDrawdownPct <= 100` is needed for `Solvency`, and is what a percentage means.
`SuggestionsAreTight` turns both tools' limits into bounds on one product of
quantity and unit loss (`LimitsOnQuantity`), and a rounded quotient into bounds on it
(`RoundedBounds`).

**TradingSystemProofs.** `OnlyTheCurrentLoopTrades` (OneLoopTrades) is inductive
with the types of the monitor's state: a loop that is not cancelled is the
current one, which is what lets `start` make a new one only when there is none.
`HaltedMeansQuiet` (HaltedEngineIsQuiet) adds `BookInv`: whatever a REST task
executes or the book holds came in through the API, so that no step but a live
loop's own settles an order of the loop. `PositionsAreLimited`
(OpenPositionsWithinLimit) adds `LimitInv`: while a live loop's order waits for
its quote there is room for one more position. It rests on the first theorem,
since two live loops could both have been let through for one free place, and
on orders that do not wait being for symbols already held.

`ProcessRunsTheBroker` is the composition: every step of the process, seen in the
broker's variables, is a step of `PaperBroker` or none, the orders of the loop
being such as the broker takes (`LoopOrderIsRequest`). So the theorems of
PaperBrokerProofs carry over to loops, REST tasks, start, stop and shutdown
together: `ProcessKeepsItsBooks`, `ProcessImplementsLedger`. One theorem holds here
that the broker alone refutes (run `broker_cancel`): `CancelledStayCancelled`. An
order that is being executed has no record yet (`NoRecordYet`), as nothing in this
process calls `update_price`; the first caller that does brings the race back.

`LoopSellsOnlyWithoutPrice` (SellsOnlyWithoutPrice) compares the size of a short order,
from above the position limit less half a lot or exactly that of the risk limit,
with the gate's value of it at 1.02 * 1.05 of the price. It takes two hypotheses: lots of
an eighth of a share or finer (the code rounds to hundredths, orchestrator.py:213;
of coarser lots rounding could lose more than the 7.1%), and a position limit of at most twenty
times the loss limit per trade (the settings have 5% and 1%, config.py:152), or else
the risk limit makes the order small enough for the gate.

**AgentGraphProofs.** `TypeCorrect`, `CompleteInputs`, `NoRerun`, `Exhaustive`
(NothingRunnableLeft), `EssentialImpact`, `Restoration`, over arbitrary, also
infinite or cyclic, graphs. The invariant adds to the properties: `EndedRun`
(collected tasks were running), `Exhausted` (at an end, what is pending misses a
result), `DecisionIsRecorded` (a decision comes from the decision node), and
`ShadowAvoids`: in a shadow execution nothing that needs the disabled node
runs or has a result. `NeedsStep` makes the transitive closure usable without
induction: `Needs(n)` is the intersection of the closed sets around n, and a node
whose dependencies all do without a does without a itself.

**BacktestEngineProofs.** `HeldFillsFairly` (HeldFillsAtBarPrice) from the
invariant that, where an order may follow, the price the broker knows for what
it holds is that of the bar. `EndsClosed` (EndsFlatOrBroke): the final order
takes the position to exactly zero or was rejected, and a rejection bounds the
cash by the price of the cover with the largest slippage. A backtest, too, runs
the broker (`BacktestRunsTheBroker`) and inherits its theorems
(`BacktestKeepsItsBooks`); so its final equity is what the filled orders have earned
(`FinalEquityIsEarned`).

`TearsheetIsOfTheHistory` (TearsheetTellsTheTrades) is about folds over lists. A fold is
unfolded once: that a function over positions satisfies its recursion is shown by
induction up to the length of the list (`UpTo`), which makes the trips of a history
those of the history before and one `MatchTrade` (`RoundTripsAppend`). The invariant
`SheetInv` has three parts: which recorded trade each order was (`OrdersOfTrades`); that
the shares of the account are those the history tells less what was refused and with
what was closed; and that the trips *tell* the history's position, the number of
its trades and what they cost (`HistoryTells`, `Tells`). A trade keeps it whether it
is executed or refused, and so does the final close.

**DashboardProofs.** `DashboardHasOneLine`
(OneLine): the invariant `LineInv` says that the sockets whose handlers would
reconnect are those that are up or whose close event is to come, that there is
at most one, the last, and that a mounted effect without one has a timer. The
count of the property follows. `ConnectedStayListed` (OpenClientsAreListed): `HubInv`
says that the list holds different clients, all that are open, and that sends
failed to closed or dropped ones only. `DepartureCostsOne` (EachDepartureCostsOneAtMost) counts
those that the iteration has passed by (`CostInv`): a removal before its position
moves at most one client under it, whom the next step skips. Both are proved for the hub
by itself and beside a dashboard.

**SignalFusionProofs.** `StrategiesHaveNoBias` (StrategiesAreMirrored) strategy by
strategy, over all readings: the net score changes its sign with the readings, and the
thresholds and confidences do not see a sign. `NoBreakoutIsSignalled`, the defect
of section 3, for histories of any length: a close inside the bar is inside a range that
includes the bar.
`TradesHaveLevels`, `FusionHasNoBias` and `SilencedDissenters` are about the vote over any
list of signals, from the invariant that each is one the strategies can give
(`RealSignals`): sums whose terms change their sign (`SumNegated`), that lose one
(`SumWithout`, `ConfidentWithout`) or are all on one side of zero (`SomeoneMoves`). The last
theorem assumes a least confidence of 40%, where the code has 50% (fusion.py,
`MIN_CONFIDENCE_TRADE`): below that, the loss of a confident seller could take the mean
confidence of the rest under the threshold.

**RedisClientProofs.** `BoundedOvershoot` (OvershootIsBounded), for any number of
callers and any limit. While a key exists, requests come in *rounds*, the first
opened by the SETEX that created it and one more by each caller that had found no
key and stores 1 later: while the key is there no caller comes to `Opening`, so that
with n callers there are at most n rounds. `CountInv` bounds the count, and the callers
that have read it and not counted yet, by the limit and the callers (`Others`) that will
not set it back; `KeyInv` bounds what the rounds before have let through by `Bound`, the
sum of these counts over the rounds there can have been.
`FlushIsComplete` (FlushEmpties): a
key neither stored since the flush began nor still to be visited is absent or
among those the flush will delete.

Only model-checked: liveness (`TriggeredOrdersResolve`, `EverythingSettles`,
`DecisionEnds`, `DeadConnectionsLeave`, `LimitsLift`, `StaleValuesLeave`), as the provers
know nothing of fairness and ENABLED, and the three disagreements, which are
counterexamples.


## 6. Abstractions

* Money is exact. Floating-point rounding, and the rounding of displayed values,
  are left out; `Nearest` keeps the rounding of the position size because the
  gate depends on it.
* Market data is nondeterministic: any quote of a small set, none, or a failure.
* Time is left out, except in `RedisClient`, where it is counted in ticks: sleeps
  end at some moment, timeouts are failures.
* What the technical agent says in `TradingSystem` and what the fused signal is
  in `BacktestEngine` is arbitrary, so that results do not depend on it.
* Indicators (pandas_ta) are nondeterministic readings, restricted only where one
  implies another. Of a signal's stop loss and target the side is kept; its
  explanation is left out.
* In `SignalFusion` the normalisation of weights cancels out in the mean.
* In `TradingSystem` and `BacktestEngine` the prices are multiples of 20 ticks,
  which makes the 5% stop loss a whole number of ticks; in `TradingSystem` sizes
  are in fractions of a share.

## 7. Not modelled

* LLM providers: network I/O behind an interface that no wired agent calls.
* Authentication: stateless functions that hash, sign and verify; no route
  depends on them.
* Database session and tables: nothing is stored or read yet.
* Market and strategy routes: one call of the provider, or a constant list.
* The providers' column mapping, resampling and symbol search, and the Finnhub
  provider but for its retries, as nothing creates it.
* The Redis event bus, which hands a message to Redis and forgets it, and the
  closing of the pool.
* MCP tools for market data, and the MCP server's own broker: a `PaperBroker`
  without provider in which every call runs to its end, hence a part of
  `PaperBroker`'s behaviour without interleavings.
* Configuration, logging, exceptions: no behaviour beyond the constants used.
* The frontend but for the dashboard's connection: rendering, and one REST call
  per button.

## 8. Plan

Done: broker, ledger, reports; gate and MCP risk tools; the composed process from
startup to exit; the agent graph with ablation; backtest with fetch and
tearsheet; hub and dashboard; strategies and fusion with levels; Redis client.
Proofs of all their safety and action properties, and of the broker's theorems
in the process and in the backtest.

Next, most important first:

1. The gate of `TradingSystem` and `BacktestEngine` judges with the initial state of
   the risk engine, as nothing changes it: once a caller updates P&L or
   peak, compose `RiskEngine` as a state machine and inherit its theorems too.
2. Decisions of `TradingSystem` and `BacktestEngine` drawn from `SignalFusion`
   instead of arbitrary ones, on one symbol.
3. `RedisClient` in front of a provider and a REST route, once a caller exists.

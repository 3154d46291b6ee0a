---------------------------- MODULE BacktestEngine ----------------------------
(***************************************************************************)
(* The backtest of one symbol (src/backtesting/engine.py): the history is  *)
(* fetched; for each bar behind the first MinHistoryBars the price is      *)
(* reported to the broker, the fused signal is turned into an order for    *)
(* one share, the order passes the risk gate and is placed; in the end the *)
(* position is closed beside the gate.  The broker has no data provider    *)
(* here, so no call suspends, and no order ever waits.                     *)
(*                                                                         *)
(* The tearsheet (src/backtesting/analytics.py) is computed from the trade *)
(* history, not from what the broker did.                                  *)
(***************************************************************************)
EXTENDS Integers, SequencesExt

CONSTANTS
    Symbol, Prices, Placeholder, NoRequest, NoPrice,
    InitialCapital, CommissionPct, HalfSpread, MaxSlippage,  \* see PaperBroker
    RequireStopLoss, MaxPositionPct, MaxLossPerTradePct,
    MaxOpenPositions, MaxDailyLossPct, MaxDrawdownPct,       \* see RiskEngine
    Engine,           \* the task that runs the backtest
    MinHistoryBars,   \* bars that only prime the indicators
    MaxBars,          \* bound: bars after these
    SettingsCapital   \* settings.paper_trading_initial_capital

ASSUME BacktestConstants ==
    /\ MinHistoryBars \in Nat /\ MaxBars \in Nat
    /\ Prices \subseteq Nat /\ Placeholder \in Nat
    /\ InitialCapital \in Nat /\ CommissionPct \in 0 .. 100
    /\ HalfSpread \in Nat /\ MaxSlippage \in Nat
    /\ \A p \in Prices : p > 0 /\ p % 20 = 0   \* 5% of a price is in ticks

VARIABLES
    cash, position, order, pending, tradeCount, placed, request, task,
    pc,        \* "fetch", "bar", "decide", "close", "cover", "done",
               \* "error" (a result that says so) or "raised"
    barsLeft,  \* bars to come
    bar,       \* close of the current bar
    history    \* trade_history: action and price

broker == <<cash, position, order, pending, tradeCount, placed, request, task>>
vars == <<broker, pc, barsLeft, bar, history>>

Broker == INSTANCE PaperBroker
            WITH Symbols <- {Symbol}, Tasks <- {Engine}, Requests <- {},
                 Updates <- {}, HasProvider <- FALSE, MaxOrders <- MaxBars + 1

ASSUME RequestConstants == NoRequest \notin Broker!Request

Gate == INSTANCE RiskEngine
          WITH Capital <- SettingsCapital, Requests <- {}, Accounts <- {},
               PnlChanges <- {}, PortfolioValues <- {}, MaxPnl <- 0,
               killSwitch <- FALSE, dailyPnl <- 0,
               peak <- 100 * SettingsCapital

Shares == position[Symbol].qty
Held == Shares # 0

\* get_account
Account == [cash |-> cash,
            equity |-> cash + 100 * (Shares * position[Symbol].price),
            positions |-> IF Held THEN 1 ELSE 0]

MarketOrder(side, quantity, stopLoss) ==
    [symbol |-> Symbol, side |-> side, type |-> "market",
     quantity |-> quantity, trigger |-> NoPrice, stopLoss |-> stopLoss]

\* The stop loss of an order: that of the most confident signal, which may
\* lie on either side of the price, or 5% against the order without one.
StopLosses(side) ==
    {bar - bar \div 10, bar + bar \div 10,
     IF side = "buy" THEN bar - bar \div 20 ELSE bar + bar \div 20}

-----------------------------------------------------------------------------
(* run *)

\* What YFinanceProvider.get_historical_data may meet: an exception, a frame
\* with or without the columns asked for, and in it rows without gaps.
Frames == [raises : BOOLEAN, complete : BOOLEAN,
           rows : 0 .. MinHistoryBars + MaxBars]

\* Rows with gaps are dropped; a frame without rows, before or after that,
\* raises.
Usable(f) == ~f.raises /\ f.complete /\ f.rows > 0

\* The data are fetched: an exception of the provider ends the backtest.
Fetch ==
    /\ pc = "fetch"
    /\ \E f \in Frames :
         /\ pc' = IF ~Usable(f) THEN "raised"
                  ELSE IF f.rows < MinHistoryBars THEN "error" ELSE "bar"
         /\ barsLeft' = IF pc' = "bar" THEN f.rows - MinHistoryBars ELSE 0
    /\ \E p \in Prices : bar' = p
    /\ UNCHANGED <<broker, history>>

\* Mutant: the price of the bar is not reported to the broker.
NextBarUnreported ==
    /\ pc = "bar" /\ barsLeft > 0
    /\ \E p \in Prices : bar' = p
    /\ barsLeft' = barsLeft - 1
    /\ pc' = "decide"
    /\ UNCHANGED <<broker, history>>

NextBar ==
    /\ pc = "bar" /\ barsLeft > 0
    /\ \E p \in Prices : bar' = p /\ Broker!UpdatePrice(Engine, Symbol, p)
    /\ barsLeft' = barsLeft - 1
    /\ pc' = "decide"
    /\ UNCHANGED history

\* HOLD, NO_TRADE, or an order the gate refuses.
NoTrade ==
    /\ pc = "decide"
    /\ pc' = "bar"
    /\ UNCHANGED <<broker, barsLeft, bar, history>>

\* A REJECTED order is recorded as a trade too.
Trade ==
    /\ pc = "decide"
    /\ \E side \in {"buy", "sell"} : \E stopLoss \in StopLosses(side) :
         LET r == MarketOrder(side, 1, stopLoss)
         IN  /\ Gate!Approves(r, Account) /\ Broker!PlaceMarket(Engine, r)
             /\ history' = Append(history, [action |-> side, price |-> bar])
    /\ pc' = "bar"
    /\ UNCHANGED <<barsLeft, bar>>

\* The bars are over.
LastBarDone ==
    /\ pc = "bar" /\ barsLeft = 0
    /\ pc' = "close"
    /\ UNCHANGED <<broker, barsLeft, bar, history>>

\* The last price is reported for the open position, if there is one.
Close ==
    /\ pc = "close"
    /\ IF Held THEN Broker!UpdatePrice(Engine, Symbol, bar) /\ pc' = "cover"
               ELSE UNCHANGED broker /\ pc' = "done"
    /\ UNCHANGED <<barsLeft, bar, history>>

\* Mutant: a short position is closed by a sale too.
CoverBySelling ==
    /\ pc = "cover"
    /\ Broker!PlaceMarket(Engine,
         MarketOrder("sell", IF Shares > 0 THEN Shares ELSE -Shares, NoPrice))
    /\ pc' = "done"
    /\ UNCHANGED <<barsLeft, bar, history>>

\* The position is closed by a market order that passes no gate.
Cover ==
    /\ pc = "cover"
    /\ Broker!PlaceMarket(Engine,
         IF Shares > 0 THEN MarketOrder("sell", Shares, NoPrice)
                       ELSE MarketOrder("buy", -Shares, NoPrice))
    /\ pc' = "done"
    /\ UNCHANGED <<barsLeft, bar, history>>

Init ==
    /\ Broker!Init
    /\ pc = "fetch"
    /\ barsLeft = 0
    /\ bar = 0
    /\ history = <<>>

Next == Fetch \/ NextBar \/ NoTrade \/ Trade \/ LastBarDone \/ Close \/ Cover

\* run awaits nothing but the data and the broker.
Spec == Init /\ [][Next]_vars /\ WF_vars(Next)

-----------------------------------------------------------------------------
(* calculate_tearsheet *)

NoTrips == [side |-> "none", entry |-> 0, profits |-> <<>>, losses |-> <<>>]

Booked(m, pnl) ==
    IF pnl > 0 THEN [m EXCEPT !.side = "none", !.profits = Append(@, pnl)]
               ELSE [m EXCEPT !.side = "none", !.losses = Append(@, pnl)]

\* Mutant: a short is booked like a long.
MatchTradeShortsAsLongs(m, t) ==
    CASE m.side = "none" ->
           [m EXCEPT !.side = IF t.action = "buy" THEN "long" ELSE "short",
                     !.entry = t.price]
      [] m.side = "long" /\ t.action = "sell" -> Booked(m, t.price - m.entry)
      [] m.side = "short" /\ t.action = "buy" -> Booked(m, t.price - m.entry)
      [] OTHER -> m

\* The next trade of the history opens a round trip, completes the one that
\* is open, or adds to it and is ignored.
MatchTrade(m, t) ==
    CASE m.side = "none" ->
           [m EXCEPT !.side = IF t.action = "buy" THEN "long" ELSE "short",
                     !.entry = t.price]
      [] m.side = "long" /\ t.action = "sell" -> Booked(m, t.price - m.entry)
      [] m.side = "short" /\ t.action = "buy" -> Booked(m, m.entry - t.price)
      [] OTHER -> m

RoundTrips(trades) == FoldLeft(MatchTrade, NoTrips, trades)

Total(pnls) == SumFunction(pnls)

Deeper(d, e) == d.num * e.den > e.num * d.den

\* The proxy of an equity curve: all profits, then all losses.
PnlOrder(trips) == trips.profits \o trips.losses

\* The curve before the first and after the next trip, with the worst fall
\* from a peak as a fraction of it.
NewCurve == [equity |-> InitialCapital, peak |-> InitialCapital,
             worst |-> [num |-> 0, den |-> 1]]

AddTrip(curve, pnl) ==
    LET equity == curve.equity + pnl
        peak == IF equity > curve.peak THEN equity ELSE curve.peak
        fall == [num |-> peak - equity, den |-> peak]
    IN  [equity |-> equity, peak |-> peak,
         worst |-> IF Deeper(fall, curve.worst) THEN fall ELSE curve.worst]

MaxDrawdown(pnls) == FoldLeft(AddTrip, NewCurve, pnls).worst

\* What run returns; executed_trades counts what the history records.
Result == [initialCapital |-> 100 * InitialCapital, finalEquity |-> Account.equity,
           totalTrades |-> Len(history), trades |-> history]

\* calculate_tearsheet of the result, as main of run_backtest asks for it.
\* The profit factor is infinite where its denominator is 0; the win rate is
\* that of the trips, the return that of the account.
Tearsheet ==
    LET trips == RoundTrips(Result.trades)
        completed == Len(trips.profits) + Len(trips.losses)
    IN  [totalReturn |-> [num |-> Result.finalEquity - Result.initialCapital,
                          den |-> Result.initialCapital],
         totalTrades |-> completed,
         winRate |-> [num |-> Len(trips.profits), den |-> completed],
         profitFactor |-> [num |-> Total(trips.profits), den |-> -Total(trips.losses)],
         maxDrawdown |-> MaxDrawdown(PnlOrder(trips))]

-----------------------------------------------------------------------------
(* Properties *)

\* A finished backtest holds no position, so that its final equity is cash;
\* only a short position whose cover cannot be paid for stays open.
EndsFlatOrBroke ==
    pc = "done" /\ Held =>
      Shares < 0 /\ cash < (100 + CommissionPct)
                             * (-Shares) * (bar + HalfSpread + MaxSlippage)

\* The order that a step filled, if it filled one.
FilledNow(id) == Broker!Filled(id)' /\ ~Broker!Filled(id)

FairFill(id) ==
    order'[id].fill \in Broker!FillPrices(request'[id].side, bar)

\* An order for a symbol that is held is filled at the price of the bar it is
\* decided on, spread and slippage apart, and not at the price of the last
\* fill or of an earlier bar; the final close is filled at the last price.
HeldFillsAtBarPrice ==
    [][\A id \in Broker!OrderIds : Held /\ FilledNow(id) => FairFill(id)]_vars

Lots(action) == IF action = "buy" THEN 1 ELSE -1

\* The net of the first n trades of the history.
NetLots(n) == Total([i \in 1 .. n |-> Lots(history[i].action)])

\* The recorded trades the broker refused: their orders have their numbers.
Refused ==
    Total([i \in DOMAIN history |->
             IF order[i].status = "rejected" THEN Lots(history[i].action) ELSE 0])

\* The shares the final close moved; it is an order like any other, but no
\* recorded trade.
Closed ==
    IF placed > Len(history) /\ Broker!Filled(placed)
      THEN Broker!SignedQty(request[placed])
      ELSE 0

\* The tearsheet sees only the history, and the history is not what the broker
\* did: a rejected order is recorded as a trade (engine.py:148), and the final
\* close is not recorded (engine.py:172).  These two are all that is wrong:
\* the broker holds what the recorded trades come to without the refused ones
\* and with the close, after every step and in particular in the end, when the
\* tearsheet is computed.  As long as the recorded trades never come to more
\* than one share, the tearsheet tells these trades and no others: its open
\* trip is their net, so that a backtest that closed its position reports it
\* as still open and leaves its last trip out; every trade belongs to one
\* trip, each completed trip counts once, and profits and losses are what the
\* recorded trades earned, an open trip taken at its entry.
TearsheetTellsTheTrades ==
    LET told == NetLots(Len(history))
        trips == RoundTrips(history)
        sheet == Tearsheet
    IN  /\ Shares = told - Refused + Closed
        /\ (\A n \in DOMAIN history : NetLots(n) \in -1 .. 1) =>
             /\ trips.side = CASE told = 0  -> "none"
                               [] told = 1  -> "long"
                               [] told = -1 -> "short"
             /\ Result.totalTrades =
                  2 * sheet.totalTrades + (IF told = 0 THEN 0 ELSE 1)
             /\ sheet.profitFactor.num - sheet.profitFactor.den =
                  told * trips.entry
                    - Total([i \in DOMAIN history |->
                               Lots(history[i].action) * history[i].price])

\* What the documentation promises and the code does not do.

\* The broker's "Execution simulation uses current market data for realistic
\* fills": the fill of every order is at the price of its bar.
FillsAtBarPrice ==
    [][\A id \in Broker!OrderIds : FilledNow(id) => FairFill(id)]_vars
=============================================================================

----------------------------- MODULE RiskEngine ------------------------------
(***************************************************************************)
(* The risk gate (src/risk/engine.py): validate_order as a predicate on an *)
(* order request and an account, and the state its limits refer to.        *)
(*                                                                         *)
(* Amounts are in hundredths of a tick, as the cash of PaperBroker;        *)
(* request prices are in ticks.  Limits are whole percentages.             *)
(***************************************************************************)
EXTENDS Integers

CONSTANTS
    NoPrice,             \* None
    Capital,             \* settings.paper_trading_initial_capital, in ticks
    RequireStopLoss,     \* settings.require_stop_loss
    MaxPositionPct,      \* settings.max_position_size_pct
    MaxLossPerTradePct,  \* settings.max_loss_per_trade_pct
    MaxOpenPositions,    \* settings.max_open_positions
    MaxDailyLossPct,     \* settings.max_daily_loss_pct
    MaxDrawdownPct,      \* settings.max_portfolio_drawdown_pct
    Requests,            \* the OrderRequests submitted for validation
    Accounts,            \* the accounts they are validated against
    PnlChanges,          \* amounts given to update_daily_pnl
    PortfolioValues,     \* amounts given to update_peak_value
    MaxPnl               \* bound on the size of the daily P&L

ASSUME RiskConstants ==
    /\ Capital \in Nat \ {0}
    /\ RequireStopLoss \in BOOLEAN
    /\ MaxPositionPct \in Nat
    /\ MaxLossPerTradePct \in Nat
    /\ MaxOpenPositions \in Nat
    /\ MaxDailyLossPct \in Nat
    /\ MaxDrawdownPct \in 0 .. 100
    /\ NoPrice \notin Int
    /\ Requests \subseteq [side : {"buy", "sell"}, quantity : Int,
                           trigger : Nat \cup {NoPrice},
                           stopLoss : Nat \cup {NoPrice}]
    /\ Accounts \subseteq [equity : Int, cash : Int, positions : Nat]
    /\ PnlChanges \subseteq Int
    /\ PortfolioValues \subseteq Int
    /\ MaxPnl \in Nat

VARIABLES
    killSwitch,   \* _kill_switch_active
    dailyPnl,     \* _daily_pnl
    peak          \* _peak_value

vars == <<killSwitch, dailyPnl, peak>>

-----------------------------------------------------------------------------
(* validate_order *)

\* A price that Python takes for true: neither None nor 0.
Given(p) == p \notin {NoPrice, 0}

\* The price the order is judged at: market orders carry none, and are taken
\* to execute 2% above their stop loss.
Entry(r) == IF Given(r.trigger) THEN 100 * r.trigger
            ELSE IF Given(r.stopLoss) THEN 102 * r.stopLoss ELSE 0

Value(r) == r.quantity * Entry(r)

StopLossOK(r) == RequireStopLoss => r.stopLoss # NoPrice

\* Mutant: the size of sales is not limited.
PositionSizeOfBuysOnly(r, a) ==
    r.side = "buy" /\ a.equity > 0 /\ Value(r) > 0 =>
      100 * Value(r) <= MaxPositionPct * a.equity

\* Checked only when there is something to divide by.
PositionSizeOK(r, a) ==
    a.equity > 0 /\ Value(r) > 0 =>
      100 * Value(r) <= MaxPositionPct * a.equity

Distance(x, y) == IF x >= y THEN x - y ELSE y - x

RiskPerTradeOK(r, a) ==
    Given(r.stopLoss) /\ a.equity > 0 =>
      100 * (Distance(Entry(r), 100 * r.stopLoss) * r.quantity)
        <= MaxLossPerTradePct * a.equity

\* Mutant: one position too many.
OpenPositionsOffByOne(a) == a.positions <= MaxOpenPositions

OpenPositionsOK(a) == a.positions < MaxOpenPositions

DailyLossOK == dailyPnl < 0 => -dailyPnl < MaxDailyLossPct * Capital

\* Mutant: guarded like the size and risk checks.
DrawdownSkippedWithoutEquity(a) ==
    peak > 0 /\ a.equity > 0 =>
      100 * (peak - a.equity) < MaxDrawdownPct * peak

\* Mutant: the distance from the peak, in either direction.
DrawdownEitherWay(a) ==
    peak > 0 => 100 * Distance(peak, a.equity) < MaxDrawdownPct * peak

DrawdownOK(a) ==
    peak > 0 => 100 * (peak - a.equity) < MaxDrawdownPct * peak

FundsOK(r, a) == r.side = "buy" /\ Value(r) > 0 => Value(r) <= a.cash

Approves(r, a) ==
    /\ ~killSwitch
    /\ StopLossOK(r)
    /\ PositionSizeOK(r, a)
    /\ RiskPerTradeOK(r, a)
    /\ OpenPositionsOK(a)
    /\ DailyLossOK
    /\ DrawdownOK(a)
    /\ FundsOK(r, a)

-----------------------------------------------------------------------------
(* Operations *)

ActivateKillSwitch ==
    /\ killSwitch' = TRUE
    /\ UNCHANGED <<dailyPnl, peak>>

DeactivateKillSwitch ==
    /\ killSwitch' = FALSE
    /\ UNCHANGED <<dailyPnl, peak>>

\* The kill switch goes on when the accumulated loss reaches the limit.
UpdateDailyPnl(d) ==
    /\ dailyPnl + d \in -MaxPnl .. MaxPnl
    /\ dailyPnl' = dailyPnl + d
    /\ killSwitch' = (killSwitch \/ /\ dailyPnl' < 0
                                    /\ -dailyPnl' >= MaxDailyLossPct * Capital)
    /\ UNCHANGED peak

UpdatePeakValue(v) ==
    /\ peak' = IF v > peak THEN v ELSE peak
    /\ UNCHANGED <<killSwitch, dailyPnl>>

ResetDaily ==
    /\ dailyPnl' = 0
    /\ UNCHANGED <<killSwitch, peak>>

Init ==
    /\ killSwitch = FALSE
    /\ dailyPnl = 0
    /\ peak = 100 * Capital

Next ==
    \/ ActivateKillSwitch
    \/ DeactivateKillSwitch
    \/ \E d \in PnlChanges : UpdateDailyPnl(d)
    \/ \E v \in PortfolioValues : UpdatePeakValue(v)
    \/ ResetDaily

Spec == Init /\ [][Next]_vars

-----------------------------------------------------------------------------
(* Properties *)

\* Every variable has its type; the peak starts positive and stays so.
TypeOK ==
    /\ killSwitch \in BOOLEAN
    /\ dailyPnl \in Int
    /\ peak \in Nat \ {0}

\* An account without equity gets no order through, although the size and
\* risk checks of validate_order are skipped for it.
NoEquityNoTrade ==
    \A r \in Requests, a \in Accounts : a.equity <= 0 => ~Approves(r, a)

\* b is at least as sound an account as a.
AtLeastAsSound(b, a) ==
    /\ b.equity >= a.equity
    /\ b.cash >= a.cash
    /\ b.positions <= a.positions

\* An order approved for one account is approved for every sounder one: no
\* check gets stricter, or starts to apply, as an account improves.
GateIsMonotone ==
    \A r \in Requests, a, b \in Accounts :
      Approves(r, a) /\ AtLeastAsSound(b, a) => Approves(r, b)

LossLimitReached == dailyPnl <= -(MaxDailyLossPct * Capital) /\ dailyPnl < 0

\* The step that takes the day's loss to the limit raises the kill switch
\* however small it is.
LossLimitRaisesKillSwitch ==
    [][LossLimitReached' /\ ~LossLimitReached => killSwitch']_vars
=============================================================================

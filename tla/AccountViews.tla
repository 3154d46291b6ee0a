----------------------------- MODULE AccountViews -----------------------------
(***************************************************************************)
(* What the process tells about the paper account: the portfolio routes    *)
(* (src/api/routes/portfolio.py), the account tools of the MCP server and  *)
(* the status of the engine.  Each is computed from get_account,           *)
(* get_positions and get_open_orders, none of which suspends, so that it   *)
(* is a function of one state of PaperBroker.                              *)
(*                                                                         *)
(* Amounts are in hundredths of a tick; the unrealised P&L, which depends  *)
(* on the average entry price, is an exact fraction of ticks.  P&L is      *)
(* measured from the configured capital, with which the process creates    *)
(* its broker.                                                             *)
(***************************************************************************)
EXTENDS PaperBroker

Plus(a, b) == [num |-> a.num * b.den + b.num * a.den, den |-> a.den * b.den]

Unsigned(q) == IF q < 0 THEN -q ELSE q

\* An element of get_positions.
PositionView(s) ==
    LET pos == position[s]
    IN  [side |-> IF pos.qty > 0 THEN "long" ELSE "short",
         marketValue |-> 100 * (Unsigned(pos.qty) * pos.price),
         unrealized |-> [num |-> (pos.price * pos.avg.den - pos.avg.num) * pos.qty,
                         den |-> pos.avg.den]]

HeldSymbols == {s \in Symbols : Held(s)}

\* get_open_orders of the broker, with its three ways out: GET /orders, the
\* tool of the MCP server, and the count in the engine's status.
OpenOrders == {id \in OrderIds : Open(id)}

\* get_account: portfolio_value and equity.
Equity == cash + SumFunction([s \in HeldSymbols |->
                                100 * (position[s].qty * position[s].price)])

\* GET /exposure and get_portfolio_exposure.
Exposure ==
    LET Of(side) == SumFunction(
                      [s \in {x \in HeldSymbols : PositionView(x).side = side} |->
                         PositionView(s).marketValue])
    IN  [long |-> Of("long"), short |-> Of("short"),
         net |-> Of("long") - Of("short")]

\* GET /pnl.
Pnl == [total |-> Equity - 100 * InitialCapital,
        unrealized |-> FoldFunction(Plus, Zero,
                         [s \in HeldSymbols |-> PositionView(s).unrealized])]

\* get_portfolio_exposure of the MCP server: both sides together, as a share
\* of the account's value where it has one.
PortfolioExposure ==
    LET total == Exposure.long + Exposure.short
    IN  [total |-> total, net |-> Exposure.net,
         share |-> IF Equity > 0 THEN [num |-> total, den |-> Equity] ELSE Zero,
         positions |-> Cardinality(HeldSymbols)]

\* get_pnl of the MCP server.
ToolPnl == [total |-> Equity - 100 * InitialCapital,
            unrealized |-> Pnl.unrealized,
            positions |-> Cardinality(HeldSymbols)]

\* get_status of the engine: its return is on the capital it was made with.
EngineStatus ==
    [equity |-> Equity, positions |-> {PositionView(s) : s \in HeldSymbols},
     openOrders |-> Cardinality(OpenOrders),
     return |-> [num |-> Equity - 100 * InitialCapital, den |-> InitialCapital]]

-----------------------------------------------------------------------------
(* Properties *)

\* The reports agree with each other and with the order records: exposure
\* and cash make up the account's value; an account without short positions is
\* never shown as more than fully invested, whoever spends at the same time;
\* on an account that never sold the total P&L is the unrealised P&L of its
\* positions less the commissions it paid; and what is shown as open, other
\* than the orders that still wait, is an order a task is executing.
ReportsAddUp ==
    /\ EngineStatus.equity = cash + PortfolioExposure.net
    /\ Exposure.short = 0 => PortfolioExposure.share.num <= PortfolioExposure.share.den
                               \/ Equity <= 0
    /\ (\A id \in FilledIds : request[id].side = "buy") =>
         ToolPnl.total * ToolPnl.unrealized.den =
           100 * ToolPnl.unrealized.num
             - ToolPnl.unrealized.den *
                 SumFunction([id \in FilledIds |->
                                Commission(request[id], order[id].fill)])
    /\ EngineStatus.openOrders <=
         Cardinality(pending) + Cardinality({t \in Tasks : task[t].pc = "fetch"})
=============================================================================

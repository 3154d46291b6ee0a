------------------------------ MODULE McpTools -------------------------------
(***************************************************************************)
(* The risk tools of the MCP server (src/mcp/server.py), which advise a    *)
(* language model before it trades: calculate_position_size suggests a     *)
(* quantity, calculate_risk judges an order.  Both repeat by hand, over    *)
(* the account of the server's own broker, what the risk gate checks.      *)
(*                                                                         *)
(* An order is a request of RiskEngine whose trigger is the tool's         *)
(* entry_price.                                                            *)
(***************************************************************************)
EXTENDS RiskEngine

CONSTANTS
    MinRewardPct,  \* settings.min_risk_reward_ratio, in hundredths
    TakeProfits,   \* take profits given to calculate_risk
    RiskPcts,      \* the risk_pct given to calculate_position_size
    Grain          \* parts of a share that a suggestion is rounded to

ASSUME McpConstants ==
    /\ MinRewardPct \in Nat
    /\ TakeProfits \subseteq Nat \cup {NoPrice}
    /\ RiskPcts \subseteq Nat
    /\ Grain \in Nat \ {0}

-----------------------------------------------------------------------------
(* calculate_risk: one operator for each check, in integers.                *)

PositionValue(r) == r.quantity * (100 * r.trigger)

PerShareRisk(r) == 100 * Distance(r.trigger, r.stopLoss)

\* Mutant: the risk of one share.
ToolRiskOfOneShare(r, a) == 100 * PerShareRisk(r) <= MaxLossPerTradePct * a.equity

\* The code divides by the equity: it raises without any, and a negative one
\* turns the comparison around.
AtMostPercent(amount, percent, a) ==
    \/ a.equity > 0 /\ 100 * amount <= percent * a.equity
    \/ a.equity < 0 /\ 100 * amount >= percent * a.equity

ToolSizeOK(r, a) == AtMostPercent(PositionValue(r), MaxPositionPct, a)

ToolRiskOK(r, a) ==
    AtMostPercent(PerShareRisk(r) * r.quantity, MaxLossPerTradePct, a)

ToolRewardOK(r, takeProfit) ==
    takeProfit # NoPrice =>
      IF r.trigger = r.stopLoss THEN MinRewardPct = 0
      ELSE 100 * Distance(takeProfit, r.trigger)
             >= MinRewardPct * Distance(r.trigger, r.stopLoss)

ToolFundsOK(r, a) == r.side = "buy" => PositionValue(r) <= a.cash

\* all_checks_passed.
ToolPasses(r, a, takeProfit) ==
    /\ ToolSizeOK(r, a)
    /\ OpenPositionsOK(a)
    /\ ToolRiskOK(r, a)
    /\ r.stopLoss > 0
    /\ ToolRewardOK(r, takeProfit)
    /\ ToolFundsOK(r, a)

-----------------------------------------------------------------------------
(* calculate_position_size *)

\* round(n / d, 0) but for the side a half goes to.
Rounded(n, d) == (2 * n + d) \div (2 * d)

\* Mutant: the size of the position is not limited.
SuggestedByRisk(r, a, riskPct) ==
    Rounded(Grain * a.equity *
              (IF riskPct < MaxLossPerTradePct THEN riskPct ELSE MaxLossPerTradePct),
            100 * PerShareRisk(r))

\* recommended_quantity, in parts of a share: what risks riskPct, capped by
\* the largest position.
Suggested(r, a, riskPct) ==
    LET risked == a.equity *
                    IF riskPct < MaxLossPerTradePct THEN riskPct ELSE MaxLossPerTradePct
        largest == a.equity * MaxPositionPct
        tooLarge == risked * (100 * r.trigger) > largest * PerShareRisk(r)
    IN  IF tooLarge THEN Rounded(Grain * largest, 100 * (100 * r.trigger))
                    ELSE Rounded(Grain * risked, 100 * PerShareRisk(r))

-----------------------------------------------------------------------------
(* Properties *)

\* Orders both can judge: a limit price, a stop loss and a quantity.
Judgeable(r) == Given(r.trigger) /\ Given(r.stopLoss) /\ r.quantity > 0

\* calculate_risk and validate_order, written apart with different guards
\* and divisions, agree on every such order and account: what passes the tool is
\* what the gate approves and has enough reward, but for the three conditions
\* the tool does not look at, of which its documentation promises two.
ToolAgreesWithGate ==
    \A r \in Requests, a \in Accounts, t \in TakeProfits :
      Judgeable(r) =>
        (/\ Approves(r, a)
         /\ ToolRewardOK(r, t))
        <=> (/\ ToolPasses(r, a, t)
             /\ ~killSwitch /\ DailyLossOK /\ DrawdownOK(a))

\* r with a quantity in parts of a share, of which there are parts to one, and
\* its checks against the limits that calculate_position_size enforces.
WithinLimits(r, a, quantity, parts) ==
    LET order == [r EXCEPT !.quantity = quantity]
        account == [a EXCEPT !.equity = parts * a.equity]
    IN  ToolSizeOK(order, account) /\ ToolRiskOK(order, account)

\* The two tools agree too, on accounts the drawdown does not stop: up to the
\* last digit it is rounded to, a suggested quantity is within the limits of
\* calculate_risk, and unless less risk was asked for, a quantity larger by that
\* digit is not.
SuggestionIsTight ==
    \A r \in Requests, a \in Accounts, p \in RiskPcts :
      Judgeable(r) /\ r.trigger # r.stopLoss /\ DrawdownOK(a) =>
        /\ WithinLimits(r, a, 2 * Suggested(r, a, p) - 1, 2 * Grain)
        /\ p >= MaxLossPerTradePct =>
             ~WithinLimits(r, a, 2 * Suggested(r, a, p) + 2, 2 * Grain)
=============================================================================

---------------------------- MODULE MCRiskEngine -----------------------------
(* An instance of RiskEngine for TLC: requests and accounts on both sides of *)
(* every limit (capital 100 ticks, 5% per position, 1% per trade).           *)
EXTENDS McpTools

Req(side, q, at, stop) ==
    [side |-> side, quantity |-> q, trigger |-> at, stopLoss |-> stop]

Acct(equity, cash, n) == [equity |-> equity, cash |-> cash, positions |-> n]

McRequests == {
    Req("buy",  1, NoPrice, 4), Req("sell", 1, NoPrice, 4),
    Req("buy",  1, 5, 4),       Req("buy",  2, 3, 2),
    Req("buy",  1, NoPrice, 0), Req("buy",  1, 3, NoPrice),
    Req("sell", 1, 3, 4),       Req("buy",  1, 8, 7)}

McAccounts ==
    [equity : {-500, 0, 5000, 9000, 9100, 10000, 12000}, cash : {0, 400, 10000},
     positions : 0 .. 2]

McTakeProfits == {NoPrice, 4, 9}
McPnlChanges == {-100, -50, 80}
McPortfolioValues == {0, 9500, 10200, 11000, 12500}
=============================================================================

--------------------------- MODULE MCTradingSystem ---------------------------
(* Instances of TradingSystem for TLC. *)
EXTENDS TradingSystem

CONSTANTS s1, s2, l1, l2, a1

Req(s, side, type, q, at, stop) ==
    [symbol |-> s, side |-> side, type |-> type, quantity |-> q,
     trigger |-> at, stopLoss |-> stop]

TwoSymbols == <<s1, s2>>
OneSymbol == <<s1>>

\* A market order far above the size limit, and a limit order.
McApiRequests == {
    Req(s1, "buy", "market", 100, NoPrice, 19),
    Req(s2, "buy", "limit", 10, 60, 19)}

NoApiRequests == {}
=============================================================================

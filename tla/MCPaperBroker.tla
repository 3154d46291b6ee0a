---------------------------- MODULE MCPaperBroker ----------------------------
(* Instances of PaperBroker for TLC: the requests that callers submit. *)
EXTENDS AccountViews, TLC

CONSTANTS s1, s2, t1, t2

Req(s, side, type, q, at, stop) ==
    [symbol |-> s, side |-> side, type |-> type, quantity |-> q,
     trigger |-> at, stopLoss |-> stop]

Upd(limit, quantity) == [limit |-> limit, quantity |-> quantity]

TaskSymmetry == Permutations(Tasks)

\* Market orders for two symbols, a limit and a stop order that trigger at
\* the same price, and an invalid request.
CoreRequests == {
    Req(s1, "buy",  "market", 2, NoPrice, 1),
    Req(s2, "buy",  "market", 1, NoPrice, NoPrice),
    Req(s1, "sell", "market", 1, NoPrice, NoPrice),
    Req(s1, "buy",  "limit",  1, 2, NoPrice),
    Req(s1, "sell", "stop",   2, 2, NoPrice),
    Req(s1, "sell", "limit", -1, 2, NoPrice)}

CoreUpdates == {Upd(3, NoPrice), Upd(NoPrice, 2)}

\* Orders that trigger together, for the passes over several orders.
TriggerRequests == {
    Req(s1, "buy",  "market", 1, NoPrice, 2),
    Req(s1, "buy",  "limit",  1, 2, NoPrice),
    Req(s1, "sell", "stop",   1, 2, NoPrice)}

NoUpdates == {}
=============================================================================

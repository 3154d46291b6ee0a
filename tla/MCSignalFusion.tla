---------------------------- MODULE MCSignalFusion ----------------------------
(* The eight strategies in the order of run_backtest; the technical agent   *)
(* asks three of them, as if the others raised.                             *)
EXTENDS SignalFusion

McMinScoreSell == -MinScoreBuy

BacktestOrder ==
    <<"trend_following", "mean_reversion", "momentum", "regime", "breakout",
      "volatility", "event_driven", "statistical">>

\* Readings on both sides of every threshold that decides.  No context of the
\* two callers has events.
McMarkets ==
    [rows : {55, 230}, adx : {15, 40}, rsi : {15, 45, 75},
     volume : {8, 16}, volRatio : {4, 10, 18}, events : {FALSE}]

Bars == {b \in [low : 1 .. 2, close : 1 .. 2, high : 1 .. 2] : b \in Bar}

\* A z-score beyond 2 goes with a price at the band, on the same side.
Reversions ==
    {x \in [band : Signs, z : {-25, -10, 0, 10, 25}, far : BOOLEAN] :
       /\ x \in ReadingsOf("mean_reversion")
       /\ Size(x.z) > 20 => x.band # 0}

McReadings ==
    [n \in Range(BacktestOrder) |->
       CASE n = "trend_following" ->
              [fast : Signs, slow : Signs, before : Signs, price : Signs, di : {-1, 1}]
         [] n = "mean_reversion" -> Reversions
         [] n = "momentum" -> [roc : {-25, 0, 35}, macd : Signs]
         [] n = "breakout" -> [bars : [1 .. 3 -> Bars]]
         [] n = "statistical" -> [pz : {-25, 0, 25, 35}]
         [] OTHER -> {<<>>}]
=============================================================================

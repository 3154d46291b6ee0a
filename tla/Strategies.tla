------------------------------ MODULE Strategies ------------------------------
(***************************************************************************)
(* The decision tables of the eight strategies (src/strategies): what each *)
(* signals, given readings of its indicators.  A strategy is an operator   *)
(* that returns the set of its signals, empty or with one element.         *)
(*                                                                         *)
(* Indicators are what pandas_ta computes from the price history; only     *)
(* what the code compares them with is kept.  m holds the readings that    *)
(* several strategies take from the same history:                          *)
(*   rows      number of bars                                              *)
(*   adx       ADX(14)                                                     *)
(*   rsi       RSI(14)                                                     *)
(*   volume    volume over its average of 20 bars, in tenths               *)
(*   volRatio  volatility of 10 bars over that of 60, in tenths            *)
(*   events    is there news or an economic event in the context?          *)
(* and x those of one strategy, with signs -1, 0, 1 for comparisons.       *)
(* Scores, strengths and confidences are in thousandths.                   *)
(***************************************************************************)
EXTENDS Integers, SequencesExt

\* The side of a direction, and of a price from the entry.
Side(direction) == CASE direction = "buy" -> 1 [] direction = "sell" -> -1 [] OTHER -> 0

\* stop and target say on which side of the entry the stop loss and the take
\* profit lie, 0 for None.  Here they are multiples of the ATR away.
Signal(strategy, direction, strength, confidence) ==
    [strategy |-> strategy, direction |-> direction, strength |-> strength,
     confidence |-> confidence, stop |-> -Side(direction), target |-> Side(direction)]

\* The target is a mean of the price, which lies at toMean.
SignalToMean(strategy, direction, strength, confidence, toMean) ==
    [Signal(strategy, direction, strength, confidence) EXCEPT !.target = toMean]

Size(n) == IF n < 0 THEN -n ELSE n
One(condition) == IF condition THEN 1 ELSE 0

\* The sign of a reading beyond a threshold on either side.
Beyond(value, low, high) == One(value > high) - One(value < low)

\* The direction of a net score; tie says whether a score that equals the
\* threshold passes it.
Direction(net, threshold, tie) ==
    IF Size(net) < threshold \/ (Size(net) = threshold /\ ~tie) THEN "hold"
    ELSE IF net > 0 THEN "buy" ELSE "sell"

-----------------------------------------------------------------------------
(* Trend following: x.fast, x.slow compare EMA 20 with EMA 50 and EMA 50    *)
(* with EMA 200, x.before the former one bar earlier, x.price the price     *)
(* with EMA 20, and x.di +DI with -DI.                                      *)

\* x.fast > x.slow > 0 in the sense of the chain of comparisons.
Chain(first, second) == IF first = second THEN first ELSE 0

TrendStrength(m) == IF m.adx > 25 THEN 200 + Min({20 * (m.adx - 25), 250}) ELSE 0

\* The recent crossover of the two faster averages.
Crossover(x) == IF (x.fast = 1 /\ x.before <= 0) \/ (x.fast = -1 /\ x.before >= 0)
                  THEN x.fast ELSE 0

\* Volume above average counts for both sides and drops out of the net.
TrendNet(m, x) ==
    300 * Chain(x.fast, x.slow) + 150 * Chain(x.price, x.fast)
      + 150 * Crossover(x) + TrendStrength(m) * (IF x.di = 1 THEN 1 ELSE -1)

\* Except for a net of exactly 0.3: in floating point 0.4 - 0.1 exceeds 0.3,
\* as does 0.45 - 0.15.
TrendTie(m, x) == m.volume > 10 \/ (TrendStrength(m) = 450 /\ Chain(x.fast, x.slow) = 0)

\* A HOLD has a confidence too; a SELL may be stronger than 1.
TrendFollowing(m, x) ==
    LET net == TrendNet(m, x)
        direction == Direction(net, 300, TrendTie(m, x))
        aligned == One(direction # "hold") + One(m.adx > 25)
                     + One(m.volume > 10) + One(Size(net) > 400)
        strength == CASE direction = "buy" -> Min({net, 1000})
                      [] direction = "sell" -> -net
                      [] direction = "hold" -> 0
    IN  IF m.rows < 220 THEN {}
        ELSE {Signal("trend_following", direction, strength,
                     Min({400 + 150 * aligned, 950}))}

-----------------------------------------------------------------------------
(* Momentum: x.roc is the rate of change in tenths of a percent, x.macd the *)
(* sign of the MACD histogram when it expands.                              *)

\* Mutant: the zone of bearish momentum starts where the bullish one ends.
MomentumNetSkewedZones(m, x) ==
    300 * Beyond(x.roc, -20, 20) + 250 * x.macd
      + 150 * (One(50 < m.rsi /\ m.rsi < 80) - One(m.rsi < 50))

MomentumNet(m, x) ==
    300 * Beyond(x.roc, -20, 20) + 250 * x.macd
      + 150 * (One(50 < m.rsi /\ m.rsi < 80) - One(20 < m.rsi /\ m.rsi < 50))

Momentum(m, x) ==
    LET net == MomentumNet(m, x)
        strong == m.volume > 12
        direction == Direction(net, 300, strong)
        confirmed == One(Size(net) > 400) + One(strong) + One(Size(x.roc) > 30)
    IN  IF m.rows < 56 \/ direction = "hold" THEN {}
        ELSE {Signal("momentum", direction, Size(net),
                     Min({350 + 150 * confirmed, 900}))}

-----------------------------------------------------------------------------
(* Mean reversion: x.band is the side of the Bollinger bands the price is   *)
(* at or beyond, x.z its z-score over 20 bars in tenths, x.far whether it   *)
(* is more than 2% from the mean.                                           *)

ReversionNet(m, x) ==
    -300 * x.band - 250 * Beyond(m.rsi, 30, 70) - 250 * Beyond(x.z, -20, 20)
      - IF x.far THEN 100 * Beyond(x.z, 0, 0) ELSE 0

MeanReversion(m, x) ==
    LET net == ReversionNet(m, x)
        extreme == Beyond(m.rsi, 30, 70) # 0
        direction == Direction(net, 300, extreme)
        signs == 1 + One(extreme) + One(Size(x.z) > 20)
    IN  IF m.rows < 50 \/ direction = "hold" THEN {}
        ELSE {SignalToMean("mean_reversion", direction, Size(net),
                           Min({350 + 200 * signs, 900}), -Beyond(x.z, 0, 0))}

-----------------------------------------------------------------------------
(* Breakout: x.bars are the latest bars, one more than the rolling window   *)
(* is long.                                                                 *)

\* rolling(lookback): the window includes the bar itself.
Window(bars, last) == SubSeq(bars, Max({1, last - Len(bars) + 2}), last)

Resistance(bars, last) == Max({b.high : b \in Range(Window(bars, last))})
Support(bars, last) == Min({b.low : b \in Range(Window(bars, last))})

\* The side on which the latest close leaves the range the previous one kept.
Broken(bars) ==
    LET n == Len(bars)
    IN  CASE bars[n].close > Resistance(bars, n)
               /\ bars[n - 1].close <= Resistance(bars, n - 1) -> 1
          [] bars[n].close < Support(bars, n)
               /\ bars[n - 1].close >= Support(bars, n - 1) -> -1
          [] OTHER -> 0

\* An expanding ATR counts for both sides; what is left exceeds 0.2.
Breakout(m, x) ==
    LET strong == m.volume > 15
        net == Broken(x.bars) * IF strong THEN 600 ELSE 240
        direction == Direction(net, 200, FALSE)
    IN  IF m.rows < 50 \/ direction = "hold" THEN {}
        ELSE {Signal("breakout", direction, Size(net),
                     Min({400 + 200 * One(strong) + 200 * One(Size(net) > 400), 850}))}

-----------------------------------------------------------------------------
(* Volatility, events, statistics.                                          *)

\* A squeeze waits, an expansion reverts.
Volatility(m, x) ==
    LET extreme == Beyond(m.rsi, 30, 70)
    IN  CASE m.rows >= 80 /\ m.volRatio < 5 -> {Signal("volatility", "hold", 0, 500)}
          [] m.rows >= 80 /\ m.volRatio > 15 /\ extreme # 0 ->
               {Signal("volatility", Direction(-extreme, 1, TRUE), 600, 650)}
          [] OTHER -> {}

EventDriven(m, x) ==
    IF m.events THEN {Signal("event_driven", "hold", 0, 400)} ELSE {}

\* x.pz is the price's z-score over 60 bars, in tenths.  The distance to the
\* entry is measured from +2 on both sides: an oversold price, at least 4
\* away, always has the highest confidence.
StatisticalConfidence(x) == Min({450 + 10 * Size(x.pz - 20), 800})

Statistical(m, x) ==
    LET side == Beyond(x.pz, -20, 20)
    IN  IF m.rows < 60 \/ side = 0 THEN {}
        ELSE {SignalToMean("statistical", Direction(-side, 1, TRUE),
                           Min({(200 * Size(x.pz) + 3) \div 6, 1000}),
                           StatisticalConfidence(x), -Beyond(x.pz, 0, 0))}

-----------------------------------------------------------------------------
(* The regime classifier: signals HOLD and the regime with it.              *)

RegimeOf(m) ==
    CASE m.volRatio > 15 -> "high_volatility"
      [] m.volRatio < 5 -> "low_volatility"
      [] m.volRatio \in 5 .. 15 /\ m.adx > 25 -> "trending"
      [] m.volRatio \in 5 .. 15 /\ m.adx < 20 -> "ranging"
      [] OTHER -> "unknown"

RegimeConfidence(m) ==
    CASE RegimeOf(m) = "high_volatility" -> Min({500 + 20 * (m.volRatio - 15), 950})
      [] RegimeOf(m) = "low_volatility" -> Min({500 + 30 * (5 - m.volRatio), 900})
      [] RegimeOf(m) = "trending" -> Min({500 + 20 * (m.adx - 25), 900})
      [] RegimeOf(m) = "ranging" -> Min({500 + 15 * (20 - m.adx), 850})
      [] OTHER -> 400

Regime(m, x) ==
    IF m.rows < 80 THEN {} ELSE {Signal("regime", "hold", 0, RegimeConfidence(m))}

-----------------------------------------------------------------------------
(* What a price history can read like.                                      *)

MarketReadings ==
    [rows : Nat, adx : Nat, rsi : Int, volume : Nat, volRatio : Nat, events : BOOLEAN]

Signs == {-1, 0, 1}

Bar == {b \in [low : Int, close : Int, high : Int] :
          b.low <= b.close /\ b.close <= b.high}

\* The bands lie around the mean, and a price far from the mean is not at it:
\* the closes of the window are not all the same.
ReadingsOf(name) ==
    CASE name = "trend_following" ->
           [fast : Signs, slow : Signs, before : Signs, price : Signs, di : {-1, 1}]
      [] name = "momentum" -> [roc : Int, macd : Signs]
      [] name = "mean_reversion" ->
           {x \in [band : Signs, z : Int, far : BOOLEAN] :
              /\ x.band # 0 => x.band = Beyond(x.z, 0, 0)
              /\ x.z = 0 => ~x.far}
      [] name = "breakout" -> [bars : {bars \in Seq(Bar) : Len(bars) >= 2}]
      [] name = "statistical" -> [pz : Int]
      [] OTHER -> {<<>>}

\* generate_signals of the strategy with this name.
Generate(name, m, x) ==
    CASE name = "trend_following" -> TrendFollowing(m, x)
      [] name = "momentum" -> Momentum(m, x)
      [] name = "mean_reversion" -> MeanReversion(m, x)
      [] name = "breakout" -> Breakout(m, x)
      [] name = "volatility" -> Volatility(m, x)
      [] name = "event_driven" -> EventDriven(m, x)
      [] name = "statistical" -> Statistical(m, x)
      [] name = "regime" -> Regime(m, x)
=============================================================================

----------------------------- MODULE SignalFusion -----------------------------
(***************************************************************************)
(* The two places that turn a price history into a decision: the bars of a *)
(* backtest (src/backtesting/engine.py) and the technical agent            *)
(* (src/agents/nodes.py) ask strategies one after the other, collect their *)
(* signals and fuse them (src/signals/fusion.py).  One behaviour is one    *)
(* decision; Fuse is the function fuse.                                    *)
(*                                                                         *)
(* Strengths and confidences are in thousandths, weights in hundredths,    *)
(* weight modifiers in tenths, thresholds in percent, which makes scores   *)
(* and confidence exact fractions.  The code divides modified weights by   *)
(* their sum; as every strategy of the repository has a weight, that       *)
(* factor cancels in the weighted mean.                                    *)
(***************************************************************************)
EXTENDS Strategies

CONSTANTS
    Asked,          \* names of strategies in the order in which they are asked
    Markets,        \* readings that strategies share
    Readings,       \* of each strategy: its own readings
    MinScoreBuy, MinScoreSell, MinConfidence

Names == Range(Asked)

DefaultWeights ==
    [trend_following |-> 20, mean_reversion |-> 15, momentum |-> 18, breakout |-> 12,
     volatility |-> 8, event_driven |-> 10, statistical |-> 10, regime |-> 7]

\* What a regime changes; no regime and an unknown one change nothing.
RegimeWeightModifiers ==
    [trending |-> [trend_following |-> 15, momentum |-> 13,
                   mean_reversion |-> 5, breakout |-> 8],
     ranging |-> [trend_following |-> 5, momentum |-> 6, mean_reversion |-> 15,
                  statistical |-> 13, breakout |-> 12],
     high_volatility |-> [volatility |-> 15, mean_reversion |-> 12,
                          trend_following |-> 7, breakout |-> 6],
     low_volatility |-> [volatility |-> 13, breakout |-> 14, mean_reversion |-> 8]]

ASSUME FusionConstants ==
    /\ Asked \in Seq(DOMAIN DefaultWeights)
    /\ Markets \subseteq MarketReadings
    /\ DOMAIN Readings = Names
    /\ \A n \in Names : Readings[n] \subseteq ReadingsOf(n)
    /\ MinScoreBuy \in Nat
    /\ MinScoreSell = -MinScoreBuy
    /\ MinConfidence \in Nat

VARIABLES
    market,   \* the shared readings of the price history
    asked,    \* number of strategies asked so far
    signals   \* all_signals

vars == <<market, asked, signals>>

\* The regime comes with the signal of its classifier, if there is one.
MarketRegime(sigs) ==
    IF \E s \in Range(sigs) : s.strategy = "regime" THEN RegimeOf(market) ELSE "none"

Weight(n, regime) ==
    LET modified == /\ regime \in DOMAIN RegimeWeightModifiers
                    /\ n \in DOMAIN RegimeWeightModifiers[regime]
    IN  DefaultWeights[n] * IF modified THEN RegimeWeightModifiers[regime][n] ELSE 10

Count(sigs, d) == Cardinality({i \in DOMAIN sigs : sigs[i].direction = d})

Total(sigs, Term(_)) == SumFunction([i \in DOMAIN sigs |-> Term(sigs[i])])

\* Mutant: the stated convention that a strong sell has strength -1.
ScoreSigned(s) == IF s.direction = "hold" THEN 0 ELSE s.strength * s.confidence

Score(s) == CASE s.direction = "buy"  -> s.strength * s.confidence
              [] s.direction = "sell" -> -s.strength * s.confidence
              [] s.direction = "hold" -> 0

\* combined_score is WeightedSum / (1000000 * WeightTotal).
WeightedSum(sigs) ==
    Total(sigs, LAMBDA s : Score(s) * Weight(s.strategy, MarketRegime(sigs)))
WeightTotal(sigs) == Total(sigs, LAMBDA s : Weight(s.strategy, MarketRegime(sigs)))

\* Mutant: every signal with a direction counts as agreement.
ConfidenceOfAllVoters(sigs) ==
    LET buys == Count(sigs, "buy")  sells == Count(sigs, "sell")
    IN  4000 * (buys + sells) + 6 * Total(sigs, LAMBDA s : s.confidence)
          - IF buys > 0 /\ sells > 0 THEN 1800 * Min({buys, sells}) ELSE 0

\* confidence, in ten-thousandths and times the number of signals: the
\* agreement of the larger side and the average confidence, less a penalty
\* for conflict.  The cap of 0.95 lies above the threshold and is left out.
Confidence(sigs) ==
    LET buys == Count(sigs, "buy")  sells == Count(sigs, "sell")
    IN  4000 * Max({buys, sells}) + 6 * Total(sigs, LAMBDA s : s.confidence)
          - IF buys > 0 /\ sells > 0 THEN 1800 * Min({buys, sells}) ELSE 0

\* The confidence is rounded to thousandths before it is compared.
Confident(sigs) == Confidence(sigs) >= (100 * MinConfidence - 5) * Len(sigs)

Fuse(sigs) ==
    LET sum == WeightedSum(sigs)  total == WeightTotal(sigs)
    IN  CASE sigs = <<>> -> "no_trade"
          [] sigs # <<>> /\ Confident(sigs) /\ sum > 10000 * MinScoreBuy * total -> "buy"
          [] sigs # <<>> /\ Confident(sigs) /\ sum < 10000 * MinScoreSell * total -> "sell"
          [] OTHER -> IF Size(sum) < 100000 * total THEN "no_trade" ELSE "hold"

\* Mutant: the most confident signal, also one that waits.
BestOfAll(sigs) == SelectInSeq(sigs, LAMBDA s : \A t \in Range(sigs) : t.confidence <= s.confidence)

\* best_signal: the index of the first of the most confident signals that do
\* not hold, on whichever side, or 0.
BestSignal(sigs) ==
    LET moving == {s \in Range(sigs) : s.direction # "hold"}
    IN  SelectInSeq(sigs, LAMBDA s : /\ s \in moving
                                     /\ \A t \in moving : t.confidence <= s.confidence)

\* What a FusedSignal tells its reader: the decision with the trade
\* parameters and the regime.
FusedSignal(sigs) ==
    LET best == BestSignal(sigs)
    IN  [direction |-> Fuse(sigs),
         stop |-> IF best = 0 THEN 0 ELSE sigs[best].stop,
         target |-> IF best = 0 THEN 0 ELSE sigs[best].target,
         regime |-> MarketRegime(sigs)]

-----------------------------------------------------------------------------
\* The next strategy answers, or raises, which both callers ignore: signals
\* is at each moment a list that fuse can be given.
Ask ==
    /\ asked < Len(Asked)
    /\ asked' = asked + 1
    /\ \/ UNCHANGED signals
       \/ LET n == Asked[asked + 1]
          IN  \E x \in Readings[n] : \E s \in Generate(n, market, x) :
                signals' = Append(signals, s)
    /\ UNCHANGED market

Init == market \in Markets /\ asked = 0 /\ signals = <<>>

Next == Ask

Spec == Init /\ [][Next]_vars

-----------------------------------------------------------------------------
(* Properties *)

Opposite(d) == CASE d = "buy" -> "sell" [] d = "sell" -> "buy" [] OTHER -> d

Mirror(sigs) ==
    [i \in DOMAIN sigs |-> [sigs[i] EXCEPT !.direction = Opposite(@)]]

\* The fusion has no bias: when every strategy says the opposite, so does the
\* decision, although the two directions go through different thresholds,
\* lists and signs.
DirectionsAreMirrored == Fuse(Mirror(signals)) = Opposite(Fuse(signals))

\* A decision to trade always carries a stop loss and a target that enclose
\* the price it was made at, those of a signal for one of the two sides: the
\* gate, which wants a stop, never sees the backtest's substitutes of 5% and
\* 10% (src/backtesting/engine.py:127), and no target that is a mean lies on
\* the side of the stop.
EveryTradeHasLevels ==
    LET fused == FusedSignal(signals)
    IN  fused.direction \in {"buy", "sell"} =>
          fused.stop \in {-1, 1} /\ fused.target = -fused.stop

\* What a minority of sellers cannot do: where the decision is to buy, it still
\* is when one of them is silent or raises.  (When the sellers are as many as
\* the buyers they can: they count as agreement.)
DissentersDoNotHelp ==
    \A i \in DOMAIN signals :
      /\ signals[i].direction = "sell"
      /\ Count(signals, "sell") <= Count(signals, "buy")
      /\ Fuse(signals) = "buy"
      => Fuse(RemoveAt(signals, i)) = "buy"

\* The readings of the price history turned upside down.
MirrorMarket(m) == [m EXCEPT !.rsi = 100 - @]
MirrorBar(b) == [high |-> -b.low, low |-> -b.high, close |-> -b.close]
MirrorReading(n, x) ==
    CASE n = "breakout" -> [bars |-> [i \in DOMAIN x.bars |-> MirrorBar(x.bars[i])]]
      [] n = "mean_reversion" -> [x EXCEPT !.band = -@, !.z = -@]
      [] OTHER -> [r \in DOMAIN x |-> -x[r]]

\* The strategies have no bias: on the same history upside down each says the
\* opposite and, but for the statistical one, with the same confidence.  Only
\* the strength of a trend's SELL may differ, as it is not capped.
StrategiesAreMirrored ==
    asked = 0 =>
      \A n \in Names : \A x \in Readings[n] :
        LET here == Generate(n, market, x)
            there == Generate(n, MirrorMarket(market), MirrorReading(n, x))
        IN  /\ here = {} <=> there = {}
            /\ \A s \in here, t \in there :
                 /\ t.direction = Opposite(s.direction)
                 /\ n = "statistical" \/ t.confidence = s.confidence

\* What the breakout strategy does, contrary to what is said of it ("Detects
\* price breakouts", src/strategies/breakout.py:5; a weight of 12%): it never
\* signals, as the range that a close would have to leave includes the bar
\* that closes, whose high and low enclose the close.  No run asks for it.
BreakoutNeverSignals == \A s \in Range(signals) : s.strategy # "breakout"
=============================================================================

-------------------------- MODULE SignalFusionProofs --------------------------
(***************************************************************************)
(* The properties of SignalFusion, for every list of strategies, every     *)
(* reading and every threshold that the constants allow.                   *)
(*                                                                         *)
(* What each strategy signals is a matter of cases, one lemma a strategy;  *)
(* together they say that the collected signals are RealSignals.  The      *)
(* properties of the fusion follow from that and from lemmas about sums    *)
(* over a list: of a list whose terms change sign, and of a list that      *)
(* loses one of its elements.                                              *)
(***************************************************************************)
EXTENDS SignalFusion, FiniteSetTheorems, SequenceTheorems, TLAPS

-----------------------------------------------------------------------------
(* What a strategy signals *)

Directions == {"buy", "sell", "hold"}

\* The signals that a price history can cause: the stop loss on one side of
\* the price, the target on the other; the regime classifier waits, and no
\* breakout is among them.
RealSignals ==
    {s \in [strategy : DOMAIN DefaultWeights \ {"breakout"}, direction : Directions,
            strength : Nat, confidence : 0 .. 950, stop : Int, target : Int] :
       /\ s.stop = -Side(s.direction)
       /\ s.target = Side(s.direction)
       /\ s.strategy = "regime" => s.direction = "hold"}

\* What of a real signal counts in a fusion.
LEMMA RealFields ==
    ASSUME NEW s \in RealSignals
    PROVE  /\ s.strategy \in DOMAIN DefaultWeights /\ s.direction \in Directions
           /\ s.strength \in Nat /\ s.confidence \in Nat /\ s.confidence <= 950
           /\ s.strategy = "regime" => s.direction = "hold"
BY DEF RealSignals

\* The smaller and the larger of two numbers.
LEMMA MinMaxOfTwo ==
    ASSUME NEW a \in Int, NEW b \in Int
    PROVE  /\ Min({a, b}) = IF a <= b THEN a ELSE b
           /\ Max({a, b}) = IF a <= b THEN b ELSE a
<1>1. CASE a <= b
  <2>1. a \in {a, b} /\ \A y \in {a, b} : a <= y
    BY <1>1
  <2>2. \A x \in {a, b} : (\A y \in {a, b} : x <= y) => x = a
    BY <1>1
  <2>3. b \in {a, b} /\ \A y \in {a, b} : b >= y
    BY <1>1
  <2>4. \A x \in {a, b} : (\A y \in {a, b} : x >= y) => x = b
    BY <1>1
  <2>. QED
    BY <1>1, <2>1, <2>2, <2>3, <2>4 DEF Min, Max
<1>2. CASE b < a
  <2>1. b \in {a, b} /\ \A y \in {a, b} : b <= y
    BY <1>2
  <2>2. \A x \in {a, b} : (\A y \in {a, b} : x <= y) => x = b
    BY <1>2
  <2>3. a \in {a, b} /\ \A y \in {a, b} : a >= y
    BY <1>2
  <2>4. \A x \in {a, b} : (\A y \in {a, b} : x >= y) => x = a
    BY <1>2
  <2>. QED
    BY <1>2, <2>1, <2>2, <2>3, <2>4 DEF Min, Max
<1>. QED
  BY <1>1, <1>2

\* Thresholds are signs, and conditions count as one or none.
LEMMA Comparisons ==
    /\ \A c \in BOOLEAN : One(c) = IF c THEN 1 ELSE 0
    /\ \A v, l, h \in Int : l <= h =>
         Beyond(v, l, h) = IF v > h THEN 1 ELSE IF v < l THEN -1 ELSE 0
    /\ \A n \in Int : Size(n) \in Nat /\ Size(-n) = Size(n)
BY DEF One, Beyond, Size

\* A direction is that of the net score, or to wait.
LEMMA DirectionOfNet ==
    ASSUME NEW net \in Int, NEW threshold \in Nat \ {0}, NEW tie \in BOOLEAN
    PROVE  LET d == Direction(net, threshold, tie)
           IN  /\ d \in Directions
               /\ d = "buy" => net >= threshold
               /\ d = "sell" => net <= -threshold
               /\ Direction(-net, threshold, tie) = Opposite(d)
BY DEF Direction, Directions, Size, Opposite

\* How a signal is built.
LEMMA SignalIsReal ==
    ASSUME NEW n \in DOMAIN DefaultWeights \ {"breakout"}, NEW d \in Directions,
           NEW strength \in Nat, NEW confidence \in Nat, confidence <= 950,
           n = "regime" => d = "hold"
    PROVE  Signal(n, d, strength, confidence) \in RealSignals
<1>1. Side(d) \in Int
  BY DEF Side
<1>. QED
  BY <1>1 DEF Signal, RealSignals

\* How one is built whose target is a mean on the right side.
LEMMA MeanIsReal ==
    ASSUME NEW n \in DOMAIN DefaultWeights \ {"breakout", "regime"}, NEW d \in Directions,
           NEW strength \in Nat, NEW confidence \in Nat, confidence <= 950,
           NEW t, t = Side(d)
    PROVE  SignalToMean(n, d, strength, confidence, t) \in RealSignals
<1>1. SignalToMean(n, d, strength, confidence, t) = Signal(n, d, strength, confidence)
  BY DEF SignalToMean, Signal
<1>2. n \in DOMAIN DefaultWeights \ {"breakout"} /\ n # "regime"
  OBVIOUS
<1>3. Signal(n, d, strength, confidence) \in RealSignals
  BY <1>2, SignalIsReal
<1>. QED
  BY <1>1, <1>3

\* The smaller of two numbers, at least 0 when both are.
LEMMA MinBound ==
    ASSUME NEW a \in Nat, NEW b \in Nat
    PROVE  Min({a, b}) \in Nat /\ Min({a, b}) <= a /\ Min({a, b}) <= b
BY MinMaxOfTwo

\* Two strategies that say the opposite of each other, equally sure of it.
Mirrored(here, there) ==
    /\ here = {} <=> there = {}
    /\ \A s \in here, t \in there :
         t.direction = Opposite(s.direction) /\ t.confidence = s.confidence

\* Nobody signals on either history, or both do.
LEMMA SilenceMirrored == Mirrored({}, {})
BY DEF Mirrored

\* Two signals in opposite directions with the same confidence.
LEMMA SignalsMirrored ==
    ASSUME NEW n, NEW d \in Directions, NEW i, NEW j, NEW c
    PROVE  Mirrored({Signal(n, d, i, c)}, {Signal(n, Opposite(d), j, c)})
<1>1. \A e, k : /\ Signal(n, e, k, c).direction = e
                /\ Signal(n, e, k, c).confidence = c
  BY DEF Signal
<1>. QED
  BY <1>1 DEF Mirrored

\* The parts of the score of the trend change sign.
LEMMA TrendNetMirrored ==
    ASSUME NEW m \in MarketReadings, NEW x \in ReadingsOf("trend_following")
    PROVE  LET w == MirrorMarket(m)  y == MirrorReading("trend_following", x)
           IN  /\ TrendNet(m, x) \in Int
               /\ TrendNet(w, y) = -TrendNet(m, x)
               /\ TrendTie(m, x) \in BOOLEAN
               /\ TrendTie(w, y) = TrendTie(m, x)
               /\ w.rows = m.rows /\ w.adx = m.adx /\ w.volume = m.volume
<1>. DEFINE w == MirrorMarket(m)
            y == MirrorReading("trend_following", x)
<1>1. /\ m.rows \in Nat /\ m.adx \in Nat /\ m.volume \in Nat
      /\ w.rows = m.rows /\ w.adx = m.adx /\ w.volume = m.volume
  BY DEF MarketReadings, MirrorMarket
<1>2. x \in [fast : Signs, slow : Signs, before : Signs, price : Signs, di : {-1, 1}]
  BY DEF ReadingsOf
<1>3. y = [r \in DOMAIN x |-> -x[r]]
  BY DEF MirrorReading
<1>4. /\ y.fast = -x.fast /\ y.slow = -x.slow /\ y.before = -x.before
      /\ y.price = -x.price /\ y.di = -x.di
  BY <1>2, <1>3
<1>5. /\ x.fast \in Signs /\ x.slow \in Signs /\ x.before \in Signs
      /\ x.price \in Signs /\ x.di \in {-1, 1}
  BY <1>2
<1>. HIDE DEF w, y
<1>6. TrendStrength(m) \in Nat /\ TrendStrength(w) = TrendStrength(m)
  <2>1. CASE m.adx > 25
    <3>1. 20 * (m.adx - 25) \in Nat
      BY <1>1, <2>1
    <3>2. Min({20 * (m.adx - 25), 250}) \in Nat
      BY <3>1, MinBound
    <3>. QED
      BY <1>1, <2>1, <3>2 DEF TrendStrength
  <2>2. CASE ~(m.adx > 25)
    BY <1>1, <2>2 DEF TrendStrength
  <2>. QED
    BY <2>1, <2>2
<1>7. /\ Chain(x.fast, x.slow) \in Int /\ Chain(y.fast, y.slow) = -Chain(x.fast, x.slow)
      /\ Chain(x.price, x.fast) \in Int /\ Chain(y.price, y.fast) = -Chain(x.price, x.fast)
      /\ Crossover(x) \in Int /\ Crossover(y) = -Crossover(x)
  BY <1>4, <1>5 DEF Chain, Crossover, Signs
<1>8. TrendTie(m, x) \in BOOLEAN /\ TrendTie(w, y) = TrendTie(m, x)
  BY <1>1, <1>4, <1>5, <1>6, <1>7 DEF TrendTie
<1>9. CASE x.di = 1
  BY <1>4, <1>6, <1>7, <1>9, <1>1, <1>8 DEF TrendNet, w, y
<1>10. CASE x.di = -1
  BY <1>4, <1>6, <1>7, <1>10, <1>1, <1>8 DEF TrendNet, w, y
<1>. QED
  BY <1>5, <1>9, <1>10

\* The trend: real signals, and the opposite ones on the mirrored history.
LEMMA TrendFollowingSignals ==
    ASSUME NEW m \in MarketReadings, NEW x \in ReadingsOf("trend_following")
    PROVE  /\ TrendFollowing(m, x) \subseteq RealSignals
           /\ Mirrored(TrendFollowing(m, x),
                       TrendFollowing(MirrorMarket(m), MirrorReading("trend_following", x)))
<1>. DEFINE w == MirrorMarket(m)
            y == MirrorReading("trend_following", x)
            net == TrendNet(m, x)
            tie == TrendTie(m, x)
            points(v, d, z) == 400 + 150 * (One(d # "hold") + One(v.adx > 25)
                                  + One(v.volume > 10) + One(Size(z) > 400))
            conf(v, d, z) == Min({points(v, d, z), 950})
            strength(d, z) == CASE d = "buy" -> Min({z, 1000})
                                [] d = "sell" -> -z
                                [] d = "hold" -> 0
            of(v, d, z) == IF v.rows < 220 THEN {}
                     ELSE {Signal("trend_following", d, strength(d, z), conf(v, d, z))}
            d1 == Direction(net, 300, tie)
            d2 == Direction(-net, 300, tie)
<1>1. /\ net \in Int /\ TrendNet(w, y) = -net
      /\ tie \in BOOLEAN /\ TrendTie(w, y) = tie
      /\ w.rows = m.rows /\ w.adx = m.adx /\ w.volume = m.volume
      /\ m.adx \in Nat /\ m.volume \in Nat /\ m.rows \in Nat
  BY TrendNetMirrored DEF MarketReadings
<1>2. /\ TrendFollowing(m, x) = of(m, d1, net)
      /\ TrendFollowing(w, y) = of(w, d2, -net)
  <2>1. TrendFollowing(m, x) = of(m, d1, net)
    BY DEF TrendFollowing
  <2>2. TrendFollowing(w, y) =
          of(w, Direction(TrendNet(w, y), 300, TrendTie(w, y)), TrendNet(w, y))
    BY DEF TrendFollowing
  <2>. HIDE DEF of, net, w, y, tie
  <2>. QED
    BY <1>1, <2>1, <2>2
<1>. HIDE DEF net, w, y, tie
<1>3. /\ d1 \in Directions /\ d2 = Opposite(d1)
      /\ d1 = "buy" => net >= 300
      /\ d1 = "sell" => net <= -300
  BY <1>1, DirectionOfNet
<1>. HIDE DEF d1, d2
<1>4. points(m, d1, net) \in Nat /\ points(w, d2, -net) = points(m, d1, net)
  <2>1. d2 # "hold" <=> d1 # "hold"
    BY <1>3 DEF Directions, Opposite
  <2>2. Size(-net) = Size(net) /\ Size(net) \in Nat
    BY <1>1, Comparisons
  <2>. QED
    BY <1>1, <2>1, <2>2 DEF One
<1>. HIDE DEF points
<1>5. conf(m, d1, net) \in Nat /\ conf(m, d1, net) <= 950 /\ conf(w, d2, -net) = conf(m, d1, net)
  <2>1. \A p \in Nat : Min({p, 950}) \in Nat /\ Min({p, 950}) <= 950
    BY MinBound
  <2>. QED
    BY <1>4, <2>1
<1>. HIDE DEF conf
<1>6. strength(d1, net) \in Nat
  <2>1. CASE d1 = "buy"
    <3>1. Min({net, 1000}) \in Nat
      BY <1>1, <1>3, <2>1, MinBound
    <3>. QED
      BY <2>1, <3>1
  <2>2. CASE d1 = "sell"
    BY <1>1, <1>3, <2>2
  <2>3. CASE d1 = "hold"
    BY <2>3
  <2>. QED
    BY <1>3, <2>1, <2>2, <2>3 DEF Directions
<1>. HIDE DEF strength
<1>7. of(m, d1, net) \subseteq RealSignals
  <2>1. "trend_following" \in DOMAIN DefaultWeights \ {"breakout"}
    BY DEF DefaultWeights
  <2>2. Signal("trend_following", d1, strength(d1, net), conf(m, d1, net)) \in RealSignals
    BY <1>3, <1>5, <1>6, <2>1, SignalIsReal
  <2>. QED
    BY <2>2
<1>8. Mirrored(of(m, d1, net), of(w, d2, -net))
  <2>1. CASE m.rows < 220
    BY <1>1, <1>3, <2>1, SilenceMirrored
  <2>2. CASE ~(m.rows < 220)
    <3>1. /\ of(m, d1, net) = {Signal("trend_following", d1, strength(d1, net), conf(m, d1, net))}
          /\ of(w, d2, -net) = {Signal("trend_following", d2, strength(d2, -net), conf(w, d2, -net))}
      BY <1>1, <2>2
    <3>. HIDE DEF of
    <3>. QED
      BY <1>3, <1>5, <3>1, SignalsMirrored
  <2>. QED
    BY <2>1, <2>2
<1>. QED
  BY <1>2, <1>7, <1>8 DEF w, y

\* Momentum: the two zones of the RSI are the mirror images of each other.
LEMMA MomentumSignals ==
    ASSUME NEW m \in MarketReadings, NEW x \in ReadingsOf("momentum")
    PROVE  /\ Momentum(m, x) \subseteq RealSignals
           /\ Mirrored(Momentum(m, x),
                       Momentum(MirrorMarket(m), MirrorReading("momentum", x)))
<1>. DEFINE w == MirrorMarket(m)
            y == MirrorReading("momentum", x)
            net == MomentumNet(m, x)
            strong == m.volume > 12
            points(v, z, r) == 350 + 150 * (One(Size(z) > 400) + One(v.volume > 12)
                                             + One(Size(r) > 30))
            of(v, d, z, c) == IF v.rows < 56 \/ d = "hold" THEN {}
                              ELSE {Signal("momentum", d, Size(z), c)}
            d1 == Direction(net, 300, strong)
            d2 == Direction(-net, 300, strong)
            p1 == points(m, net, x.roc)
            p2 == points(w, -net, -x.roc)
            c1 == Min({p1, 900})
            c2 == Min({p2, 900})
<1>1. /\ m.rows \in Nat /\ m.rsi \in Int /\ m.volume \in Nat
      /\ w.rows = m.rows /\ w.rsi = 100 - m.rsi /\ w.volume = m.volume
  BY DEF MarketReadings, MirrorMarket
<1>2. x.roc \in Int /\ x.macd \in {-1, 0, 1} /\ y.roc = -x.roc /\ y.macd = -x.macd
  BY DEF ReadingsOf, MirrorReading, Signs
<1>3. net \in Int /\ MomentumNet(w, y) = -net
  <2>. HIDE DEF w, y
  <2>. QED
    BY <1>1, <1>2 DEF MomentumNet, Beyond, One
<1>4. /\ Momentum(m, x) = of(m, d1, net, c1)
      /\ Momentum(w, y) = of(w, d2, -net, c2)
  <2>1. Momentum(m, x) = of(m, d1, net, c1)
    BY DEF Momentum
  <2>2. Momentum(w, y) = of(w, Direction(MomentumNet(w, y), 300, w.volume > 12), MomentumNet(w, y),
                            Min({points(w, MomentumNet(w, y), y.roc), 900}))
    BY DEF Momentum
  <2>3. Direction(-net, 300, w.volume > 12) = d2
    BY <1>1 DEF Direction
  <2>. HIDE DEF of, net, w, y, d1, d2, points
  <2>. QED
    BY <1>2, <1>3, <2>1, <2>2, <2>3
<1>. HIDE DEF net, w, y
<1>5. d1 \in Directions /\ d2 = Opposite(d1)
  <2>1. strong \in BOOLEAN
    OBVIOUS
  <2>. HIDE DEF strong
  <2>. QED
    BY <1>3, <2>1, DirectionOfNet
<1>. HIDE DEF d1, d2
<1>6. /\ Size(net) \in Nat /\ Size(-net) = Size(net)
      /\ Size(x.roc) \in Nat /\ Size(-x.roc) = Size(x.roc)
  BY <1>2, <1>3, Comparisons
<1>7. p1 \in Nat /\ p2 = p1
  BY <1>1, <1>2, <1>6 DEF One
<1>. HIDE DEF p1, p2
<1>8. c1 \in Nat /\ c1 <= 950 /\ c2 = c1
  BY <1>7, MinBound
<1>. HIDE DEF c1, c2
<1>9. of(m, d1, net, c1) \subseteq RealSignals
  <2>1. "momentum" \in DOMAIN DefaultWeights \ {"breakout"}
    BY DEF DefaultWeights
  <2>2. Signal("momentum", d1, Size(net), c1) \in RealSignals
    BY <1>5, <1>6, <1>8, <2>1, SignalIsReal
  <2>. QED
    BY <2>2
<1>10. Mirrored(of(m, d1, net, c1), of(w, d2, -net, c2))
  <2>1. d1 = "hold" <=> d2 = "hold"
    BY <1>5 DEF Directions, Opposite
  <2>2. CASE m.rows < 56 \/ d1 = "hold"
    BY <1>1, <1>5, <2>1, <2>2, SilenceMirrored
  <2>3. CASE ~(m.rows < 56 \/ d1 = "hold")
    <3>1. /\ of(m, d1, net, c1) = {Signal("momentum", d1, Size(net), c1)}
          /\ of(w, d2, -net, c2) = {Signal("momentum", d2, Size(-net), c2)}
      BY <1>1, <2>1, <2>3
    <3>. HIDE DEF of
    <3>. QED
      BY <1>5, <1>8, <3>1, SignalsMirrored
  <2>. QED
    BY <2>2, <2>3
<1>. QED
  BY <1>4, <1>9, <1>10 DEF w, y

\* As SignalsMirrored, for targets that are a mean.
LEMMA MeansMirrored ==
    ASSUME NEW n, NEW d \in Directions, NEW i, NEW j, NEW c, NEW t, NEW u
    PROVE  Mirrored({SignalToMean(n, d, i, c, t)}, {SignalToMean(n, Opposite(d), j, c, u)})
<1>1. \A e, k, to : /\ SignalToMean(n, e, k, c, to).direction = e
                    /\ SignalToMean(n, e, k, c, to).confidence = c
  BY DEF Signal, SignalToMean
<1>. QED
  BY <1>1 DEF Mirrored

\* Mean reversion: where it trades the price is on the side of the mean that
\* its target needs, as the RSI alone does not reach the threshold.
LEMMA MeanReversionSignals ==
    ASSUME NEW m \in MarketReadings, NEW x \in ReadingsOf("mean_reversion")
    PROVE  /\ MeanReversion(m, x) \subseteq RealSignals
           /\ Mirrored(MeanReversion(m, x),
                       MeanReversion(MirrorMarket(m), MirrorReading("mean_reversion", x)))
<1>. DEFINE w == MirrorMarket(m)
            y == MirrorReading("mean_reversion", x)
            net == ReversionNet(m, x)
            extreme == Beyond(m.rsi, 30, 70) # 0
            points(v, z) == 350 + 200 * (1 + One(Beyond(v.rsi, 30, 70) # 0) + One(Size(z) > 20))
            of(v, d, n, c, t) == IF v.rows < 50 \/ d = "hold" THEN {}
                                 ELSE {SignalToMean("mean_reversion", d, Size(n), c, t)}
            d1 == Direction(net, 300, extreme)
            d2 == Direction(-net, 300, extreme)
            p1 == points(m, x.z)
            p2 == points(w, -x.z)
            c1 == Min({p1, 900})
            c2 == Min({p2, 900})
            t1 == -Beyond(x.z, 0, 0)
            t2 == -Beyond(-x.z, 0, 0)
<1>1. /\ m.rows \in Nat /\ m.rsi \in Int
      /\ w.rows = m.rows /\ w.rsi = 100 - m.rsi
  BY DEF MarketReadings, MirrorMarket
<1>2. /\ x.z \in Int /\ x.band \in {-1, 0, 1} /\ x.far \in BOOLEAN
      /\ x.band # 0 => x.band = Beyond(x.z, 0, 0)
      /\ x.z = 0 => ~x.far
      /\ y.z = -x.z /\ y.band = -x.band /\ y.far = x.far
  BY DEF ReadingsOf, MirrorReading, Signs
<1>. HIDE DEF w, y
<1>3. /\ Beyond(m.rsi, 30, 70) \in {-1, 0, 1}
      /\ Beyond(w.rsi, 30, 70) = -Beyond(m.rsi, 30, 70)
      /\ Beyond(x.z, -20, 20) \in {-1, 0, 1} /\ Beyond(-x.z, -20, 20) = -Beyond(x.z, -20, 20)
      /\ Beyond(x.z, 0, 0) \in {-1, 0, 1} /\ Beyond(-x.z, 0, 0) = -Beyond(x.z, 0, 0)
      /\ x.z = 0 <=> Beyond(x.z, 0, 0) = 0
      /\ Beyond(x.z, -20, 20) # 0 => Beyond(x.z, -20, 20) = Beyond(x.z, 0, 0)
  BY <1>1, <1>2 DEF Beyond, One
<1>4. net \in Int /\ ReversionNet(w, y) = -net
  BY <1>2, <1>3 DEF ReversionNet
<1>5. net >= 300 => t1 = 1
  BY <1>2, <1>3 DEF ReversionNet
<1>6. net <= -300 => t1 = -1
  BY <1>2, <1>3 DEF ReversionNet
<1>7. /\ MeanReversion(m, x) = of(m, d1, net, c1, t1)
      /\ MeanReversion(w, y) = of(w, d2, -net, c2, t2)
  <2>1. MeanReversion(m, x) = of(m, d1, net, c1, t1)
    BY DEF MeanReversion
  <2>2. MeanReversion(w, y) =
          of(w, Direction(ReversionNet(w, y), 300, Beyond(w.rsi, 30, 70) # 0), ReversionNet(w, y),
             Min({points(w, y.z), 900}), -Beyond(y.z, 0, 0))
    BY DEF MeanReversion
  <2>3. Direction(-net, 300, Beyond(w.rsi, 30, 70) # 0) = d2
    BY <1>3 DEF Direction
  <2>. HIDE DEF of, net, d1, d2, points
  <2>. QED
    BY <1>2, <1>4, <2>1, <2>2, <2>3
<1>. HIDE DEF net
<1>8. /\ d1 \in Directions /\ d2 = Opposite(d1)
      /\ d1 = "buy" => net >= 300
      /\ d1 = "sell" => net <= -300
  <2>1. extreme \in BOOLEAN
    OBVIOUS
  <2>. HIDE DEF extreme
  <2>. QED
    BY <1>4, <2>1, DirectionOfNet
<1>. HIDE DEF d1, d2
<1>9. /\ Size(net) \in Nat /\ Size(-net) = Size(net)
      /\ Size(x.z) \in Nat /\ Size(-x.z) = Size(x.z)
  BY <1>2, <1>4, Comparisons
<1>10. p1 \in Nat /\ p2 = p1
  BY <1>1, <1>2, <1>3, <1>9 DEF One
<1>. HIDE DEF p1, p2
<1>11. c1 \in Nat /\ c1 <= 900 /\ c2 = c1
  BY <1>10, MinBound
<1>. HIDE DEF c1, c2, t2
<1>12. of(m, d1, net, c1, t1) \subseteq RealSignals
  <2>1. "mean_reversion" \in DOMAIN DefaultWeights \ {"breakout", "regime"}
    BY DEF DefaultWeights
  <2>2. c1 \in Nat /\ c1 <= 950
    BY <1>11
  <2>3. CASE d1 # "hold"
    <3>1. t1 = Side(d1)
      BY <1>5, <1>6, <1>8, <2>3 DEF Side, Directions
    <3>. HIDE DEF t1
    <3>2. SignalToMean("mean_reversion", d1, Size(net), c1, t1) \in RealSignals
      BY <1>8, <1>9, <2>1, <2>2, <3>1, MeanIsReal
    <3>. QED
      BY <3>2
  <2>. QED
    BY <2>3
<1>. HIDE DEF t1
<1>13. Mirrored(of(m, d1, net, c1, t1), of(w, d2, -net, c2, t2))
  <2>1. d1 = "hold" <=> d2 = "hold"
    BY <1>8 DEF Directions, Opposite
  <2>2. CASE m.rows < 50 \/ d1 = "hold"
    BY <1>1, <2>1, <2>2, SilenceMirrored
  <2>3. CASE ~(m.rows < 50 \/ d1 = "hold")
    <3>1. /\ of(m, d1, net, c1, t1) = {SignalToMean("mean_reversion", d1, Size(net), c1, t1)}
          /\ of(w, d2, -net, c2, t2) = {SignalToMean("mean_reversion", d2, Size(-net), c2, t2)}
      BY <1>1, <2>1, <2>3
    <3>. HIDE DEF of
    <3>. QED
      BY <1>8, <1>11, <3>1, MeansMirrored
  <2>. QED
    BY <2>2, <2>3
<1>. QED
  BY <1>7, <1>12, <1>13 DEF w, y

\* The lemmas about finite sets and sums are those of PaperBroker, here without
\* an account.
Sums == INSTANCE PaperBrokerProofs
          WITH Symbols <- {}, Tasks <- {}, MaxOrders <- 0, Requests <- {}, Updates <- {},
               NoRequest <- 0, NoPrice <- -1, Prices <- {}, Placeholder <- 0,
               HasProvider <- TRUE, InitialCapital <- 0, CommissionPct <- 0,
               HalfSpread <- 0, MaxSlippage <- 0,
               cash <- 0, position <- <<>>, order <- <<>>, pending <- {},
               tradeCount <- 0, placed <- 0, request <- <<>>, task <- <<>>

\* A finite set of integers has a largest and a smallest element.
LEMMA Extremes ==
    ASSUME NEW S, IsFiniteSet(S), S \subseteq Int, S # {}
    PROVE  /\ Max(S) \in S /\ \A y \in S : y <= Max(S)
           /\ Min(S) \in S /\ \A y \in S : Min(S) <= y
<1>. DEFINE Bounded(t) == \E x, z \in t : \A y \in t : y <= x /\ z <= y
            G == {t \in SUBSET S : t # {} => Bounded(t)}
<1>1. ASSUME NEW t \in SUBSET S, \A u \in SUBSET t : u # t => u \in G
      PROVE  t \in G
  <2>. SUFFICES ASSUME t # {} PROVE Bounded(t)
    OBVIOUS
  <2>1. PICK a \in t : TRUE
    OBVIOUS
  <2>2. CASE t = {a}
    BY <2>2
  <2>3. CASE t # {a}
    <3>1. t \ {a} \in G /\ t \ {a} # {}
      BY <1>1, <2>1, <2>3
    <3>2. PICK x \in t \ {a}, z \in t \ {a} : \A y \in t \ {a} : y <= x /\ z <= y
      BY <3>1
    <3>3. /\ a \in Int /\ x \in Int /\ z \in Int
      BY <2>1
    <3>. DEFINE hi == IF a <= x THEN x ELSE a
                lo == IF a <= z THEN a ELSE z
    <3>4. hi \in t /\ lo \in t /\ \A y \in t : y <= hi /\ lo <= y
      BY <2>1, <3>2, <3>3
    <3>. QED
      BY <3>4
  <2>. QED
    BY <2>2, <2>3
<1>2. SUBSET S \subseteq G
  <2>1. Sums!IsFiniteSet(S)
    BY DEF IsFiniteSet, Sums!IsFiniteSet
  <2>. HIDE DEF G
  <2>2. \A t \in SUBSET S : (\A u \in SUBSET t : u # t => u \in G) => t \in G
    BY <1>1, Zenon
  <2>3. 0 \in 0 .. 100 /\ TRUE \in BOOLEAN
    OBVIOUS
  <2>. QED
    BY <2>1, <2>2, <2>3, Sums!SetInduction, Zenon
<1>3. Bounded(S)
  BY <1>2
<1>4. PICK x \in S, z \in S : \A y \in S : y <= x /\ z <= y
  BY <1>3
<1>5. \A y \in S : (\A u \in S : y >= u) => y = x
  BY <1>4
<1>6. \A y \in S : (\A u \in S : y <= u) => y = z
  BY <1>4
<1>7. Max(S) = x
  BY <1>4, <1>5 DEF Max
<1>8. Min(S) = z
  BY <1>4, <1>6 DEF Min
<1>. QED
  BY <1>4, <1>7, <1>8

\* No close leaves the range that includes its own bar.
LEMMA BreakoutSilent ==
    ASSUME NEW m, NEW x, x.bars \in Seq(Bar), Len(x.bars) >= 2
    PROVE  Breakout(m, x) = {}
<1>. DEFINE bars == x.bars
            n == Len(bars)
            win == Window(bars, n)
<1>1. n \in Nat /\ n >= 2 /\ bars \in Seq(Bar)
  OBVIOUS
<1>. HIDE DEF bars
<1>2. win = SubSeq(bars, 2, n)
  <2>1. n - Len(bars) + 2 = 2
    BY <1>1
  <2>2. Max({1, 2}) = 2
    BY MinMaxOfTwo
  <2>. QED
    BY <2>1, <2>2 DEF Window
<1>3. /\ win \in Seq(Bar) /\ Len(win) = n - 1 /\ win[n - 1] = bars[n]
  BY <1>1, <1>2, SubSeqProperties
<1>. HIDE DEF win
<1>4. /\ Range(win) \subseteq Bar /\ bars[n] \in Range(win) /\ IsFiniteSet(Range(win))
  <2>1. DOMAIN win = 1 .. (n - 1) /\ n - 1 \in DOMAIN win
    BY <1>1, <1>3
  <2>2. \A i \in 1 .. n - 1 : win[i] \in Bar
    BY <1>1, <1>3
  <2>3. win \in Surjection(1 .. n - 1, Range(win))
    BY <1>3, <2>1, <2>2 DEF Range, Surjection
  <2>4. IsFiniteSet(Range(win))
    BY <1>1, <2>3, FS_Interval, FS_Surjection
  <2>. QED
    BY <1>3, <2>1, <2>2, <2>4 DEF Range
<1>. DEFINE highs == {b.high : b \in Range(win)}
            lows == {b.low : b \in Range(win)}
<1>5. \A b \in Bar : /\ b.low \in Int /\ b.close \in Int /\ b.high \in Int
                     /\ b.low <= b.close /\ b.close <= b.high
  BY DEF Bar
<1>6. IsFiniteSet(highs) /\ highs \subseteq Int /\ bars[n].high \in highs
  <2>1. [b \in Range(win) |-> b.high] \in Surjection(Range(win), highs)
    BY DEF Surjection
  <2>2. IsFiniteSet(highs)
    BY <1>4, <2>1, FS_Surjection
  <2>. QED
    BY <1>4, <1>5, <2>2
<1>7. IsFiniteSet(lows) /\ lows \subseteq Int /\ bars[n].low \in lows
  <2>1. [b \in Range(win) |-> b.low] \in Surjection(Range(win), lows)
    BY DEF Surjection
  <2>2. IsFiniteSet(lows)
    BY <1>4, <2>1, FS_Surjection
  <2>. QED
    BY <1>4, <1>5, <2>2
<1>8. bars[n].high <= Max(highs) /\ Max(highs) \in Int
  <2>. HIDE DEF highs
  <2>. QED
    BY <1>6, Extremes
<1>9. Min(lows) <= bars[n].low /\ Min(lows) \in Int
  <2>. HIDE DEF lows
  <2>. QED
    BY <1>7, Extremes
<1>10. Resistance(bars, n) = Max(highs) /\ Support(bars, n) = Min(lows)
  BY DEF Resistance, Support, win
<1>11. /\ ~(bars[n].close > Resistance(bars, n))
       /\ ~(bars[n].close < Support(bars, n))
  <2>1. bars[n] \in Bar
    BY <1>4
  <2>2. /\ bars[n].low \in Int /\ bars[n].close \in Int /\ bars[n].high \in Int
        /\ bars[n].low <= bars[n].close /\ bars[n].close <= bars[n].high
    BY <1>5, <2>1
  <2>. HIDE DEF highs, lows
  <2>. QED
    BY <1>8, <1>9, <1>10, <2>2
<1>12. Broken(bars) = 0
  BY <1>11 DEF Broken
<1>13. Direction(Broken(bars) * (IF m.volume > 15 THEN 600 ELSE 240), 200, FALSE) = "hold"
  BY <1>12 DEF Direction, Size
<1>. QED
  BY <1>13 DEF Breakout, bars

\* A squeeze waits on both histories, an expansion reverts.
LEMMA VolatilitySignals ==
    ASSUME NEW m \in MarketReadings, NEW x, NEW y
    PROVE  /\ Volatility(m, x) \subseteq RealSignals
           /\ Mirrored(Volatility(m, x), Volatility(MirrorMarket(m), y))
<1>. DEFINE w == MirrorMarket(m)
            e1 == Beyond(m.rsi, 30, 70)
            e2 == Beyond(w.rsi, 30, 70)
            d1 == Direction(-e1, 1, TRUE)
            d2 == Direction(-e2, 1, TRUE)
            of(v, e, d) ==
              CASE v.rows >= 80 /\ v.volRatio < 5 -> {Signal("volatility", "hold", 0, 500)}
                [] v.rows >= 80 /\ v.volRatio > 15 /\ e # 0 ->
                     {Signal("volatility", d, 600, 650)}
                [] OTHER -> {}
<1>0. Volatility(m, x) = of(m, e1, d1) /\ Volatility(w, y) = of(w, e2, d2)
  BY DEF Volatility
<1>1. /\ m.rows \in Nat /\ m.rsi \in Int /\ m.volRatio \in Nat
      /\ w.rows = m.rows /\ w.rsi = 100 - m.rsi /\ w.volRatio = m.volRatio
  BY DEF MarketReadings, MirrorMarket
<1>. HIDE DEF w
<1>2. e1 \in {-1, 0, 1} /\ e2 = -e1
  BY <1>1 DEF Beyond, One
<1>3. d1 \in Directions /\ d2 = Opposite(d1)
  BY <1>2 DEF Direction, Size, Opposite, Directions
<1>. HIDE DEF e1, e2, d1, d2
<1>4. "volatility" \in DOMAIN DefaultWeights \ {"breakout"}
  BY DEF DefaultWeights
<1>5. CASE m.rows >= 80 /\ m.volRatio < 5
  <2>1. /\ Volatility(m, x) = {Signal("volatility", "hold", 0, 500)}
        /\ Volatility(w, y) = {Signal("volatility", "hold", 0, 500)}
    BY <1>0, <1>1, <1>5
  <2>2. "hold" \in Directions /\ Opposite("hold") = "hold"
    BY DEF Directions, Opposite
  <2>3. Signal("volatility", "hold", 0, 500) \in RealSignals
    BY <1>4, <2>2, SignalIsReal
  <2>4. Mirrored({Signal("volatility", "hold", 0, 500)}, {Signal("volatility", "hold", 0, 500)})
    BY <2>2, SignalsMirrored
  <2>. QED
    BY <2>1, <2>3, <2>4 DEF w
<1>6. CASE m.rows >= 80 /\ m.volRatio > 15 /\ e1 # 0
  <2>1. /\ Volatility(m, x) = {Signal("volatility", d1, 600, 650)}
        /\ Volatility(w, y) = {Signal("volatility", d2, 600, 650)}
    BY <1>0, <1>1, <1>2, <1>6
  <2>3. Signal("volatility", d1, 600, 650) \in RealSignals
    BY <1>3, <1>4, SignalIsReal
  <2>4. Mirrored({Signal("volatility", d1, 600, 650)}, {Signal("volatility", d2, 600, 650)})
    BY <1>3, SignalsMirrored
  <2>. QED
    BY <2>1, <2>3, <2>4 DEF w
<1>7. CASE /\ ~(m.rows >= 80 /\ m.volRatio < 5)
           /\ ~(m.rows >= 80 /\ m.volRatio > 15 /\ e1 # 0)
  <2>1. Volatility(m, x) = {} /\ Volatility(w, y) = {}
    BY <1>0, <1>1, <1>2, <1>7
  <2>. QED
    BY <2>1, SilenceMirrored DEF w
<1>. QED
  BY <1>5, <1>6, <1>7

\* Events wait.
LEMMA EventDrivenSignals ==
    ASSUME NEW m \in MarketReadings, NEW x, NEW y
    PROVE  /\ EventDriven(m, x) \subseteq RealSignals
           /\ Mirrored(EventDriven(m, x), EventDriven(MirrorMarket(m), y))
<1>1. MirrorMarket(m).events = m.events
  BY DEF MarketReadings, MirrorMarket
<1>2. "event_driven" \in DOMAIN DefaultWeights \ {"breakout"}
  BY DEF DefaultWeights
<1>3. "hold" \in Directions /\ Opposite("hold") = "hold"
  BY DEF Directions, Opposite
<1>4. Signal("event_driven", "hold", 0, 400) \in RealSignals
  BY <1>2, <1>3, SignalIsReal
<1>5. CASE m.events
  BY <1>1, <1>3, <1>4, <1>5, SignalsMirrored DEF EventDriven
<1>6. CASE ~m.events
  BY <1>1, <1>6, SilenceMirrored DEF EventDriven
<1>. QED
  BY <1>5, <1>6

\* The regime classifier waits, with a confidence below its caps.
LEMMA RegimeSignals ==
    ASSUME NEW m \in MarketReadings, NEW x, NEW y
    PROVE  /\ Regime(m, x) \subseteq RealSignals
           /\ Mirrored(Regime(m, x), Regime(MirrorMarket(m), y))
<1>. DEFINE w == MirrorMarket(m)
<1>1. /\ m.rows \in Nat /\ m.adx \in Nat /\ m.volRatio \in Nat
      /\ w.rows = m.rows /\ w.adx = m.adx /\ w.volRatio = m.volRatio
  BY DEF MarketReadings, MirrorMarket
<1>. HIDE DEF w
<1>2. RegimeOf(w) = RegimeOf(m)
  BY <1>1 DEF RegimeOf
<1>3. RegimeConfidence(w) = RegimeConfidence(m)
  BY <1>1, <1>2 DEF RegimeConfidence
<1>4. RegimeConfidence(m) \in Nat /\ RegimeConfidence(m) <= 950
  <2>1. /\ RegimeOf(m) = "high_volatility" => m.volRatio > 15
        /\ RegimeOf(m) = "low_volatility" => m.volRatio < 5
        /\ RegimeOf(m) = "trending" => m.adx > 25
        /\ RegimeOf(m) = "ranging" => m.adx < 20
    BY <1>1 DEF RegimeOf
  <2>. DEFINE h == 500 + 20 * (m.volRatio - 15)
              l == 500 + 30 * (5 - m.volRatio)
              t == 500 + 20 * (m.adx - 25)
              r == 500 + 15 * (20 - m.adx)
              conf == CASE RegimeOf(m) = "high_volatility" -> Min({h, 950})
                        [] RegimeOf(m) = "low_volatility" -> Min({l, 900})
                        [] RegimeOf(m) = "trending" -> Min({t, 900})
                        [] RegimeOf(m) = "ranging" -> Min({r, 850})
                        [] OTHER -> 400
  <2>2. RegimeConfidence(m) = conf
    BY DEF RegimeConfidence
  <2>3. /\ RegimeOf(m) = "high_volatility" => h \in Nat
        /\ RegimeOf(m) = "low_volatility" => l \in Nat
        /\ RegimeOf(m) = "trending" => t \in Nat
        /\ RegimeOf(m) = "ranging" => r \in Nat
    BY <1>1, <2>1
  <2>. HIDE DEF h, l, t, r
  <2>4. /\ h \in Nat => Min({h, 950}) \in Nat /\ Min({h, 950}) <= 950
        /\ l \in Nat => Min({l, 900}) \in Nat /\ Min({l, 900}) <= 900
        /\ t \in Nat => Min({t, 900}) \in Nat /\ Min({t, 900}) <= 900
        /\ r \in Nat => Min({r, 850}) \in Nat /\ Min({r, 850}) <= 850
    BY MinBound
  <2>5. CASE RegimeOf(m) = "high_volatility"
    <3>1. conf = Min({h, 950})
      BY <2>5
    <3>. QED
      BY <2>2, <2>3, <2>4, <2>5, <3>1
  <2>6. CASE RegimeOf(m) = "low_volatility"
    <3>1. conf = Min({l, 900})
      BY <2>6
    <3>. QED
      BY <2>2, <2>3, <2>4, <2>6, <3>1
  <2>7. CASE RegimeOf(m) = "trending"
    <3>1. conf = Min({t, 900})
      BY <2>7
    <3>. QED
      BY <2>2, <2>3, <2>4, <2>7, <3>1
  <2>8. CASE RegimeOf(m) = "ranging"
    <3>1. conf = Min({r, 850})
      BY <2>8
    <3>. QED
      BY <2>2, <2>3, <2>4, <2>8, <3>1
  <2>9. CASE RegimeOf(m) \notin {"high_volatility", "low_volatility", "trending", "ranging"}
    BY <2>2, <2>9
  <2>. QED
    BY <2>5, <2>6, <2>7, <2>8, <2>9
<1>5. CASE m.rows < 80
  BY <1>1, <1>5, SilenceMirrored DEF Regime, w
<1>6. CASE ~(m.rows < 80)
  <2>1. /\ Regime(m, x) = {Signal("regime", "hold", 0, RegimeConfidence(m))}
        /\ Regime(w, y) = {Signal("regime", "hold", 0, RegimeConfidence(m))}
    BY <1>1, <1>3, <1>6 DEF Regime
  <2>2. "hold" \in Directions /\ Opposite("hold") = "hold"
    BY DEF Directions, Opposite
  <2>3. "regime" \in DOMAIN DefaultWeights \ {"breakout"}
    BY DEF DefaultWeights
  <2>4. Signal("regime", "hold", 0, RegimeConfidence(m)) \in RealSignals
    BY <1>4, <2>2, <2>3, SignalIsReal
  <2>. QED
    BY <2>1, <2>2, <2>4, SignalsMirrored DEF w
<1>. QED
  BY <1>5, <1>6

\* The price's z-score: opposite directions, but not the same confidence.
LEMMA StatisticalSignals ==
    ASSUME NEW m \in MarketReadings, NEW x \in ReadingsOf("statistical")
    PROVE  LET here == Statistical(m, x)
               there == Statistical(MirrorMarket(m), MirrorReading("statistical", x))
           IN  /\ here \subseteq RealSignals
               /\ here = {} <=> there = {}
               /\ \A s \in here, t \in there : t.direction = Opposite(s.direction)
<1>. DEFINE w == MirrorMarket(m)
            y == MirrorReading("statistical", x)
            side(z) == Beyond(z.pz, -20, 20)
            d(z) == Direction(-side(z), 1, TRUE)
            size(z) == (200 * Size(z.pz) + 3) \div 6
            st(z) == Min({size(z), 1000})
            gap == 450 + 10 * Size(x.pz - 20)
            to(z) == -Beyond(z.pz, 0, 0)
            of(v, z) == IF v.rows < 60 \/ side(z) = 0 THEN {}
                        ELSE {SignalToMean("statistical", d(z), st(z), StatisticalConfidence(z), to(z))}
<1>0. Statistical(m, x) = of(m, x) /\ Statistical(w, y) = of(w, y)
  BY DEF Statistical
<1>1. m.rows \in Nat /\ w.rows = m.rows
  BY DEF MarketReadings, MirrorMarket
<1>2. x.pz \in Int /\ y.pz = -x.pz
  BY DEF ReadingsOf, MirrorReading
<1>. HIDE DEF w, y
<1>3. /\ side(x) \in {-1, 0, 1} /\ side(y) = -side(x)
      /\ side(x) # 0 => to(x) = -side(x)
  BY <1>2 DEF Beyond, One
<1>. HIDE DEF side, to
<1>4. d(x) \in Directions /\ d(y) = Opposite(d(x)) /\ (side(x) # 0 => to(x) = Side(d(x)))
  BY <1>3 DEF Direction, Size, Opposite, Directions, Side
<1>5. size(x) \in Nat /\ gap \in Nat
  BY <1>2 DEF Size
<1>. HIDE DEF d
<1>6. /\ st(x) \in Nat
      /\ StatisticalConfidence(x) \in Nat /\ StatisticalConfidence(x) <= 950
  <2>1. StatisticalConfidence(x) = Min({gap, 800})
    BY DEF StatisticalConfidence
  <2>. HIDE DEF size, gap
  <2>2. Min({size(x), 1000}) \in Nat
    BY <1>5, MinBound
  <2>3. Min({gap, 800}) \in Nat /\ Min({gap, 800}) <= 800
    BY <1>5, MinBound
  <2>. QED
    BY <2>1, <2>2, <2>3
<1>. HIDE DEF st
<1>7. CASE m.rows < 60 \/ side(x) = 0
  BY <1>0, <1>1, <1>3, <1>7 DEF w, y
<1>8. CASE ~(m.rows < 60 \/ side(x) = 0)
  <2>1. /\ of(m, x) = {SignalToMean("statistical", d(x), st(x), StatisticalConfidence(x), to(x))}
        /\ of(w, y) = {SignalToMean("statistical", d(y), st(y), StatisticalConfidence(y), to(y))}
    BY <1>1, <1>3, <1>8
  <2>. HIDE DEF of
  <2>2. \A e, i, k, u : SignalToMean("statistical", e, i, k, u).direction = e
    BY DEF SignalToMean, Signal
  <2>3. "statistical" \in DOMAIN DefaultWeights \ {"breakout", "regime"}
    BY DEF DefaultWeights
  <2>4. SignalToMean("statistical", d(x), st(x), StatisticalConfidence(x), to(x)) \in RealSignals
    BY <1>4, <1>6, <1>8, <2>3, MeanIsReal
  <2>. QED
    BY <1>0, <1>4, <2>1, <2>2, <2>4 DEF w, y
<1>. QED
  BY <1>7, <1>8

-----------------------------------------------------------------------------
(* What the callers collect *)

\* Readings are of the strategies that are asked, and of their kind.
LEMMA ReadingsAreReal ==
    ASSUME NEW n \in Names, NEW m \in Markets, NEW x \in Readings[n]
    PROVE  /\ n \in DOMAIN DefaultWeights /\ m \in MarketReadings
           /\ x \in ReadingsOf(n)
<1>1. Names \subseteq DOMAIN DefaultWeights
  <2>1. Asked \in Seq(DOMAIN DefaultWeights)
    BY FusionConstants
  <2>2. \A i \in DOMAIN Asked : Asked[i] \in DOMAIN DefaultWeights
    BY <2>1
  <2>. QED
    BY <2>2 DEF Names, Range
<1>. QED
  BY <1>1, FusionConstants

\* The strategies with a weight.
LEMMA Strategies8 ==
    DOMAIN DefaultWeights =
      {"trend_following", "mean_reversion", "momentum", "breakout",
       "volatility", "event_driven", "statistical", "regime"}
BY DEF DefaultWeights

\* The bars of a breakout, and the mirrored ones, are bars.
LEMMA BarsAreReal ==
    ASSUME NEW x \in ReadingsOf("breakout")
    PROVE  LET y == MirrorReading("breakout", x)
           IN  /\ x.bars \in Seq(Bar) /\ Len(x.bars) >= 2
               /\ y.bars \in Seq(Bar) /\ Len(y.bars) >= 2
<1>. DEFINE bars == x.bars
            y == MirrorReading("breakout", x)
            n == Len(bars)
<1>1. bars \in Seq(Bar) /\ n >= 2
  BY DEF ReadingsOf
<1>2. y.bars = [i \in DOMAIN bars |-> MirrorBar(bars[i])]
  BY DEF MirrorReading
<1>. HIDE DEF bars, y
<1>3. DOMAIN bars = 1 .. n /\ n \in Nat /\ \A i \in 1 .. n : bars[i] \in Bar
  BY <1>1
<1>4. \A b \in Bar : MirrorBar(b) \in Bar
  BY DEF MirrorBar, Bar
<1>5. y.bars \in [1 .. n -> Bar]
  <2>. HIDE DEF n
  <2>. QED
    BY <1>2, <1>3, <1>4
<1>6. y.bars \in Seq(Bar) /\ Len(y.bars) = n
  BY <1>3, <1>5
<1>. QED
  BY <1>1, <1>6 DEF bars, y

\* Each strategy: real signals, and the opposite ones on the mirrored history.
LEMMA StrategySignals ==
    ASSUME NEW n \in Names, NEW m \in Markets, NEW x \in Readings[n]
    PROVE  LET here == Generate(n, m, x)
               there == Generate(n, MirrorMarket(m), MirrorReading(n, x))
           IN  /\ here \subseteq RealSignals
               /\ here = {} <=> there = {}
               /\ \A s \in here, t \in there :
                    /\ t.direction = Opposite(s.direction)
                    /\ n = "statistical" \/ t.confidence = s.confidence
<1>1. m \in MarketReadings /\ x \in ReadingsOf(n) /\ n \in DOMAIN DefaultWeights
  BY ReadingsAreReal
<1>. DEFINE w == MirrorMarket(m)
            y == MirrorReading(n, x)
            here == Generate(n, m, x)
            there == Generate(n, w, y)
            Fine == here \subseteq RealSignals /\ Mirrored(here, there)
<1>2. CASE n = "trend_following"
  <2>1. here = TrendFollowing(m, x) /\ there = TrendFollowing(w, y)
    BY <1>2 DEF Generate
  <2>2. Fine
    BY <1>1, <1>2, <2>1, TrendFollowingSignals
  <2>. QED
    BY <2>2 DEF Mirrored
<1>3. CASE n = "momentum"
  <2>1. here = Momentum(m, x) /\ there = Momentum(w, y)
    BY <1>3 DEF Generate
  <2>2. Fine
    BY <1>1, <1>3, <2>1, MomentumSignals
  <2>. QED
    BY <2>2 DEF Mirrored
<1>4. CASE n = "mean_reversion"
  <2>1. here = MeanReversion(m, x) /\ there = MeanReversion(w, y)
    BY <1>4 DEF Generate
  <2>2. Fine
    BY <1>1, <1>4, <2>1, MeanReversionSignals
  <2>. QED
    BY <2>2 DEF Mirrored
<1>5. CASE n = "breakout"
  <2>1. here = Breakout(m, x) /\ there = Breakout(w, y)
    BY <1>5 DEF Generate
  <2>2. here = {} /\ there = {}
    BY <1>1, <1>5, <2>1, BarsAreReal, BreakoutSilent
  <2>. QED
    BY <2>2
<1>6. CASE n = "volatility"
  <2>1. here = Volatility(m, x) /\ there = Volatility(w, y)
    BY <1>6 DEF Generate
  <2>2. Fine
    BY <1>1, <2>1, VolatilitySignals
  <2>. QED
    BY <2>2 DEF Mirrored
<1>7. CASE n = "event_driven"
  <2>1. here = EventDriven(m, x) /\ there = EventDriven(w, y)
    BY <1>7 DEF Generate
  <2>2. Fine
    BY <1>1, <2>1, EventDrivenSignals
  <2>. QED
    BY <2>2 DEF Mirrored
<1>8. CASE n = "statistical"
  <2>1. here = Statistical(m, x) /\ there = Statistical(w, y)
    BY <1>8 DEF Generate
  <2>. QED
    BY <1>1, <1>8, <2>1, StatisticalSignals
<1>9. CASE n = "regime"
  <2>1. here = Regime(m, x) /\ there = Regime(w, y)
    BY <1>9 DEF Generate
  <2>2. Fine
    BY <1>1, <2>1, RegimeSignals
  <2>. QED
    BY <2>2 DEF Mirrored
<1>. QED
  BY <1>1, <1>2, <1>3, <1>4, <1>5, <1>6, <1>7, <1>8, <1>9, Strategies8

\* What the callers have collected are real signals.
FusionInv ==
    /\ market \in Markets
    /\ asked \in 0 .. Len(Asked)
    /\ signals \in Seq(RealSignals)

\* It holds before the first strategy is asked.
LEMMA FusionInit == Init => FusionInv
BY FusionConstants DEF Init, FusionInv

\* Every answer keeps it.
LEMMA FusionNext == FusionInv /\ [Next]_vars => FusionInv'
<1>. SUFFICES ASSUME FusionInv, [Next]_vars PROVE FusionInv'
  OBVIOUS
<1>. USE DEF FusionInv
<1>1. CASE UNCHANGED vars
  BY <1>1 DEF vars
<1>2. CASE Ask
  <2>1. /\ Asked \in Seq(DOMAIN DefaultWeights) /\ Len(Asked) \in Nat
        /\ asked < Len(Asked) /\ asked' = asked + 1 /\ market' = market
    BY <1>2, FusionConstants DEF Ask
  <2>2. asked' \in 0 .. Len(Asked)
    BY <2>1
  <2>3. CASE UNCHANGED signals
    BY <2>1, <2>2, <2>3
  <2>4. CASE LET n == Asked[asked + 1]
             IN  \E x \in Readings[n] : \E s \in Generate(n, market, x) :
                   signals' = Append(signals, s)
    <3>. DEFINE n == Asked[asked + 1]
    <3>1. PICK x \in Readings[n] : \E s \in Generate(n, market, x) :
                   signals' = Append(signals, s)
      BY <2>4
    <3>2. PICK s \in Generate(n, market, x) : signals' = Append(signals, s)
      BY <3>1
    <3>3. n \in Names
      BY <2>1 DEF Names, Range
    <3>4. s \in RealSignals
      <4>. HIDE DEF n
      <4>. QED
        BY <3>1, <3>2, <3>3, StrategySignals
    <3>5. signals' \in Seq(RealSignals)
      BY <3>2, <3>4
    <3>. QED
      BY <2>1, <2>2, <3>5
  <2>. QED
    BY <1>2, <2>3, <2>4 DEF Ask
<1>. QED
  BY <1>1, <1>2 DEF Next

\* The strategies have no bias, whatever the readings of the history: turned
\* upside down it makes each of them say the opposite.
THEOREM StrategiesHaveNoBias == Spec => []StrategiesAreMirrored
<1>1. FusionInv => StrategiesAreMirrored
  BY StrategySignals DEF FusionInv, StrategiesAreMirrored
<1>. QED
  BY <1>1, FusionInit, FusionNext, PTL DEF Spec

\* A defect of src/strategies/breakout.py:51: no history of any length, with
\* any bars, makes the strategy signal that is documented to detect breakouts.
THEOREM NoBreakoutIsSignalled == Spec => []BreakoutNeverSignals
<1>1. FusionInv => BreakoutNeverSignals
  <2>. SUFFICES ASSUME FusionInv PROVE BreakoutNeverSignals
    OBVIOUS
  <2>1. \A i \in DOMAIN signals : signals[i] \in RealSignals
    BY DEF FusionInv
  <2>2. \A s \in RealSignals : s.strategy # "breakout"
    BY DEF RealSignals
  <2>. QED
    BY <2>1, <2>2 DEF BreakoutNeverSignals, Range
<1>. QED
  BY <1>1, FusionInit, FusionNext, PTL DEF Spec

-----------------------------------------------------------------------------
(* Sums over the signals *)

\* Induction over the subsets of a finite set.
LEMMA FiniteSubsets ==
    ASSUME NEW S, IsFiniteSet(S), NEW G,
           \A t \in SUBSET S : (\A u \in SUBSET t : u # t => u \in G) => t \in G
    PROVE  SUBSET S \subseteq G
<1>1. Sums!IsFiniteSet(S)
  BY DEF IsFiniteSet, Sums!IsFiniteSet
<1>2. 0 \in 0 .. 100 /\ TRUE \in BOOLEAN
  OBVIOUS
<1>. QED
  BY <1>1, <1>2, Sums!SetInduction, Zenon

\* What a sum is: nothing for the empty set, and one element at a time.
LEMMA Summing ==
    ASSUME NEW S, IsFiniteSet(S), NEW f, \A i \in S : f[i] \in Int
    PROVE  /\ SumFunctionOnSet(f, S) \in Int
           /\ S = {} => SumFunctionOnSet(f, S) = 0
           /\ \A x \in S : SumFunctionOnSet(f, S) = f[x] + SumFunctionOnSet(f, S \ {x})
<1>1. Sums!IsFiniteSet(S)
  BY DEF IsFiniteSet, Sums!IsFiniteSet
<1>2. \A T : SumFunctionOnSet(f, T) = Sums!SumFunctionOnSet(f, T)
  BY DEF SumFunctionOnSet, FoldFunctionOnSet, MapThenFoldSet, Sums!SumFunctionOnSet,
         Sums!FoldFunctionOnSet, Sums!MapThenFoldSet
<1>3. 0 \in 0 .. 100 /\ TRUE \in BOOLEAN
  OBVIOUS
<1>4. Sums!SumFunctionOnSet(f, S) \in Int
  BY <1>1, <1>3, Sums!SumType
<1>5. S = {} => Sums!SumFunctionOnSet(f, S) = 0
  BY <1>1, <1>3, Sums!SumStep
<1>6. \A x \in S : Sums!SumFunctionOnSet(f, S) = f[x] + Sums!SumFunctionOnSet(f, S \ {x})
  BY <1>1, <1>3, Sums!SumRemove
<1>. QED
  BY <1>2, <1>4, <1>5, <1>6

\* A sum of numbers without a positive one is not positive.
LEMMA SumOfNonPositive ==
    ASSUME NEW S, IsFiniteSet(S), NEW f, \A i \in S : f[i] \in Int /\ f[i] <= 0
    PROVE  SumFunctionOnSet(f, S) \in Int /\ SumFunctionOnSet(f, S) <= 0
<1>. DEFINE Of(t) == SumFunctionOnSet(f, t)
            G == {t \in SUBSET S : Of(t) <= 0}
<1>1. ASSUME NEW t \in SUBSET S
      PROVE  /\ Of(t) \in Int
             /\ t = {} => Of(t) = 0
             /\ \A x \in t : Of(t) = f[x] + Of(t \ {x})
  BY FS_Subset, Summing
<1>. HIDE DEF Of
<1>2. ASSUME NEW t \in SUBSET S, \A u \in SUBSET t : u # t => u \in G
      PROVE  t \in G
  <2>1. CASE t = {}
    BY <1>1, <2>1
  <2>2. CASE t # {}
    <3>1. PICK x \in t : TRUE
      BY <2>2
    <3>2. t \ {x} \in G
      BY <1>2, <3>1
    <3>3. Of(t) = f[x] + Of(t \ {x}) /\ Of(t \ {x}) \in Int /\ Of(t \ {x}) <= 0
      BY <1>1, <3>1, <3>2
    <3>4. f[x] \in Int /\ f[x] <= 0
      BY <3>1
    <3>. QED
      BY <3>3, <3>4
  <2>. QED
    BY <2>1, <2>2
<1>3. SUBSET S \subseteq G
  <2>. HIDE DEF G
  <2>. QED
    BY <1>2, FiniteSubsets
<1>. QED
  BY <1>1, <1>3 DEF Of

\* Numbers that are counted under other names, each with its sign changed or
\* kept.
LEMMA SumRenamed ==
    ASSUME NEW S, IsFiniteSet(S), NEW f, NEW g, NEW e, NEW sign \in {-1, 1},
           \A i \in S : f[e[i]] \in Int /\ g[i] = sign * f[e[i]],
           \A i, j \in S : e[i] = e[j] => i = j
    PROVE  SumFunctionOnSet(g, S) = sign * SumFunctionOnSet(f, {e[i] : i \in S})
<1>. DEFINE Img(t) == {e[i] : i \in t}
            A(t) == SumFunctionOnSet(g, t)
            B(t) == SumFunctionOnSet(f, t)
            G == {t \in SUBSET S : A(t) = sign * B(Img(t))}
<1>0. \A i \in S : f[e[i]] \in Int /\ g[i] \in Int
  OBVIOUS
<1>1. ASSUME NEW t \in SUBSET S
      PROVE  /\ A(t) \in Int
             /\ t = {} => A(t) = 0
             /\ \A x \in t : A(t) = g[x] + A(t \ {x})
  BY <1>0, FS_Subset, Summing
<1>2. ASSUME NEW t \in SUBSET S
      PROVE  /\ B(Img(t)) \in Int
             /\ Img(t) = {} => B(Img(t)) = 0
             /\ \A x \in Img(t) : B(Img(t)) = f[x] + B(Img(t) \ {x})
  <2>1. IsFiniteSet(t)
    BY FS_Subset
  <2>2. [i \in t |-> e[i]] \in Surjection(t, Img(t))
    BY DEF Surjection
  <2>3. IsFiniteSet(Img(t))
    BY <2>1, <2>2, FS_Surjection
  <2>4. \A x \in Img(t) : f[x] \in Int
    BY <1>0
  <2>. HIDE DEF Img
  <2>. QED
    BY <2>3, <2>4, Summing
<1>2a. /\ Img({}) = {}
       /\ \A t \in SUBSET S : \A x \in t : /\ Img(t) \ {e[x]} = Img(t \ {x})
                                          /\ e[x] \in Img(t)
  OBVIOUS
<1>. HIDE DEF A, B, Img
<1>3. ASSUME NEW t \in SUBSET S, \A u \in SUBSET t : u # t => u \in G
      PROVE  t \in G
  <2>1. CASE t = {}
    <3>1. Img(t) = {}
      BY <1>2a, <2>1
    <3>2. A(t) = 0 /\ B(Img(t)) = 0
      BY <1>1, <1>2, <2>1, <3>1
    <3>. QED
      BY <3>2
  <2>2. CASE t # {}
    <3>1. PICK x \in t : TRUE
      BY <2>2
    <3>. DEFINE u == t \ {x}
    <3>2. u \in SUBSET S
      BY <3>1
    <3>2a. A(u) = sign * B(Img(u))
      BY <1>3, <3>1
    <3>3. Img(t) \ {e[x]} = Img(u) /\ e[x] \in Img(t)
      BY <1>2a, <3>1
    <3>4. A(t) = g[x] + A(u) /\ A(u) = sign * B(Img(u)) /\ A(u) \in Int
      BY <1>1, <3>1, <3>2, <3>2a
    <3>5. B(Img(t)) = f[e[x]] + B(Img(u)) /\ B(Img(u)) \in Int
      <4>1. B(Img(u)) \in Int
        BY <1>2, <3>2
      <4>. DEFINE y == e[x]
      <4>2. y \in Img(t) /\ Img(t) \ {y} = Img(u)
        BY <3>3
      <4>. HIDE DEF u, y
      <4>3. B(Img(t)) = f[y] + B(Img(t) \ {y})
        BY <1>2, <4>2
      <4>. QED
        BY <4>1, <4>2, <4>3 DEF y
    <3>6. g[x] = sign * f[e[x]] /\ f[e[x]] \in Int
      BY <1>0, <3>1
    <3>. HIDE DEF u
    <3>7. A(t) = sign * B(Img(t))
      <4>1. sign = 1 \/ sign = -1
        OBVIOUS
      <4>. QED
        BY <3>4, <3>5, <3>6, <4>1
    <3>. QED
      BY <3>7
  <2>. QED
    BY <2>1, <2>2
<1>4. SUBSET S \subseteq G
  <2>. HIDE DEF G
  <2>. QED
    BY <1>3, FiniteSubsets
<1>. QED
  BY <1>4 DEF A, B, Img

\* Numbers that only are renamed.
LEMMA SumMoved ==
    ASSUME NEW S, IsFiniteSet(S), NEW f, NEW g, NEW e,
           \A i \in S : f[e[i]] \in Int /\ g[i] = f[e[i]],
           \A i, j \in S : e[i] = e[j] => i = j
    PROVE  SumFunctionOnSet(g, S) = SumFunctionOnSet(f, {e[i] : i \in S})
<1>. DEFINE sign == 1
            T == {e[i] : i \in S}
<1>1. sign \in {-1, 1} /\ \A i \in S : f[e[i]] \in Int /\ g[i] = sign * f[e[i]]
  OBVIOUS
<1>2. SumFunctionOnSet(f, T) \in Int
  <2>1. [i \in S |-> e[i]] \in Surjection(S, T)
    BY DEF Surjection
  <2>2. IsFiniteSet(T) /\ \A x \in T : f[x] \in Int
    BY <2>1, FS_Surjection
  <2>. HIDE DEF T
  <2>. QED
    BY <2>2, Summing
<1>. HIDE DEF sign
<1>3. SumFunctionOnSet(g, S) = sign * SumFunctionOnSet(f, {e[i] : i \in S})
  BY <1>1, SumRenamed
<1>. QED
  BY <1>2, <1>3 DEF sign

\* Numbers whose sign changes.
LEMMA SumNegated ==
    ASSUME NEW S, IsFiniteSet(S), NEW f, NEW g,
           \A i \in S : f[i] \in Int /\ g[i] = -f[i]
    PROVE  SumFunctionOnSet(f, S) \in Int /\ SumFunctionOnSet(g, S) = -SumFunctionOnSet(f, S)
<1>. DEFINE sign == -1
            e == [i \in S |-> i]
<1>1. sign \in {-1, 1} /\ \A i \in S : f[e[i]] \in Int /\ g[i] = sign * f[e[i]]
  OBVIOUS
<1>2. {e[i] : i \in S} = S /\ \A i, j \in S : e[i] = e[j] => i = j
  OBVIOUS
<1>3. SumFunctionOnSet(f, S) \in Int
  BY Summing
<1>. HIDE DEF sign, e
<1>4. SumFunctionOnSet(g, S) = sign * SumFunctionOnSet(f, {e[i] : i \in S})
  BY <1>1, <1>2, SumRenamed
<1>5. SumFunctionOnSet(g, S) = sign * SumFunctionOnSet(f, S)
  BY <1>2, <1>4, Zenon
<1>6. \A k \in Int : sign * k = -k
  BY DEF sign
<1>. QED
  BY <1>3, <1>5, <1>6

\* A sum of natural numbers is one.
LEMMA SumOfNat ==
    ASSUME NEW S, IsFiniteSet(S), NEW f, \A i \in S : f[i] \in Nat
    PROVE  SumFunctionOnSet(f, S) \in Nat
<1>. DEFINE g == [i \in S |-> -f[i]]
<1>0. \A i \in S : g[i] \in Int /\ g[i] <= 0
  OBVIOUS
<1>1. \A i \in S : f[i] \in Int /\ g[i] = -f[i]
  OBVIOUS
<1>. HIDE DEF g
<1>2. SumFunctionOnSet(g, S) <= 0
  BY <1>0, SumOfNonPositive
<1>3. SumFunctionOnSet(f, S) \in Int /\ SumFunctionOnSet(g, S) = -SumFunctionOnSet(f, S)
  BY <1>1, SumNegated
<1>. QED
  BY <1>2, <1>3

\* The terms that a fusion adds up.
Scores(sigs) ==
    [i \in DOMAIN sigs |-> Score(sigs[i]) * Weight(sigs[i].strategy, MarketRegime(sigs))]
Weights(sigs) == [i \in DOMAIN sigs |-> Weight(sigs[i].strategy, MarketRegime(sigs))]
Trusts(sigs) == [i \in DOMAIN sigs |-> sigs[i].confidence]

\* The totals as sums over the positions of the list.
LEMMA Totals ==
    ASSUME NEW sigs
    PROVE  /\ WeightedSum(sigs) = SumFunctionOnSet(Scores(sigs), DOMAIN sigs)
           /\ WeightTotal(sigs) = SumFunctionOnSet(Weights(sigs), DOMAIN sigs)
           /\ Total(sigs, LAMBDA s : s.confidence)
                = SumFunctionOnSet(Trusts(sigs), DOMAIN sigs)
<1>1. /\ DOMAIN Scores(sigs) = DOMAIN sigs /\ DOMAIN Weights(sigs) = DOMAIN sigs
      /\ DOMAIN Trusts(sigs) = DOMAIN sigs
  BY DEF Scores, Weights, Trusts
<1>2. WeightedSum(sigs) = SumFunction(Scores(sigs))
  BY DEF WeightedSum, Total, Scores
<1>3. WeightTotal(sigs) = SumFunction(Weights(sigs))
  BY DEF WeightTotal, Total, Weights
<1>4. Total(sigs, LAMBDA s : s.confidence) = SumFunction(Trusts(sigs))
  BY DEF Total, Trusts
<1>. QED
  BY <1>1, <1>2, <1>3, <1>4 DEF SumFunction

\* A strategy weighs something in every regime.
LEMMA WeightPositive ==
    ASSUME NEW n \in DOMAIN DefaultWeights, NEW regime
    PROVE  Weight(n, regime) \in Nat \ {0}
<1>1. DefaultWeights[n] \in Nat \ {0}
  BY DEF DefaultWeights
<1>2. ASSUME regime \in DOMAIN RegimeWeightModifiers,
             n \in DOMAIN RegimeWeightModifiers[regime]
      PROVE  RegimeWeightModifiers[regime][n] \in 5 .. 15
  <2>1. regime \in {"trending", "ranging", "high_volatility", "low_volatility"}
    BY <1>2 DEF RegimeWeightModifiers
  <2>2. CASE regime = "trending"
    BY <1>2, <2>2 DEF RegimeWeightModifiers
  <2>3. CASE regime = "ranging"
    BY <1>2, <2>3 DEF RegimeWeightModifiers
  <2>4. CASE regime = "high_volatility"
    BY <1>2, <2>4 DEF RegimeWeightModifiers
  <2>5. CASE regime = "low_volatility"
    BY <1>2, <2>5 DEF RegimeWeightModifiers
  <2>. QED
    BY <2>1, <2>2, <2>3, <2>4, <2>5
<1>3. \A a, b \in Nat \ {0} : a * b \in Nat \ {0}
  OBVIOUS
<1>4. CASE regime \in DOMAIN RegimeWeightModifiers /\ n \in DOMAIN RegimeWeightModifiers[regime]
  <2>. DEFINE k == RegimeWeightModifiers[regime][n]
  <2>1. k \in Nat \ {0}
    BY <1>2, <1>4
  <2>2. Weight(n, regime) = DefaultWeights[n] * k
    BY <1>4 DEF Weight
  <2>. HIDE DEF k
  <2>. QED
    BY <1>1, <1>3, <2>1, <2>2
<1>5. CASE ~(regime \in DOMAIN RegimeWeightModifiers /\ n \in DOMAIN RegimeWeightModifiers[regime])
  <2>1. Weight(n, regime) = DefaultWeights[n] * 10
    BY <1>5 DEF Weight
  <2>. QED
    BY <1>1, <1>3, <2>1
<1>. QED
  BY <1>4, <1>5

\* Buyers score above zero, sellers below, and who waits not at all.
LEMMA ScoreSigns ==
    ASSUME NEW s \in RealSignals
    PROVE  /\ Score(s) \in Int
           /\ s.direction = "buy" => Score(s) >= 0
           /\ s.direction = "sell" => Score(s) <= 0
           /\ s.direction = "hold" => Score(s) = 0
<1>1. s.strength \in Nat /\ s.confidence \in Nat /\ s.direction \in Directions
  BY DEF RealSignals
<1>2. \A a, b \in Nat : a * b \in Nat /\ -a * b = -(a * b)
  OBVIOUS
<1>3. s.strength * s.confidence \in Nat /\ -s.strength * s.confidence = -(s.strength * s.confidence)
  BY <1>1, <1>2
<1>4. CASE s.direction = "buy"
  BY <1>3, <1>4 DEF Score
<1>5. CASE s.direction = "sell"
  BY <1>3, <1>5 DEF Score
<1>6. CASE s.direction = "hold"
  BY <1>6 DEF Score
<1>. QED
  BY <1>1, <1>4, <1>5, <1>6 DEF Directions

\* The terms of real signals.
LEMMA Terms ==
    ASSUME NEW sigs \in Seq(RealSignals)
    PROVE  /\ DOMAIN sigs = 1 .. Len(sigs) /\ Len(sigs) \in Nat /\ IsFiniteSet(DOMAIN sigs)
           /\ \A i \in DOMAIN sigs :
                /\ sigs[i] \in RealSignals
                /\ Scores(sigs)[i] \in Int
                /\ sigs[i].direction = "buy" => Scores(sigs)[i] >= 0
                /\ sigs[i].direction = "sell" => Scores(sigs)[i] <= 0
                /\ sigs[i].direction = "hold" => Scores(sigs)[i] = 0
                /\ Weights(sigs)[i] \in Nat
                /\ Trusts(sigs)[i] \in Nat /\ Trusts(sigs)[i] <= 950
<1>1. DOMAIN sigs = 1 .. Len(sigs) /\ Len(sigs) \in Nat
  OBVIOUS
<1>2. IsFiniteSet(DOMAIN sigs)
  BY <1>1, FS_Interval
<1>3. ASSUME NEW i \in DOMAIN sigs
      PROVE  /\ sigs[i] \in RealSignals
             /\ Scores(sigs)[i] \in Int
             /\ sigs[i].direction = "buy" => Scores(sigs)[i] >= 0
             /\ sigs[i].direction = "sell" => Scores(sigs)[i] <= 0
             /\ sigs[i].direction = "hold" => Scores(sigs)[i] = 0
             /\ Weights(sigs)[i] \in Nat
             /\ Trusts(sigs)[i] \in Nat /\ Trusts(sigs)[i] <= 950
  <2>1. sigs[i] \in RealSignals
    OBVIOUS
  <2>2. /\ sigs[i].strategy \in DOMAIN DefaultWeights
        /\ sigs[i].confidence \in Nat /\ sigs[i].confidence <= 950
    BY <2>1, RealFields
  <2>. DEFINE a == Score(sigs[i])
              b == Weight(sigs[i].strategy, MarketRegime(sigs))
  <2>3. b \in Nat
    BY <2>2, WeightPositive
  <2>4. /\ a \in Int
        /\ sigs[i].direction = "buy" => a >= 0
        /\ sigs[i].direction = "sell" => a <= 0
        /\ sigs[i].direction = "hold" => a = 0
    BY <2>1, ScoreSigns
  <2>. DEFINE ab == a * b
  <2>5. Scores(sigs)[i] = ab /\ Weights(sigs)[i] = b /\ Trusts(sigs)[i] = sigs[i].confidence
    BY DEF Scores, Weights, Trusts
  <2>. HIDE DEF a, b
  <2>6. /\ ab \in Int
        /\ a >= 0 => ab >= 0
        /\ a <= 0 => ab <= 0
        /\ a = 0 => ab = 0
    BY <2>3, <2>4
  <2>. HIDE DEF ab
  <2>. DEFINE c == sigs[i].confidence
  <2>6a. c \in Nat /\ c <= 950
    BY <2>2
  <2>6b. Trusts(sigs)[i] = c
    BY <2>5
  <2>. HIDE DEF c
  <2>7. Trusts(sigs)[i] \in Nat /\ Trusts(sigs)[i] <= 950
    BY <2>6a, <2>6b
  <2>8. /\ Scores(sigs)[i] \in Int
        /\ sigs[i].direction = "buy" => Scores(sigs)[i] >= 0
        /\ sigs[i].direction = "sell" => Scores(sigs)[i] <= 0
        /\ sigs[i].direction = "hold" => Scores(sigs)[i] = 0
    BY <2>4, <2>5, <2>6
  <2>. QED
    BY <2>1, <2>3, <2>5, <2>7, <2>8
<1>. QED
  BY <1>1, <1>2, <1>3

\* Their totals.
LEMMA TotalTypes ==
    ASSUME NEW sigs \in Seq(RealSignals)
    PROVE  WeightedSum(sigs) \in Int /\ WeightTotal(sigs) \in Nat
<1>. DEFINE D == DOMAIN sigs
<1>1. IsFiniteSet(D) /\ \A i \in D : Scores(sigs)[i] \in Int /\ Weights(sigs)[i] \in Nat
  BY Terms
<1>. HIDE DEF D
<1>2. SumFunctionOnSet(Scores(sigs), D) \in Int
  BY <1>1, Summing
<1>3. SumFunctionOnSet(Weights(sigs), D) \in Nat
  BY <1>1, SumOfNat
<1>. QED
  BY <1>2, <1>3, Totals DEF D

-----------------------------------------------------------------------------
(* What a fusion decides *)

\* The decision in terms of the totals.
LEMMA FuseDecides ==
    ASSUME NEW sigs, sigs # <<>>, NEW sum \in Int, sum = WeightedSum(sigs),
           NEW total \in Nat, total = WeightTotal(sigs),
           NEW bar, bar = 10000 * MinScoreBuy * total
    PROVE  /\ bar \in Nat
           /\ Fuse(sigs) \in {"buy", "sell", "hold", "no_trade"}
           /\ Fuse(sigs) = "buy" <=> Confident(sigs) /\ sum > bar
           /\ Fuse(sigs) = "sell" <=> Confident(sigs) /\ sum < -bar
           /\ Fuse(sigs) \notin {"buy", "sell"} =>
                Fuse(sigs) = IF Size(sum) < 100000 * total THEN "no_trade" ELSE "hold"
<1>1. \A a, b \in Nat : a * b \in Nat /\ 10000 * a \in Nat /\ 10000 * (-a) = -(10000 * a)
                        /\ (-a) * b = -(a * b)
  OBVIOUS
<1>2. MinScoreBuy \in Nat /\ MinScoreSell = -MinScoreBuy
  BY FusionConstants
<1>. DEFINE m == 10000 * MinScoreBuy
            rab == 10000 * MinScoreSell * total
            C == Confident(sigs)
<1>3. m \in Nat /\ 10000 * MinScoreSell = -m
  BY <1>1, <1>2
<1>4. bar = m * total
  OBVIOUS
<1>5. rab = (-m) * total
  BY <1>3
<1>. HIDE DEF m, rab
<1>6. bar \in Nat /\ rab = -bar
  BY <1>1, <1>3, <1>4, <1>5
<1>. DEFINE nothing == sigs = <<>>
            up == sigs # <<>> /\ C /\ sum > bar
            down == sigs # <<>> /\ C /\ sum < rab
            rest == IF Size(sum) < 100000 * total THEN "no_trade" ELSE "hold"
<1>7. Fuse(sigs) = CASE nothing -> "no_trade" [] up -> "buy" [] down -> "sell" [] OTHER -> rest
  BY DEF Fuse, rab
<1>8. ~nothing /\ (up <=> C /\ sum > bar) /\ (down <=> C /\ sum < -bar)
  BY <1>6
<1>9. ~(up /\ down)
  BY <1>6, <1>8
<1>10. rest \in {"no_trade", "hold"}
  OBVIOUS
<1>11. rest = IF Size(sum) < 100000 * total THEN "no_trade" ELSE "hold"
  OBVIOUS
<1>. HIDE DEF nothing, up, down, rest
<1>12. CASE up
  <2>1. Fuse(sigs) = "buy"
    BY <1>7, <1>8, <1>9, <1>12
  <2>. QED
    BY <1>6, <1>8, <1>9, <1>12, <2>1
<1>13. CASE down
  <2>1. Fuse(sigs) = "sell"
    BY <1>7, <1>8, <1>9, <1>13
  <2>. QED
    BY <1>6, <1>8, <1>9, <1>13, <2>1
<1>14. CASE ~up /\ ~down
  <2>1. Fuse(sigs) = rest
    BY <1>7, <1>8, <1>14
  <2>2. rest # "buy" /\ rest # "sell"
    BY <1>10
  <2>3. /\ Fuse(sigs) \in {"buy", "sell", "hold", "no_trade"}
        /\ Fuse(sigs) # "buy" /\ Fuse(sigs) # "sell"
    BY <1>10, <2>1, <2>2
  <2>4. Fuse(sigs) = IF Size(sum) < 100000 * total THEN "no_trade" ELSE "hold"
    BY <2>1 DEF rest
  <2>5. /\ Fuse(sigs) = "buy" <=> C /\ sum > bar
        /\ Fuse(sigs) = "sell" <=> C /\ sum < -bar
    BY <1>8, <1>14, <2>3, Zenon
  <2>. QED
    BY <1>6, <2>3, <2>4, <2>5 DEF C
<1>. QED
  BY <1>12, <1>13, <1>14

\* A list of no signals does not trade.
LEMMA FuseOfNothing == Fuse(<<>>) = "no_trade"
BY DEF Fuse

\* Where the score is not zero, some signal does not hold.
LEMMA SomeoneMoves ==
    ASSUME NEW sigs \in Seq(RealSignals), WeightedSum(sigs) # 0
    PROVE  \E i \in DOMAIN sigs : sigs[i].direction # "hold"
<1>. SUFFICES ASSUME \A i \in DOMAIN sigs : sigs[i].direction = "hold"
             PROVE  FALSE
  OBVIOUS
<1>. DEFINE D == DOMAIN sigs
            f == Scores(sigs)
            g == [i \in D |-> -f[i]]
<1>1. IsFiniteSet(D) /\ \A i \in D : f[i] \in Int /\ f[i] = 0
  BY Terms
<1>2. \A i \in D : g[i] \in Int /\ g[i] <= 0 /\ g[i] = -f[i]
  BY <1>1
<1>3. WeightedSum(sigs) = SumFunctionOnSet(f, D)
  BY Totals
<1>. HIDE DEF D, f, g
<1>4. SumFunctionOnSet(f, D) <= 0
  BY <1>1, SumOfNonPositive
<1>5. SumFunctionOnSet(g, D) <= 0
  BY <1>1, <1>2, SumOfNonPositive
<1>6. SumFunctionOnSet(f, D) \in Int /\ SumFunctionOnSet(g, D) = -SumFunctionOnSet(f, D)
  BY <1>1, <1>2, SumNegated
<1>. QED
  BY <1>3, <1>4, <1>5, <1>6

\* Where one does not hold, the best signal is one of those.
LEMMA BestSignalMoves ==
    ASSUME NEW sigs \in Seq(RealSignals), \E i \in DOMAIN sigs : sigs[i].direction # "hold"
    PROVE  BestSignal(sigs) \in DOMAIN sigs /\ sigs[BestSignal(sigs)].direction # "hold"
<1>. DEFINE D == DOMAIN sigs
            moving == {s \in Range(sigs) : s.direction # "hold"}
            Test(s) == s \in moving /\ \A t \in moving : t.confidence <= s.confidence
            M == {i \in D : sigs[i].direction # "hold"}
            C == {sigs[i].confidence : i \in M}
            I == {i \in 1 .. Len(sigs) : Test(sigs[i])}
<1>1. D = 1 .. Len(sigs) /\ Len(sigs) \in Nat /\ IsFiniteSet(D)
  BY Terms
<1>2. Range(sigs) = {sigs[i] : i \in D}
  BY DEF Range
<1>3. moving = {sigs[i] : i \in M}
  BY <1>2
<1>4. C \subseteq Int /\ C # {}
  <2>1. \A i \in D : sigs[i].confidence \in Int
    BY Terms, RealFields
  <2>. QED
    BY <2>1
<1>5. IsFiniteSet(C)
  <2>1. IsFiniteSet(M)
    BY <1>1, FS_Subset
  <2>2. [i \in M |-> sigs[i].confidence] \in Surjection(M, C)
    BY DEF Surjection
  <2>. QED
    BY <2>1, <2>2, FS_Surjection
<1>6. PICK j \in M : \A i \in M : sigs[i].confidence <= sigs[j].confidence
  <2>. HIDE DEF C
  <2>1. Max(C) \in C /\ \A y \in C : y <= Max(C)
    BY <1>4, <1>5, Extremes
  <2>. QED
    BY <2>1 DEF C
<1>7. j \in I
  BY <1>1, <1>3, <1>6
<1>8. IsFiniteSet(I) /\ I \subseteq Int
  BY <1>1, FS_Subset
<1>9. BestSignal(sigs) = IF I # {} THEN Min(I) ELSE 0
  BY DEF BestSignal, SelectInSeq
<1>10. \A i \in I : i \in D /\ sigs[i].direction # "hold"
  BY <1>1
<1>. HIDE DEF I, D
<1>11. Min(I) \in I
  BY <1>7, <1>8, Extremes
<1>. QED
  BY <1>7, <1>9, <1>10, <1>11 DEF D

\* In every reachable state: a decision to trade carries a stop loss and a
\* target, on opposite sides of the price.
THEOREM TradesHaveLevels == Spec => []EveryTradeHasLevels
<1>1. FusionInv => EveryTradeHasLevels
  <2>. SUFFICES ASSUME FusionInv, Fuse(signals) \in {"buy", "sell"}
               PROVE  FusedSignal(signals).stop \in {-1, 1}
                      /\ FusedSignal(signals).target = -FusedSignal(signals).stop
    BY DEF EveryTradeHasLevels, FusedSignal
  <2>1. signals \in Seq(RealSignals) /\ signals # <<>>
    BY FuseOfNothing DEF FusionInv
  <2>. DEFINE sum == WeightedSum(signals)
              total == WeightTotal(signals)
              bar == 10000 * MinScoreBuy * total
              best == BestSignal(signals)
              s == signals[best]
  <2>2. sum \in Int /\ total \in Nat
    BY <2>1, TotalTypes
  <2>3. bar \in Nat /\ (sum > bar \/ sum < -bar)
    <3>1. bar = 10000 * MinScoreBuy * total
      OBVIOUS
    <3>. HIDE DEF bar, sum, total
    <3>. QED
      BY <2>1, <2>2, <3>1, FuseDecides DEF sum, total
  <2>4. sum # 0
    <3>. HIDE DEF bar, sum
    <3>. QED
      BY <2>2, <2>3
  <2>5. best \in DOMAIN signals /\ s.direction # "hold"
    BY <2>1, <2>4, SomeoneMoves, BestSignalMoves
  <2>6. s \in RealSignals /\ best # 0
    BY <2>1, <2>5, Terms
  <2>7. FusedSignal(signals).stop = s.stop /\ FusedSignal(signals).target = s.target
    BY <2>6 DEF FusedSignal
  <2>8. s.stop = -Side(s.direction) /\ s.target = Side(s.direction)
        /\ s.direction \in {"buy", "sell"}
    BY <2>5, <2>6 DEF RealSignals, Directions
  <2>9. Side(s.direction) \in {1, -1}
    BY <2>8 DEF Side
  <2>. HIDE DEF s
  <2>. QED
    BY <2>7, <2>8, <2>9
<1>. QED
  BY <1>1, FusionInit, FusionNext, PTL DEF Spec

\* The confidence in terms of the votes: conflict costs nothing where one side
\* has none.
LEMMA ConfidenceOfVotes ==
    ASSUME NEW sigs, IsFiniteSet(DOMAIN sigs),
           NEW b, b = Count(sigs, "buy"), NEW s, s = Count(sigs, "sell"),
           NEW t \in Int, t = Total(sigs, LAMBDA x : x.confidence)
    PROVE  /\ b \in Nat /\ s \in Nat
           /\ b <= s => Confidence(sigs) = 4000 * s + 6 * t - 1800 * b
           /\ s <= b => Confidence(sigs) = 4000 * b + 6 * t - 1800 * s
<1>1. b \in Nat /\ s \in Nat
  <2>1. \A d : {i \in DOMAIN sigs : sigs[i].direction = d} \in SUBSET DOMAIN sigs
    OBVIOUS
  <2>2. \A d : Cardinality({i \in DOMAIN sigs : sigs[i].direction = d}) \in Nat
    BY <2>1, FS_Subset, FS_CardinalityType
  <2>. QED
    BY <2>2 DEF Count
<1>. DEFINE hi == Max({b, s})  lo == Min({b, s})
<1>2. Confidence(sigs) = 4000 * hi + 6 * t - IF b > 0 /\ s > 0 THEN 1800 * lo ELSE 0
  BY DEF Confidence
<1>3. /\ lo = IF b <= s THEN b ELSE s
      /\ hi = IF b <= s THEN s ELSE b
  BY <1>1, MinMaxOfTwo
<1>. HIDE DEF hi, lo
<1>. QED
  BY <1>1, <1>2, <1>3

-----------------------------------------------------------------------------
(* The mirrored list of signals *)

\* What a mirrored list keeps, and what it turns around.
LEMMA MirrorKeeps ==
    ASSUME NEW sigs \in Seq(RealSignals)
    PROVE  LET m == Mirror(sigs)
           IN  /\ DOMAIN m = DOMAIN sigs /\ Len(m) = Len(sigs)
               /\ sigs # <<>> => m # <<>>
               /\ sigs = <<>> => m = <<>>
               /\ \A i \in DOMAIN sigs :
                    /\ m[i].strategy = sigs[i].strategy
                    /\ m[i].strength = sigs[i].strength
                    /\ m[i].confidence = sigs[i].confidence
                    /\ m[i].direction = Opposite(sigs[i].direction)
<1>. DEFINE m == Mirror(sigs)
<1>1. DOMAIN sigs = 1 .. Len(sigs) /\ Len(sigs) \in Nat
  BY Terms
<1>2. DOMAIN m = DOMAIN sigs
  BY DEF Mirror
<1>3. Len(m) = Len(sigs)
  BY <1>1, <1>2
<1>4. /\ sigs # <<>> => m # <<>>
      /\ sigs = <<>> => m = <<>>
  BY <1>2 DEF Mirror
<1>5. ASSUME NEW i \in DOMAIN sigs
      PROVE  /\ m[i].strategy = sigs[i].strategy
             /\ m[i].strength = sigs[i].strength
             /\ m[i].confidence = sigs[i].confidence
             /\ m[i].direction = Opposite(sigs[i].direction)
  <2>. DEFINE s == sigs[i]
  <2>1. s \in RealSignals
    BY Terms
  <2>2. m[i] = [s EXCEPT !.direction = Opposite(s.direction)]
    BY DEF Mirror
  <2>. HIDE DEF s, m
  <2>3. s \in [strategy : DOMAIN DefaultWeights \ {"breakout"}, direction : Directions,
               strength : Nat, confidence : 0 .. 950, stop : Int, target : Int]
    BY <2>1 DEF RealSignals
  <2>. QED
    BY <2>2, <2>3 DEF s
<1>. HIDE DEF m
<1>6. /\ DOMAIN m = DOMAIN sigs /\ Len(m) = Len(sigs)
      /\ sigs # <<>> => m # <<>>
      /\ sigs = <<>> => m = <<>>
      /\ \A i \in DOMAIN sigs :
           /\ m[i].strategy = sigs[i].strategy
           /\ m[i].strength = sigs[i].strength
           /\ m[i].confidence = sigs[i].confidence
           /\ m[i].direction = Opposite(sigs[i].direction)
  BY <1>2, <1>3, <1>4, <1>5
<1>. QED
  BY <1>6 DEF m

\* The regime is that of the same classifier.
LEMMA SameRegime ==
    ASSUME NEW sigs, NEW other,
           \A i \in DOMAIN other : \E j \in DOMAIN sigs : other[i].strategy = sigs[j].strategy,
           \A i \in DOMAIN sigs :
             sigs[i].strategy = "regime" => \E j \in DOMAIN other : other[j].strategy = "regime"
    PROVE  MarketRegime(other) = MarketRegime(sigs)
<1>1. \A q : (\E s \in Range(q) : s.strategy = "regime")
               <=> \E i \in DOMAIN q : q[i].strategy = "regime"
  BY DEF Range
<1>2. (\E s \in Range(other) : s.strategy = "regime")
        <=> \E s \in Range(sigs) : s.strategy = "regime"
  BY <1>1
<1>. QED
  BY <1>2 DEF MarketRegime

\* The totals of a mirrored list.
LEMMA MirrorTotals ==
    ASSUME NEW sigs \in Seq(RealSignals), NEW m, m = Mirror(sigs)
    PROVE  /\ WeightedSum(m) = -WeightedSum(sigs)
           /\ WeightTotal(m) = WeightTotal(sigs)
           /\ Confident(m) <=> Confident(sigs)
<1>. DEFINE D == DOMAIN sigs
<1>1. /\ DOMAIN m = D /\ Len(m) = Len(sigs)
      /\ \A i \in D : /\ m[i].strategy = sigs[i].strategy
                      /\ m[i].strength = sigs[i].strength
                      /\ m[i].confidence = sigs[i].confidence
                      /\ m[i].direction = Opposite(sigs[i].direction)
  BY MirrorKeeps
<1>2. MarketRegime(m) = MarketRegime(sigs)
  BY <1>1, SameRegime
<1>3. /\ IsFiniteSet(D)
      /\ \A i \in D : sigs[i] \in RealSignals /\ Scores(sigs)[i] \in Int
  BY Terms
<1>4. Weights(m) = Weights(sigs) /\ Trusts(m) = Trusts(sigs)
  BY <1>1, <1>2 DEF Weights, Trusts
<1>5. \A i \in D : Scores(sigs)[i] \in Int /\ Scores(m)[i] = -Scores(sigs)[i]
  <2>. SUFFICES ASSUME NEW i \in D PROVE Scores(m)[i] = -Scores(sigs)[i]
    BY <1>3
  <2>. DEFINE s == sigs[i]
              a == Score(s)
              w == Weight(s.strategy, MarketRegime(sigs))
  <2>1. s \in RealSignals /\ a \in Int
    BY <1>3, ScoreSigns
  <2>2. w \in Int
    <3>1. s.strategy \in DOMAIN DefaultWeights
      BY <2>1 DEF RealSignals
    <3>. QED
      BY <3>1, WeightPositive
  <2>3. Scores(sigs)[i] = a * w
    BY DEF Scores
  <2>4. Scores(m)[i] = Score(m[i]) * w
    BY <1>1, <1>2 DEF Scores
  <2>5. Score(m[i]) = -a
    <3>. DEFINE k == s.strength  c == s.confidence  d == s.direction
    <3>1. k \in Nat /\ c \in Nat /\ d \in Directions
      BY <2>1, RealFields
    <3>2. m[i].strength = k /\ m[i].confidence = c /\ m[i].direction = Opposite(d)
      BY <1>1
    <3>3. \A x, y \in Nat : x * y \in Int /\ -x * y = -(x * y)
      OBVIOUS
    <3>. HIDE DEF k, c, d
    <3>4. CASE d = "buy"
      <4>1. Score(m[i]) = -k * c /\ a = k * c
        BY <3>2, <3>4 DEF Score, Opposite, k, c, d
      <4>. QED
        BY <3>1, <3>3, <4>1
    <3>5. CASE d = "sell"
      <4>1. Score(m[i]) = k * c /\ a = -k * c
        BY <3>2, <3>5 DEF Score, Opposite, k, c, d
      <4>. QED
        BY <3>1, <3>3, <4>1
    <3>6. CASE d = "hold"
      <4>1. Score(m[i]) = 0 /\ a = 0
        BY <3>2, <3>6 DEF Score, Opposite, d
      <4>2. \A x, y \in Int : x + y = 0 => x = -y
        OBVIOUS
      <4>3. Score(m[i]) \in Int /\ a \in Int /\ Score(m[i]) + a = 0
        BY <4>1
      <4>. QED
        BY <4>2, <4>3, Zenon
    <3>. QED
      BY <3>1, <3>4, <3>5, <3>6 DEF Directions
  <2>6. \A x, y \in Int : (-x) * y = -(x * y)
    OBVIOUS
  <2>. HIDE DEF a, w, s
  <2>. QED
    BY <2>1, <2>2, <2>3, <2>4, <2>5, <2>6
<1>6. \A d \in Directions : Count(m, d) = Count(sigs, Opposite(d))
  <2>. SUFFICES ASSUME NEW d \in Directions PROVE Count(m, d) = Count(sigs, Opposite(d))
    OBVIOUS
  <2>1. \A i \in D : sigs[i].direction \in Directions
    BY <1>3 DEF RealSignals
  <2>2. \A x, y \in Directions : Opposite(x) = y <=> x = Opposite(y)
    BY DEF Opposite, Directions
  <2>3. {i \in D : m[i].direction = d} = {i \in D : sigs[i].direction = Opposite(d)}
    BY <1>1, <2>1, <2>2
  <2>. QED
    BY <1>1, <2>3 DEF Count
<1>7. Count(m, "buy") = Count(sigs, "sell") /\ Count(m, "sell") = Count(sigs, "buy")
  BY <1>6 DEF Directions, Opposite
<1>8. Total(m, LAMBDA s : s.confidence) = Total(sigs, LAMBDA s : s.confidence)
  BY <1>1, <1>4, Totals
<1>9. Confident(m) <=> Confident(sigs)
  <2>. DEFINE b == Count(sigs, "buy")  s == Count(sigs, "sell")
              t == Total(sigs, LAMBDA x : x.confidence)
  <2>1. t \in Int
    <3>1. \A i \in D : Trusts(sigs)[i] \in Int
      BY Terms
    <3>. QED
      BY <1>3, <3>1, Totals, Summing
  <2>2. b = Count(m, "sell") /\ s = Count(m, "buy")
        /\ t = Total(m, LAMBDA x : x.confidence)
    BY <1>7, <1>8
  <2>. HIDE DEF b, s, t
  <2>3. /\ b \in Nat /\ s \in Nat
        /\ b <= s => Confidence(sigs) = 4000 * s + 6 * t - 1800 * b
        /\ s <= b => Confidence(sigs) = 4000 * b + 6 * t - 1800 * s
    BY <1>3, <2>1, ConfidenceOfVotes DEF b, s, t
  <2>4. /\ s <= b => Confidence(m) = 4000 * b + 6 * t - 1800 * s
        /\ b <= s => Confidence(m) = 4000 * s + 6 * t - 1800 * b
    BY <1>1, <1>3, <2>1, <2>2, ConfidenceOfVotes
  <2>5. Confidence(m) = Confidence(sigs)
    BY <2>3, <2>4
  <2>. QED
    BY <1>1, <2>5 DEF Confident
<1>10. WeightedSum(m) = -WeightedSum(sigs)
  <2>1. /\ WeightedSum(sigs) = SumFunctionOnSet(Scores(sigs), D)
        /\ WeightedSum(m) = SumFunctionOnSet(Scores(m), D)
    BY <1>1, Totals
  <2>. HIDE DEF D
  <2>. QED
    BY <1>3, <1>5, <2>1, SumNegated
<1>11. WeightTotal(m) = WeightTotal(sigs)
  BY <1>1, <1>4, Totals
<1>. QED
  BY <1>9, <1>10, <1>11

\* In every reachable state: were every signal turned around, so would be the
\* decision.
THEOREM FusionHasNoBias == Spec => []DirectionsAreMirrored
<1>1. FusionInv => DirectionsAreMirrored
  <2>. SUFFICES ASSUME FusionInv PROVE Fuse(Mirror(signals)) = Opposite(Fuse(signals))
    BY DEF DirectionsAreMirrored
  <2>. DEFINE m == Mirror(signals)
              sum == WeightedSum(signals)
              neg == WeightedSum(m)
              total == WeightTotal(signals)
              bar == 10000 * MinScoreBuy * total
  <2>1. signals \in Seq(RealSignals)
    BY DEF FusionInv
  <2>2. CASE signals = <<>>
    <3>1. m = <<>>
      BY <2>1, <2>2, MirrorKeeps
    <3>. QED
      BY <2>2, <3>1, FuseOfNothing DEF Opposite
  <2>3. CASE signals # <<>>
    <3>1. m # <<>>
      BY <2>1, <2>3, MirrorKeeps
    <3>2. neg = -sum /\ WeightTotal(m) = total /\ (Confident(m) <=> Confident(signals))
      BY <2>1, MirrorTotals
    <3>3. sum \in Int /\ total \in Nat
      BY <2>1, TotalTypes
    <3>4. neg \in Int /\ bar = 10000 * MinScoreBuy * total
      BY <3>2, <3>3
    <3>. HIDE DEF m, sum, neg, total, bar
    <3>5. /\ bar \in Nat
          /\ Fuse(signals) \in {"buy", "sell", "hold", "no_trade"}
          /\ Fuse(signals) = "buy" <=> Confident(signals) /\ sum > bar
          /\ Fuse(signals) = "sell" <=> Confident(signals) /\ sum < -bar
          /\ Fuse(signals) \notin {"buy", "sell"} =>
               Fuse(signals) = IF Size(sum) < 100000 * total THEN "no_trade" ELSE "hold"
      BY <2>3, <3>3, <3>4, FuseDecides DEF sum, total
    <3>6. /\ Fuse(m) \in {"buy", "sell", "hold", "no_trade"}
          /\ Fuse(m) = "buy" <=> Confident(m) /\ neg > bar
          /\ Fuse(m) = "sell" <=> Confident(m) /\ neg < -bar
          /\ Fuse(m) \notin {"buy", "sell"} =>
               Fuse(m) = IF Size(neg) < 100000 * total THEN "no_trade" ELSE "hold"
      BY <3>1, <3>2, <3>3, <3>4, FuseDecides DEF neg
    <3>7. Size(neg) = Size(sum)
      BY <3>2, <3>3, Comparisons
    <3>8. /\ Confident(m) /\ neg > bar <=> Confident(signals) /\ sum < -bar
          /\ Confident(m) /\ neg < -bar <=> Confident(signals) /\ sum > bar
      BY <3>2, <3>3, <3>5
    <3>9. CASE Fuse(signals) = "buy"
      BY <3>5, <3>6, <3>8, <3>9 DEF Opposite, m
    <3>10. CASE Fuse(signals) = "sell"
      BY <3>5, <3>6, <3>8, <3>10 DEF Opposite, m
    <3>11. CASE Fuse(signals) \notin {"buy", "sell"}
      <4>1. Fuse(m) \notin {"buy", "sell"}
        BY <3>5, <3>6, <3>8, <3>11
      <4>2. Fuse(m) = Fuse(signals)
        BY <3>5, <3>6, <3>7, <3>11, <4>1
      <4>. QED
        BY <3>11, <4>2 DEF Opposite, m
    <3>. QED
      BY <3>9, <3>10, <3>11
  <2>. QED
    BY <2>2, <2>3
<1>. QED
  BY <1>1, FusionInit, FusionNext, PTL DEF Spec

-----------------------------------------------------------------------------
(* A list without one of its signals *)

\* A sequence without its element at i.
LEMMA RemoveAtProperties ==
    ASSUME NEW S, NEW s \in Seq(S), NEW i \in 1 .. Len(s)
    PROVE  /\ RemoveAt(s, i) \in Seq(S)
           /\ Len(RemoveAt(s, i)) = Len(s) - 1
           /\ \A j \in 1 .. Len(s) - 1 :
                RemoveAt(s, i)[j] = IF j < i THEN s[j] ELSE s[j + 1]
<1>. DEFINE front == SubSeq(s, 1, i - 1)  back == SubSeq(s, i + 1, Len(s))
<1>1. Len(s) \in Nat /\ \A j \in 1 .. Len(s) : s[j] \in S
  BY ElementOfSeq
<1>2. /\ front \in Seq(S) /\ Len(front) = i - 1
      /\ \A j \in 1 .. i - 1 : front[j] = s[j]
  BY <1>1, SubSeqProperties
<1>3. /\ back \in Seq(S) /\ Len(back) = Len(s) - i
      /\ \A j \in 1 .. Len(s) - i : back[j] = s[i + j]
  <2>1. PICK m \in Int : m = i + 1
    OBVIOUS
  <2>2. \A j \in m .. Len(s) : s[j] \in S
    BY <1>1, <2>1
  <2>3. /\ SubSeq(s, m, Len(s)) \in Seq(S)
        /\ Len(SubSeq(s, m, Len(s))) = IF m <= Len(s) THEN Len(s) - m + 1 ELSE 0
        /\ \A j \in 1 .. Len(s) - m + 1 : SubSeq(s, m, Len(s))[j] = s[m + j - 1]
    BY <1>1, <2>2, SubSeqProperties
  <2>4. back = SubSeq(s, m, Len(s))
    BY <2>1
  <2>. HIDE DEF back
  <2>5. ASSUME NEW j \in 1 .. Len(s) - i
        PROVE  back[j] = s[i + j]
    <3>1. j \in 1 .. Len(s) - m + 1 /\ m + j - 1 = i + j
      BY <1>1, <2>1
    <3>. QED
      BY <2>3, <2>4, <3>1
  <2>. QED
    BY <1>1, <2>1, <2>3, <2>4, <2>5
<1>. HIDE DEF front, back
<1>4. /\ front \o back \in Seq(S) /\ Len(front \o back) = Len(s) - 1
      /\ \A j \in 1 .. Len(s) - 1 :
           (front \o back)[j] = IF j <= i - 1 THEN front[j] ELSE back[j - (i - 1)]
  <2>1. /\ front \o back \in Seq(S)
        /\ Len(front \o back) = Len(front) + Len(back)
        /\ \A j \in 1 .. Len(front) + Len(back) :
             (front \o back)[j] = IF j <= Len(front) THEN front[j]
                                                   ELSE back[j - Len(front)]
    BY <1>2, <1>3, ConcatProperties
  <2>2. Len(front) + Len(back) = Len(s) - 1 /\ Len(front) = i - 1
    BY <1>1, <1>2, <1>3
  <2>. QED
    BY <2>1, <2>2
<1>. DEFINE both == front \o back
<1>5. ASSUME NEW j \in 1 .. Len(s) - 1
      PROVE  both[j] = IF j < i THEN s[j] ELSE s[j + 1]
  <2>1. ASSUME j < i PROVE both[j] = s[j]
    BY <1>1, <1>2, <1>4, <2>1
  <2>2. ASSUME j >= i PROVE both[j] = s[j + 1]
    <3>1. PICK k \in 1 .. Len(s) - i : k = j - (i - 1)
      BY <1>1, <2>2
    <3>2. i + k = j + 1
      BY <1>1, <3>1
    <3>3. back[k] = s[j + 1]
      BY <1>3, <3>2
    <3>4. both[j] = back[k]
      BY <1>1, <1>4, <2>2, <3>1
    <3>. QED
      BY <1>1, <2>2, <3>3, <3>4
  <2>3. j < i \/ j >= i
    BY <1>1
  <2>. HIDE DEF both
  <2>. QED
    BY <2>1, <2>2, <2>3, Zenon
<1>6. RemoveAt(s, i) = front \o back
  BY DEF RemoveAt, front, back
<1>. QED
  BY <1>4, <1>5, <1>6

\* Which signal stands where, when the one at i is gone.
Shift(i, j) == IF j < i THEN j ELSE j + 1

\* D are the positions of a list of n, S those of the list without its i-th.
Positions(n, i, D, S) == n \in Nat /\ D = 1 .. n /\ S = 1 .. n - 1 /\ i \in D

\* The shift is one to one, onto the other positions.
LEMMA Shifts ==
    ASSUME NEW n, NEW i, NEW D, NEW S, Positions(n, i, D, S)
    PROVE  /\ \A j \in S : Shift(i, j) \in D \ {i}
           /\ \A j, k \in S : Shift(i, j) = Shift(i, k) => j = k
           /\ \A k \in D \ {i} : \E j \in S : Shift(i, j) = k
<1>0. n \in Nat /\ D = 1 .. n /\ S = 1 .. n - 1 /\ i \in D
  BY DEF Positions
<1>1. ASSUME NEW k \in D \ {i}
      PROVE  \E j \in S : Shift(i, j) = k
  <2>1. CASE k < i
    BY <1>0, <2>1 DEF Shift
  <2>2. CASE k > i
    <3>1. k - 1 \in S /\ Shift(i, k - 1) = k
      BY <1>0, <2>2 DEF Shift
    <3>. QED
      BY <3>1
  <2>. QED
    BY <1>0, <2>1, <2>2
<1>2. /\ \A j \in S : Shift(i, j) \in D \ {i}
      /\ \A j, k \in S : Shift(i, j) = Shift(i, k) => j = k
  BY <1>0 DEF Shift
<1>. QED
  BY <1>1, <1>2

\* A sum over the list without the signal at i.
LEMMA SumWithout ==
    ASSUME NEW n \in Nat, NEW i \in 1 .. n, NEW f, NEW g,
           \A k \in 1 .. n : f[k] \in Int,
           \A j \in 1 .. n - 1 : g[j] = f[Shift(i, j)]
    PROVE  /\ SumFunctionOnSet(f, 1 .. n) \in Int
           /\ SumFunctionOnSet(g, 1 .. n - 1) = SumFunctionOnSet(f, 1 .. n) - f[i]
<1>. DEFINE S == 1 .. n - 1
            D == 1 .. n
            e == [j \in S |-> Shift(i, j)]
<1>0. S = 1 .. n - 1 /\ D = 1 .. n /\ i \in D
  OBVIOUS
<1>0p. Positions(n, i, D, S)
  BY DEF Positions
<1>0a. /\ \A k \in D : f[k] \in Int
       /\ \A j \in S : g[j] = f[Shift(i, j)]
  OBVIOUS
<1>0b. \A j \in S : e[j] = Shift(i, j)
  OBVIOUS
<1>. HIDE DEF S, D, e
<1>0c. /\ \A j \in S : Shift(i, j) \in D \ {i}
       /\ \A j, k \in S : Shift(i, j) = Shift(i, k) => j = k
       /\ \A k \in D \ {i} : \E j \in S : Shift(i, j) = k
  BY <1>0p, Shifts
<1>1. /\ \A j \in S : e[j] \in D \ {i} /\ f[e[j]] \in Int /\ g[j] = f[e[j]]
      /\ \A j, k \in S : e[j] = e[k] => j = k
  BY <1>0a, <1>0b, <1>0c
<1>2. {e[j] : j \in S} = D \ {i}
  BY <1>0b, <1>0c
<1>3. IsFiniteSet(S) /\ IsFiniteSet(D) /\ i \in D
  BY <1>0, FS_Interval
<1>4. \A k \in D : f[k] \in Int
  BY <1>0a
<1>5. SumFunctionOnSet(g, S) = SumFunctionOnSet(f, {e[j] : j \in S})
  BY <1>1, <1>3, SumMoved
<1>6. SumFunctionOnSet(f, D) \in Int /\ SumFunctionOnSet(f, D) = f[i] + SumFunctionOnSet(f, D \ {i})
  BY <1>3, <1>4, Summing
<1>7. SumFunctionOnSet(f, D \ {i}) \in Int
  BY <1>3, <1>4, FS_Subset, Summing
<1>8. SumFunctionOnSet(g, S) = SumFunctionOnSet(f, D) - f[i]
  BY <1>2, <1>3, <1>4, <1>5, <1>6, <1>7
<1>. QED
  BY <1>6, <1>8 DEF S, D

\* The votes of the list without the signal at i.
LEMMA CountWithout ==
    ASSUME NEW sigs \in Seq(RealSignals), NEW i \in DOMAIN sigs, NEW r,
           DOMAIN r = 1 .. Len(sigs) - 1,
           \A j \in DOMAIN r : r[j] = sigs[Shift(i, j)],
           NEW d
    PROVE  Count(r, d) = IF sigs[i].direction = d THEN Count(sigs, d) - 1 ELSE Count(sigs, d)
<1>. DEFINE n == Len(sigs)
            D == DOMAIN sigs
            S == DOMAIN r
            A == {j \in S : r[j].direction = d}
            B == {k \in D : sigs[k].direction = d}
            e == [j \in A |-> Shift(i, j)]
<1>1. n \in Nat /\ D = 1 .. n /\ S = 1 .. n - 1 /\ i \in D /\ IsFiniteSet(D)
  BY Terms
<1>1b. Positions(n, i, D, S)
  BY <1>1 DEF Positions
<1>1a. IsFiniteSet(S)
  BY <1>1, FS_Interval
<1>2. IsFiniteSet(A) /\ IsFiniteSet(B) /\ IsFiniteSet(B \ {i})
  BY <1>1, <1>1a, FS_Subset
<1>2a. \A j \in S : r[j] = sigs[Shift(i, j)]
  OBVIOUS
<1>. HIDE DEF n, D, S
<1>2b. /\ \A j \in S : Shift(i, j) \in D \ {i}
       /\ \A j, k \in S : Shift(i, j) = Shift(i, k) => j = k
       /\ \A k \in D \ {i} : \E j \in S : Shift(i, j) = k
  BY <1>1b, Shifts
<1>3. \A j \in A : e[j] \in B \ {i}
  BY <1>2a, <1>2b
<1>4. \A j, k \in A : e[j] = e[k] => j = k
  BY <1>2b
<1>5. \A k \in B \ {i} : \E j \in A : e[j] = k
  <2>. SUFFICES ASSUME NEW k \in B \ {i} PROVE \E j \in A : e[j] = k
    OBVIOUS
  <2>1. PICK j \in S : Shift(i, j) = k
    BY <1>2b
  <2>2. j \in A
    BY <1>2a, <2>1
  <2>. QED
    BY <2>1, <2>2
<1>5a. i \in B <=> sigs[i].direction = d
  BY <1>1
<1>5b. Count(r, d) = Cardinality(A) /\ Count(sigs, d) = Cardinality(B)
  BY DEF Count, D, S
<1>. HIDE DEF A, B
<1>6. e \in Bijection(A, B \ {i})
  BY <1>3, <1>4, <1>5 DEF Bijection, Injection, Surjection, IsInjective
<1>7. ExistsBijection(A, B \ {i})
  BY <1>6 DEF ExistsBijection
<1>8. Cardinality(B \ {i}) = Cardinality(A)
  BY <1>2, <1>7, FS_Bijection
<1>9. Cardinality(B \ {i}) = IF i \in B THEN Cardinality(B) - 1 ELSE Cardinality(B)
  BY <1>2, FS_RemoveElement
<1>. QED
  BY <1>5a, <1>5b, <1>8, <1>9

\* What the confidences add up to.
Trust(sigs) == Total(sigs, LAMBDA s : s.confidence)

\* The totals of the list without a seller.
LEMMA TotalsWithout ==
    ASSUME NEW sigs \in Seq(RealSignals), NEW i \in DOMAIN sigs, sigs[i].direction = "sell",
           NEW r, r = RemoveAt(sigs, i)
    PROVE  /\ r \in Seq(RealSignals) /\ Len(r) = Len(sigs) - 1 /\ Len(sigs) \in Nat
           /\ WeightedSum(r) >= WeightedSum(sigs)
           /\ WeightTotal(r) <= WeightTotal(sigs)
           /\ \E c \in Nat :
                /\ c <= 950
                /\ Trust(sigs) \in Int
                /\ Trust(r) = Trust(sigs) - c
           /\ Count(r, "buy") = Count(sigs, "buy")
           /\ Count(r, "sell") = Count(sigs, "sell") - 1
<1>. DEFINE n == Len(sigs)
            D == DOMAIN sigs
            S == DOMAIN r
<1>1. n \in Nat /\ D = 1 .. n /\ i \in 1 .. n /\ i \in D
  BY Terms
<1>2. /\ r \in Seq(RealSignals) /\ Len(r) = n - 1
      /\ \A j \in 1 .. n - 1 : r[j] = IF j < i THEN sigs[j] ELSE sigs[j + 1]
  BY <1>1, RemoveAtProperties
<1>3. S = 1 .. n - 1
  BY <1>2
<1>4. \A j \in S : r[j] = sigs[Shift(i, j)]
  BY <1>2, <1>3 DEF Shift
<1>5. Positions(n, i, D, S)
  BY <1>1, <1>3 DEF Positions
<1>6. /\ \A j \in S : Shift(i, j) \in D \ {i}
      /\ \A k \in D \ {i} : \E j \in S : Shift(i, j) = k
  BY <1>5, Shifts
<1>7. Count(r, "buy") = Count(sigs, "buy") /\ Count(r, "sell") = Count(sigs, "sell") - 1
  BY <1>3, <1>4, CountWithout
<1>8. MarketRegime(r) = MarketRegime(sigs)
  <2>1. \A j \in S : \E k \in D : r[j].strategy = sigs[k].strategy
    BY <1>4, <1>6
  <2>2. ASSUME NEW k \in D, sigs[k].strategy = "regime"
        PROVE  \E j \in S : r[j].strategy = "regime"
    <3>1. sigs[k].direction = "hold"
      BY <2>2, Terms, RealFields
    <3>2. PICK j \in S : Shift(i, j) = k
      BY <1>6, <3>1
    <3>. QED
      BY <1>4, <2>2, <3>2
  <2>. QED
    BY <2>1, <2>2, SameRegime
<1>9. \A j \in S : /\ Scores(r)[j] = Scores(sigs)[Shift(i, j)]
                   /\ Weights(r)[j] = Weights(sigs)[Shift(i, j)]
                   /\ Trusts(r)[j] = Trusts(sigs)[Shift(i, j)]
  BY <1>4, <1>6, <1>8 DEF Scores, Weights, Trusts
<1>10. \A k \in D : /\ Scores(sigs)[k] \in Int
                    /\ Weights(sigs)[k] \in Nat
                    /\ Trusts(sigs)[k] \in Nat /\ Trusts(sigs)[k] <= 950
  BY Terms
<1>11. Scores(sigs)[i] <= 0
  BY Terms
<1>. DEFINE f1 == Scores(sigs)  g1 == Scores(r)
            f2 == Weights(sigs) g2 == Weights(r)
            f3 == Trusts(sigs)  g3 == Trusts(r)
<1>12. /\ WeightedSum(sigs) = SumFunctionOnSet(f1, 1 .. n)
       /\ WeightTotal(sigs) = SumFunctionOnSet(f2, 1 .. n)
       /\ Trust(sigs) = SumFunctionOnSet(f3, 1 .. n)
  BY <1>1, Totals DEF Trust
<1>13. /\ WeightedSum(r) = SumFunctionOnSet(g1, 1 .. n - 1)
       /\ WeightTotal(r) = SumFunctionOnSet(g2, 1 .. n - 1)
       /\ Trust(r) = SumFunctionOnSet(g3, 1 .. n - 1)
  BY <1>3, Totals DEF Trust
<1>14. \A k \in 1 .. n : f1[k] \in Int /\ f2[k] \in Int /\ f3[k] \in Int
  BY <1>1, <1>10
<1>15. \A j \in 1 .. n - 1 : /\ g1[j] = f1[Shift(i, j)] /\ g2[j] = f2[Shift(i, j)]
                             /\ g3[j] = f3[Shift(i, j)]
  BY <1>3, <1>9
<1>16. f1[i] \in Int /\ f1[i] <= 0 /\ f2[i] \in Nat /\ f3[i] \in Nat /\ f3[i] <= 950
  BY <1>1, <1>10, <1>11
<1>. HIDE DEF n, D, S, f1, f2, f3, g1, g2, g3
<1>17. /\ SumFunctionOnSet(f1, 1 .. n) \in Int
       /\ SumFunctionOnSet(g1, 1 .. n - 1) = SumFunctionOnSet(f1, 1 .. n) - f1[i]
  BY <1>1, <1>14, <1>15, SumWithout
<1>18. /\ SumFunctionOnSet(f2, 1 .. n) \in Int
       /\ SumFunctionOnSet(g2, 1 .. n - 1) = SumFunctionOnSet(f2, 1 .. n) - f2[i]
  BY <1>1, <1>14, <1>15, SumWithout
<1>19. /\ SumFunctionOnSet(f3, 1 .. n) \in Int
       /\ SumFunctionOnSet(g3, 1 .. n - 1) = SumFunctionOnSet(f3, 1 .. n) - f3[i]
  BY <1>1, <1>14, <1>15, SumWithout
<1>20. WeightedSum(r) >= WeightedSum(sigs)
  BY <1>12, <1>13, <1>16, <1>17
<1>21. WeightTotal(r) <= WeightTotal(sigs)
  BY <1>12, <1>13, <1>16, <1>18
<1>22. \E c \in Nat :
         /\ c <= 950
         /\ Trust(sigs) \in Int
         /\ Trust(r) = Trust(sigs) - c
  BY <1>12, <1>13, <1>16, <1>19
<1>. QED
  BY <1>1, <1>2, <1>7, <1>20, <1>21, <1>22 DEF n

\* How sure a fusion is without one of a minority of sellers: the vote took
\* away more than its confidence brought.
LEMMA ConfidentWithout ==
    ASSUME NEW sigs \in Seq(RealSignals), NEW i \in DOMAIN sigs, sigs[i].direction = "sell",
           NEW r, r = RemoveAt(sigs, i),
           Count(sigs, "sell") <= Count(sigs, "buy"),
           Confident(sigs), MinConfidence >= 40
    PROVE  Confident(r) /\ r # <<>>
<1>. DEFINE b == Count(sigs, "buy")  s == Count(sigs, "sell")
            t == Trust(sigs)
            u == Trust(r)
            n == Len(sigs)
            q == Count(r, "sell")
<1>1. /\ r \in Seq(RealSignals) /\ Len(r) = n - 1 /\ n \in Nat
      /\ Count(r, "buy") = b /\ q = s - 1
  BY TotalsWithout
<1>2. PICK c \in Nat : c <= 950 /\ t \in Int /\ u = t - c
  BY TotalsWithout
<1>3. u \in Int
  BY <1>2
<1>4. IsFiniteSet(DOMAIN sigs) /\ IsFiniteSet(DOMAIN r)
  BY <1>1, Terms
<1>5. s <= b
  OBVIOUS
<1>6. Confidence(sigs) >= (100 * MinConfidence - 5) * n
  BY DEF Confident
<1>. HIDE DEF b, s, t, u, n, q
<1>7. b \in Nat /\ s \in Nat /\ Confidence(sigs) = 4000 * b + 6 * t - 1800 * s
  BY <1>2, <1>4, <1>5, ConfidenceOfVotes DEF b, s, t, Trust
<1>8. /\ q \in Nat
      /\ q <= b => Confidence(r) = 4000 * b + 6 * u - 1800 * q
  BY <1>1, <1>3, <1>4, ConfidenceOfVotes DEF u, q, Trust
<1>9. b >= 1
  BY <1>1, <1>5, <1>7, <1>8
<1>10. r # <<>>
  <2>1. SUFFICES ASSUME r = <<>> PROVE FALSE
    OBVIOUS
  <2>2. {j \in DOMAIN r : r[j].direction = "buy"} = {}
    BY <2>1
  <2>3. Count(r, "buy") = 0
    BY <2>2, FS_EmptySet DEF Count
  <2>. QED
    BY <1>1, <1>9, <2>3
<1>11. Confidence(r) = Confidence(sigs) + 1800 - 6 * c
  BY <1>1, <1>2, <1>5, <1>7, <1>8
<1>. DEFINE k == 100 * MinConfidence - 5
<1>12. k \in Int /\ k >= 3995
  <2>1. MinConfidence \in Nat
    BY FusionConstants
  <2>2. \A x \in Nat : x >= 40 => 100 * x - 5 \in Int /\ 100 * x - 5 >= 3995
    OBVIOUS
  <2>. QED
    BY <2>1, <2>2
<1>13. (100 * MinConfidence - 5) * n = k * n /\ (100 * MinConfidence - 5) * Len(r) = k * Len(r)
  OBVIOUS
<1>. HIDE DEF k
<1>14. k * n \in Int /\ k * Len(r) = k * n - k
  BY <1>1, <1>12
<1>. DEFINE kn == k * n  kr == k * Len(r)
<1>15. kn \in Int /\ kr = kn - k /\ Confidence(sigs) >= kn
  BY <1>6, <1>13, <1>14
<1>16. Confidence(sigs) \in Int
  BY <1>2, <1>7
<1>. HIDE DEF kn, kr
<1>17. Confidence(r) >= kr
  BY <1>2, <1>11, <1>12, <1>15, <1>16
<1>. QED
  BY <1>10, <1>13, <1>17 DEF Confident, kr

\* In every reachable state, where the least confidence to trade is 40% or
\* more: a decision to buy stands when one of a minority of sellers is silent.
THEOREM SilencedDissenters ==
    ASSUME MinConfidence >= 40
    PROVE  Spec => []DissentersDoNotHelp
<1>1. FusionInv => DissentersDoNotHelp
  <2>. SUFFICES ASSUME FusionInv, NEW i \in DOMAIN signals,
                      signals[i].direction = "sell",
                      Count(signals, "sell") <= Count(signals, "buy"),
                      Fuse(signals) = "buy"
               PROVE  Fuse(RemoveAt(signals, i)) = "buy"
    BY DEF DissentersDoNotHelp
  <2>. DEFINE r == RemoveAt(signals, i)
              sum == WeightedSum(signals)    sumR == WeightedSum(r)
              total == WeightTotal(signals)  totalR == WeightTotal(r)
              m == 10000 * MinScoreBuy
              bar == 10000 * MinScoreBuy * total
              barR == 10000 * MinScoreBuy * totalR
  <2>1. signals \in Seq(RealSignals) /\ signals # <<>>
    BY FuseOfNothing DEF FusionInv
  <2>2. sum \in Int /\ total \in Nat
    BY <2>1, TotalTypes
  <2>3. r \in Seq(RealSignals) /\ sumR >= sum /\ totalR <= total
    BY <2>1, TotalsWithout
  <2>4. sumR \in Int /\ totalR \in Nat
    BY <2>3, TotalTypes
  <2>5. m \in Nat
    BY FusionConstants
  <2>6. bar = m * total /\ barR = m * totalR
    OBVIOUS
  <2>7. bar = 10000 * MinScoreBuy * total /\ barR = 10000 * MinScoreBuy * totalR
    OBVIOUS
  <2>. HIDE DEF r, sum, sumR, total, totalR, m, bar, barR
  <2>8. Confident(signals) /\ sum > bar
    BY <2>1, <2>2, <2>7, FuseDecides DEF sum, total
  <2>9. Confident(r) /\ r # <<>>
    BY <2>1, <2>8, ConfidentWithout DEF r
  <2>9a. \A x, y, z \in Nat : y <= z => x * y \in Int /\ x * z \in Int /\ x * y <= x * z
    <3>1. ASSUME NEW x \in Nat, NEW y \in Nat, NEW z \in Nat, y <= z
          PROVE  x * y \in Int /\ x * z \in Int /\ x * y <= x * z
      <4>1. x * (z - y) >= 0 /\ x * (z - y) = x * z - x * y
        BY <3>1
      <4>. QED
        BY <4>1
    <3>. QED
      BY <3>1
  <2>10. bar \in Int /\ barR \in Int /\ barR <= bar
    BY <2>9a, <2>2, <2>3, <2>4, <2>5, <2>6
  <2>11. sumR > barR
    BY <2>2, <2>3, <2>4, <2>8, <2>10
  <2>12. Fuse(r) = "buy"
    BY <2>4, <2>7, <2>9, <2>11, FuseDecides DEF sumR, totalR
  <2>. QED
    BY <2>12 DEF r
<1>. QED
  BY <1>1, FusionInit, FusionNext, PTL DEF Spec
=============================================================================

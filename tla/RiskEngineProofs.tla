-------------------------- MODULE RiskEngineProofs ---------------------------
(* Theorems about the risk gate, for every choice of the limits.            *)
EXTENDS McpTools, TLAPS

\* Multiplication by a natural number is monotone (the size and risk checks
\* compare with a percentage of the equity).
LEMMA Scale == ASSUME NEW n \in Nat, NEW x \in Int, NEW y \in Int, x <= y
               PROVE  n * x <= n * y
  BY SMT

\* A percentage of the peak is at most the whole peak.
LEMMA PartOfPeak == ASSUME NEW n \in 0 .. 100, NEW x \in Nat
                    PROVE  n * x <= 100 * x
  BY SMT

\* TypeOK holds initially and is kept by every step.
LEMMA TypeInduction == /\ Init => TypeOK
                       /\ TypeOK /\ [Next]_vars => TypeOK'
  <1>1. Init => TypeOK
    <2>1. Capital \in Nat /\ Capital # 0
      BY RiskConstants
    <2>2. 100 * Capital \in Nat \ {0}
      BY <2>1, SMT
    <2>3. 0 \in Int
      BY SMT
    <2>4. QED BY <2>2, <2>3, Zenon DEF Init, TypeOK
  <1>2. ASSUME TypeOK, [Next]_vars PROVE TypeOK'
    <2>1. CASE ActivateKillSwitch \/ DeactivateKillSwitch
      BY <1>2, <2>1 DEF TypeOK, ActivateKillSwitch, DeactivateKillSwitch
    <2>2. ASSUME NEW d \in PnlChanges, UpdateDailyPnl(d) PROVE TypeOK'
      BY <1>2, <2>2, RiskConstants DEF TypeOK, UpdateDailyPnl
    <2>3. ASSUME NEW v \in PortfolioValues, UpdatePeakValue(v) PROVE TypeOK'
      BY <1>2, <2>3, RiskConstants DEF TypeOK, UpdatePeakValue
    <2>4. CASE ResetDaily
      BY <1>2, <2>4 DEF TypeOK, ResetDaily
    <2>5. CASE UNCHANGED vars
      BY <1>2, <2>5 DEF TypeOK, vars
    <2>6. QED BY <1>2, <2>1, <2>2, <2>3, <2>4, <2>5 DEF Next
  <1>3. QED BY <1>1, <1>2

\* The type invariant: in particular the peak is never zero, so the drawdown
\* check is never skipped.
THEOREM TypeCorrect == Spec => []TypeOK
  BY TypeInduction, PTL DEF Spec

\* The drawdown check alone refuses every account without equity.
LEMMA DrawdownStopsRuin ==
    ASSUME TypeOK, NEW a \in Accounts, a.equity <= 0
    PROVE  ~DrawdownOK(a)
  <1>1. /\ peak \in Nat /\ peak > 0
        /\ a.equity \in Int /\ MaxDrawdownPct \in 0 .. 100
    BY RiskConstants DEF TypeOK
  <1>2. MaxDrawdownPct * peak <= 100 * peak
    BY <1>1, PartOfPeak
  <1>3. 100 * peak <= 100 * (peak - a.equity)
    BY <1>1, SMT
  <1>4. MaxDrawdownPct * peak \in Int
    BY <1>1, SMT
  <1>5. ~(100 * (peak - a.equity) < MaxDrawdownPct * peak)
    BY <1>1, <1>2, <1>3, <1>4, SMT
  <1>6. QED BY <1>1, <1>5 DEF DrawdownOK

\* In no reachable state does an account without equity trade.
THEOREM Solvency == Spec => []NoEquityNoTrade
  <1>1. TypeOK => NoEquityNoTrade
    BY DrawdownStopsRuin, Zenon DEF NoEquityNoTrade, Approves
  <1>2. QED BY <1>1, TypeCorrect, PTL

\* One approval carries over to a sounder account.
LEMMA SounderIsApproved ==
    ASSUME TypeOK, NEW r \in Requests, NEW a \in Accounts, NEW b \in Accounts,
           Approves(r, a), AtLeastAsSound(b, a)
    PROVE  Approves(r, b)
  <1>1. /\ peak \in Nat /\ peak > 0
        /\ a.equity \in Int /\ b.equity \in Int /\ a.equity <= b.equity
        /\ a.cash \in Int /\ b.cash \in Int /\ a.cash <= b.cash
        /\ a.positions \in Nat /\ b.positions \in Nat
        /\ b.positions <= a.positions
        /\ MaxPositionPct \in Nat /\ MaxLossPerTradePct \in Nat
        /\ MaxOpenPositions \in Nat /\ MaxDrawdownPct \in 0 .. 100
    BY RiskConstants DEF TypeOK, AtLeastAsSound
  <1>2. Entry(r) \in Int /\ Value(r) \in Int
    BY RiskConstants DEF Entry, Value, Given
  <1>3. a.equity > 0
    BY <1>1, DrawdownStopsRuin DEF Approves
  <1>4. PositionSizeOK(r, b)
    <2>1. MaxPositionPct * a.equity <= MaxPositionPct * b.equity
      BY <1>1, Scale
    <2>2. MaxPositionPct * a.equity \in Int /\ MaxPositionPct * b.equity \in Int
      BY <1>1, SMT
    <2>3. Value(r) > 0 => 100 * Value(r) <= MaxPositionPct * a.equity
      BY <1>3, Zenon DEF Approves, PositionSizeOK
    <2>4. Value(r) > 0 => 100 * Value(r) <= MaxPositionPct * b.equity
      BY <1>2, <2>1, <2>2, <2>3, SMT
    <2>5. QED BY <2>4, Zenon DEF PositionSizeOK
  <1>5. RiskPerTradeOK(r, b)
    <2> DEFINE x == 100 * (Distance(Entry(r), 100 * r.stopLoss) * r.quantity)
    <2>1. MaxLossPerTradePct * a.equity <= MaxLossPerTradePct * b.equity
      BY <1>1, Scale
    <2>2. /\ MaxLossPerTradePct * a.equity \in Int
          /\ MaxLossPerTradePct * b.equity \in Int
      BY <1>1, SMT
    <2>3. Given(r.stopLoss) => x \in Int
      BY <1>2, RiskConstants, SMT DEF Given, Distance
    <2>4. Given(r.stopLoss) => x <= MaxLossPerTradePct * a.equity
      BY <1>3, Zenon DEF Approves, RiskPerTradeOK
    <2> HIDE DEF x
    <2>5. Given(r.stopLoss) => x <= MaxLossPerTradePct * b.equity
      BY <2>1, <2>2, <2>3, <2>4, SMT
    <2>6. QED BY <2>5, Zenon DEF RiskPerTradeOK, x
  <1>6. OpenPositionsOK(b)
    <2>1. OpenPositionsOK(a)
      BY DEF Approves
    <2>2. QED BY <1>1, <2>1 DEF OpenPositionsOK
  <1>7. DrawdownOK(b)
    <2>1. 100 * (peak - a.equity) < MaxDrawdownPct * peak
      BY <1>1, Zenon DEF Approves, DrawdownOK
    <2>2. MaxDrawdownPct * peak \in Int
      BY <1>1, SMT
    <2>3. 100 * (peak - b.equity) < MaxDrawdownPct * peak
      BY <1>1, <2>1, <2>2, SMT
    <2>4. QED BY <2>3, Zenon DEF DrawdownOK
  <1>8. FundsOK(r, b)
    <2>1. FundsOK(r, a)
      BY DEF Approves
    <2>2. QED BY <1>1, <1>2, <2>1 DEF FundsOK
  <1>9. QED BY <1>4, <1>5, <1>6, <1>7, <1>8, Zenon DEF Approves

\* The gate is monotone in the account in every reachable state.
THEOREM Monotone == Spec => []GateIsMonotone
  <1>1. TypeOK => GateIsMonotone
    BY SounderIsApproved, Zenon DEF GateIsMonotone
  <1>2. QED BY <1>1, TypeCorrect, PTL

\* The step that reaches the loss limit raises the kill switch.
THEOREM LossRaises == Spec => LossLimitRaisesKillSwitch
  <1>1. ASSUME TypeOK, [Next]_vars, LossLimitReached', ~LossLimitReached
        PROVE  killSwitch'
    <2>1. dailyPnl \in Int /\ MaxDailyLossPct * Capital \in Nat
      BY <1>1, RiskConstants, SMT DEF TypeOK
    <2>2. ASSUME NEW d \in PnlChanges, UpdateDailyPnl(d) PROVE killSwitch'
      <3>1. dailyPnl' \in Int
        BY <2>1, <2>2, RiskConstants DEF UpdateDailyPnl
      <3>2. dailyPnl' < 0 /\ -dailyPnl' >= MaxDailyLossPct * Capital
        BY <1>1, <2>1, <3>1, SMT DEF LossLimitReached
      <3>3. QED BY <2>2, <3>2, Zenon DEF UpdateDailyPnl
    <2>3. dailyPnl' # dailyPnl
      BY <1>1 DEF LossLimitReached
    <2>4. dailyPnl' # 0
      BY <1>1, <2>1, SMT DEF LossLimitReached
    <2>5. QED BY <1>1, <2>2, <2>3, <2>4
             DEF Next, vars, ActivateKillSwitch, DeactivateKillSwitch,
                 UpdatePeakValue, ResetDaily
  <1>2. QED BY <1>1, TypeCorrect, PTL DEF Spec, LossLimitRaisesKillSwitch

\* With equity, "at most a percentage of it" means the same to the tool.
LEMMA PercentOfEquity ==
    ASSUME NEW a, a.equity \in Int, a.equity > 0, NEW x, NEW p
    PROVE  AtMostPercent(x, p, a) <=> 100 * x <= p * a.equity
  <1>1. ~(a.equity < 0)
    BY SMT
  <1>2. QED BY <1>1, Zenon DEF AtMostPercent

\* On an account with equity the checks that gate and tool share agree.
LEMMA SharedChecks ==
    ASSUME NEW r \in Requests, NEW a \in Accounts, Judgeable(r), a.equity > 0
    PROVE  /\ StopLossOK(r) /\ r.stopLoss > 0
           /\ ToolSizeOK(r, a) <=> PositionSizeOK(r, a)
           /\ ToolRiskOK(r, a) <=> RiskPerTradeOK(r, a)
           /\ ToolFundsOK(r, a) <=> FundsOK(r, a)
  <1>1. /\ r.trigger \in Nat /\ r.trigger > 0
        /\ r.stopLoss \in Nat /\ r.stopLoss > 0 /\ r.stopLoss # NoPrice
        /\ r.quantity \in Int /\ r.quantity > 0
        /\ a.equity \in Int
    BY RiskConstants DEF Judgeable, Given
  <1>2. Entry(r) = 100 * r.trigger
    BY DEF Entry, Judgeable
  <1>3. Value(r) = PositionValue(r)
    BY <1>2 DEF Value, PositionValue
  <1>4. Value(r) > 0
    <2>1. r.quantity * (100 * r.trigger) > 0
      BY <1>1, SMT
    <2>2. QED BY <1>3, <2>1 DEF PositionValue
  <1>5. ToolSizeOK(r, a) <=> PositionSizeOK(r, a)
    <2>1. ToolSizeOK(r, a) <=> 100 * PositionValue(r) <= MaxPositionPct * a.equity
      BY <1>1, PercentOfEquity, Zenon DEF ToolSizeOK
    <2>2. QED BY <1>3, <1>4, <2>1, Zenon DEF PositionSizeOK
  <1>6. ToolRiskOK(r, a) <=> RiskPerTradeOK(r, a)
    <2>1. Distance(Entry(r), 100 * r.stopLoss) = PerShareRisk(r)
      BY <1>1, <1>2, SMT DEF Distance, PerShareRisk
    <2>2. ToolRiskOK(r, a) <=>
            100 * (PerShareRisk(r) * r.quantity) <= MaxLossPerTradePct * a.equity
      BY <1>1, PercentOfEquity, Zenon DEF ToolRiskOK
    <2>3. QED BY <2>1, <2>2, Zenon DEF RiskPerTradeOK, Judgeable
  <1>7. ToolFundsOK(r, a) <=> FundsOK(r, a)
    BY <1>3, <1>4, Zenon DEF ToolFundsOK, FundsOK
  <1>8. QED BY <1>1, <1>5, <1>6, <1>7, Zenon DEF StopLossOK

\* In every reachable state the MCP tool and the gate agree on what they both
\* look at, for every choice of limits, orders and accounts.
THEOREM ToolAgreement == Spec => []ToolAgreesWithGate
  <1>1. TypeOK => ToolAgreesWithGate
    <2> SUFFICES ASSUME TypeOK, NEW r \in Requests, NEW a \in Accounts,
                        NEW t \in TakeProfits, Judgeable(r)
                 PROVE  (/\ Approves(r, a)
                         /\ ToolRewardOK(r, t))
                        <=> (/\ ToolPasses(r, a, t)
                             /\ ~killSwitch /\ DailyLossOK /\ DrawdownOK(a))
      BY Zenon DEF ToolAgreesWithGate
    <2>1. CASE a.equity > 0
      BY <2>1, SharedChecks, Zenon DEF Approves, ToolPasses
    <2>2. CASE a.equity <= 0
      BY <2>2, DrawdownStopsRuin, Zenon DEF Approves
    <2>3. a.equity > 0 \/ a.equity <= 0
      BY RiskConstants, SMT
    <2>4. QED BY <2>1, <2>2, <2>3
  <1>2. QED BY <1>1, TypeCorrect, PTL

\* Integer division by a positive number, as bounds.
LEMMA DivBounds ==
    ASSUME NEW m \in Int, NEW c \in Int, c > 0
    PROVE  /\ m \div c \in Int
           /\ c * (m \div c) <= m
           /\ m < c * (m \div c + 1)
OBVIOUS

\* A rounded quotient is off by half a digit at most.
LEMMA RoundedBounds ==
    ASSUME NEW n \in Int, NEW d \in Int, d > 0
    PROVE  /\ Rounded(n, d) \in Int
           /\ d * (2 * Rounded(n, d) - 1) <= 2 * n
           /\ 2 * n < d * (2 * Rounded(n, d) + 2)
  <1> DEFINE k == (2 * n + d) \div (2 * d)
  <1>1. /\ k \in Int
        /\ (2 * d) * k <= 2 * n + d
        /\ 2 * n + d < (2 * d) * (k + 1)
    <2>1. 2 * n + d \in Int /\ 2 * d \in Int /\ 2 * d > 0
      OBVIOUS
    <2>2. QED BY <2>1, DivBounds
  <1>2. Rounded(n, d) = k
    BY DEF Rounded
  <1> HIDE DEF k
  <1>3. QED BY <1>1, <1>2

\* A positive factor can be cancelled.
LEMMA CancelFactor ==
    ASSUME NEW a \in Int, NEW b \in Int, NEW c \in Int, c > 0, a * c <= b * c
    PROVE  a <= b
OBVIOUS

\* A quantity that the limit L holds down at X a share is, at Y a share,
\* within the limit M when L allows no more at X than M does at Y.
LEMMA OtherLimit ==
    ASSUME NEW q \in Int, NEW X \in Nat, X > 0, NEW Y \in Nat, NEW L \in Nat,
           NEW M \in Nat, NEW G \in Nat,
           (100 * X) * q <= 2 * (G * L), L * Y <= M * X
    PROVE  (100 * Y) * q <= 2 * (G * M)
  <1> DEFINE a == (100 * Y) * q
             b == 2 * (G * M)
  <1>1. a * X = ((100 * X) * q) * Y
    OBVIOUS
  <1>2. ((100 * X) * q) * Y <= (2 * (G * L)) * Y
    <2>1. (100 * X) * q \in Int /\ 2 * (G * L) \in Int
      OBVIOUS
    <2>2. \A u, v \in Int : u <= v => u * Y <= v * Y
      OBVIOUS
    <2>3. QED BY <2>1, <2>2
  <1>3. (2 * (G * L)) * Y = (2 * G) * (L * Y)
    OBVIOUS
  <1>4. (2 * G) * (L * Y) <= (2 * G) * (M * X)
    <2>1. 2 * G \in Nat /\ L * Y \in Int /\ M * X \in Int
      OBVIOUS
    <2>2. QED BY <2>1, Scale
  <1>5. (2 * G) * (M * X) = b * X
    OBVIOUS
  <1>6. a \in Int /\ b \in Int /\ a * X \in Int /\ b * X \in Int
        /\ ((100 * X) * q) * Y \in Int /\ (2 * (G * L)) * Y \in Int
    OBVIOUS
  <1>7. a * X <= b * X
    BY <1>1, <1>2, <1>3, <1>4, <1>5, <1>6
  <1> HIDE DEF a, b
  <1>8. a <= b
    BY <1>6, <1>7, CancelFactor
  <1>9. QED BY <1>8 DEF a, b

\* What the two limits allow of a quantity q in parts of a share.
LEMMA LimitsOnQuantity ==
    ASSUME NEW r \in Requests, NEW a \in Accounts, a.equity > 0,
           NEW q \in Int, NEW k \in Nat, k > 0
    PROVE  WithinLimits(r, a, q, k) <=>
             /\ 100 * (q * (100 * r.trigger)) <= MaxPositionPct * (k * a.equity)
             /\ 100 * (PerShareRisk(r) * q) <= MaxLossPerTradePct * (k * a.equity)
  <1> DEFINE o == [r EXCEPT !.quantity = q]
             b == [a EXCEPT !.equity = k * a.equity]
  <1>1. /\ o.quantity = q /\ o.trigger = r.trigger /\ o.stopLoss = r.stopLoss
        /\ b.equity = k * a.equity
    BY RiskConstants
  <1>2. b.equity \in Int /\ b.equity > 0
    BY <1>1, RiskConstants
  <1>3. /\ PositionValue(o) = q * (100 * r.trigger)
        /\ PerShareRisk(o) = PerShareRisk(r)
    BY <1>1 DEF PositionValue, PerShareRisk
  <1> HIDE DEF o, b
  <1>4. /\ ToolSizeOK(o, b) <=> 100 * PositionValue(o) <= MaxPositionPct * b.equity
        /\ ToolRiskOK(o, b) <=>
             100 * (PerShareRisk(o) * o.quantity) <= MaxLossPerTradePct * b.equity
    BY <1>2, PercentOfEquity, Zenon DEF ToolSizeOK, ToolRiskOK
  <1>5. WithinLimits(r, a, q, k) <=> ToolSizeOK(o, b) /\ ToolRiskOK(o, b)
    BY Zenon DEF WithinLimits, o, b
  <1>6. QED BY <1>1, <1>3, <1>4, <1>5, Zenon

\* A suggestion for an account with equity keeps both limits up to half a digit,
\* and is as large as they allow.
LEMMA SuggestionBounds ==
    ASSUME NEW r \in Requests, NEW a \in Accounts, NEW p \in RiskPcts,
           Judgeable(r), r.trigger # r.stopLoss, a.equity > 0
    PROVE  /\ WithinLimits(r, a, 2 * Suggested(r, a, p) - 1, 2 * Grain)
           /\ p >= MaxLossPerTradePct =>
                ~WithinLimits(r, a, 2 * Suggested(r, a, p) + 2, 2 * Grain)
  <1> DEFINE P == 100 * r.trigger
             R == PerShareRisk(r)
             rp == IF p < MaxLossPerTradePct THEN p ELSE MaxLossPerTradePct
             L == a.equity * MaxPositionPct
             K == a.equity * rp
             Q == a.equity * MaxLossPerTradePct
             s == Suggested(r, a, p)
             Allowed(price, limit, q) == (100 * price) * q <= 2 * (Grain * limit)
  <1>1. /\ r.trigger \in Nat /\ r.trigger > 0 /\ r.stopLoss \in Nat
        /\ a.equity \in Nat /\ MaxPositionPct \in Nat /\ MaxLossPerTradePct \in Nat
        /\ p \in Nat /\ Grain \in Nat /\ Grain > 0
    BY RiskConstants, McpConstants DEF Judgeable, Given
  <1>2. P \in Nat /\ P > 0 /\ R \in Nat /\ R > 0
    BY <1>1 DEF PerShareRisk, Distance
  <1>3. /\ L \in Nat /\ K \in Nat /\ Q \in Nat
        /\ K <= Q /\ (p >= MaxLossPerTradePct => K = Q)
    <2>1. rp \in Nat /\ rp <= MaxLossPerTradePct
          /\ (p >= MaxLossPerTradePct => rp = MaxLossPerTradePct)
      BY <1>1
    <2> HIDE DEF rp
    <2>2. K <= Q
      BY <1>1, <2>1, Scale
    <2>3. L \in Nat /\ K \in Nat /\ Q \in Nat
      BY <1>1, <2>1
    <2>4. QED BY <2>1, <2>2, <2>3
  <1>4. s = IF K * P > L * R THEN Rounded(Grain * L, 100 * P)
                             ELSE Rounded(Grain * K, 100 * R)
    BY DEF Suggested
  <1>5. \A q \in Int : WithinLimits(r, a, q, 2 * Grain) <=>
                         Allowed(P, L, q) /\ Allowed(R, Q, q)
    <2> TAKE q \in Int
    <2>1. WithinLimits(r, a, q, 2 * Grain) <=>
            /\ 100 * (q * P) <= MaxPositionPct * ((2 * Grain) * a.equity)
            /\ 100 * (R * q) <= MaxLossPerTradePct * ((2 * Grain) * a.equity)
      BY <1>1, LimitsOnQuantity
    <2>2. /\ 100 * (q * P) = (100 * P) * q
          /\ 100 * (R * q) = (100 * R) * q
      <3> HIDE DEF P, R
      <3>1. QED BY <1>2
    <2>3. \A m \in Nat : m * ((2 * Grain) * a.equity) = 2 * (Grain * (a.equity * m))
      BY <1>1
    <2>4. /\ MaxPositionPct * ((2 * Grain) * a.equity) = 2 * (Grain * L)
          /\ MaxLossPerTradePct * ((2 * Grain) * a.equity) = 2 * (Grain * Q)
      BY <1>1, <2>3
    <2> HIDE DEF P, R, L, Q
    <2>5. QED BY <2>1, <2>2, <2>4
  <1> HIDE DEF P, R, rp, L, K, Q, s
  <1>6. CASE K * P > L * R
    <2>1. Grain * L \in Int /\ 100 * P \in Int /\ 100 * P > 0
      BY <1>1, <1>2, <1>3
    <2>2. /\ s \in Int
          /\ (100 * P) * (2 * s - 1) <= 2 * (Grain * L)
          /\ 2 * (Grain * L) < (100 * P) * (2 * s + 2)
      BY <1>4, <1>6, <2>1, RoundedBounds
    <2>3. L * R <= Q * P
      <3>1. K * P <= Q * P
        BY <1>2, <1>3
      <3>2. K * P \in Int /\ L * R \in Int /\ Q * P \in Int
        BY <1>2, <1>3
      <3>3. QED BY <1>6, <3>1, <3>2
    <2>4. 2 * s - 1 \in Int /\ 2 * s + 2 \in Int
      BY <2>2
    <2>5. Allowed(R, Q, 2 * s - 1)
      BY <1>1, <1>2, <1>3, <2>2, <2>3, <2>4, OtherLimit
    <2>6. ~Allowed(P, L, 2 * s + 2)
      <3>1. (100 * P) * (2 * s + 2) \in Int /\ 2 * (Grain * L) \in Int
        BY <2>1, <2>4
      <3>2. QED BY <2>2, <3>1
    <2>7. QED BY <1>5, <2>2, <2>4, <2>5, <2>6 DEF s
  <1>7. CASE ~(K * P > L * R)
    <2>1. Grain * K \in Int /\ 100 * R \in Int /\ 100 * R > 0
      BY <1>1, <1>2, <1>3
    <2>2. /\ s \in Int
          /\ (100 * R) * (2 * s - 1) <= 2 * (Grain * K)
          /\ 2 * (Grain * K) < (100 * R) * (2 * s + 2)
      BY <1>4, <1>7, <2>1, RoundedBounds
    <2>3. 2 * s - 1 \in Int /\ 2 * s + 2 \in Int
      BY <2>2
    <2>4. Allowed(P, L, 2 * s - 1)
      <3>1. K * P <= L * R
        BY <1>2, <1>3, <1>7
      <3>2. QED BY <1>1, <1>2, <1>3, <2>2, <2>3, <3>1, OtherLimit
    <2>5. Allowed(R, Q, 2 * s - 1)
      <3>1. Grain * K <= Grain * Q /\ Grain * Q \in Int
        BY <1>1, <1>3, Scale
      <3>2. (100 * R) * (2 * s - 1) \in Int
        BY <2>1, <2>3
      <3>3. QED BY <2>1, <2>2, <3>1, <3>2
    <2>6. p >= MaxLossPerTradePct => ~Allowed(R, Q, 2 * s + 2)
      <3>1. (100 * R) * (2 * s + 2) \in Int /\ 2 * (Grain * K) \in Int
        BY <2>1, <2>3
      <3>2. QED BY <1>3, <2>2, <3>1
    <2>7. QED BY <1>5, <2>3, <2>4, <2>5, <2>6 DEF s
  <1>8. QED BY <1>6, <1>7

\* In every reachable state, for all limits, the size tool suggests the largest
\* quantity that the risk tool passes, up to the digit it rounds to.
THEOREM SuggestionsAreTight == Spec => []SuggestionIsTight
  <1>1. TypeOK => SuggestionIsTight
    <2> SUFFICES ASSUME TypeOK, NEW r \in Requests, NEW a \in Accounts,
                        NEW p \in RiskPcts,
                        Judgeable(r), r.trigger # r.stopLoss, DrawdownOK(a)
                 PROVE  /\ WithinLimits(r, a, 2 * Suggested(r, a, p) - 1, 2 * Grain)
                        /\ p >= MaxLossPerTradePct =>
                             ~WithinLimits(r, a, 2 * Suggested(r, a, p) + 2, 2 * Grain)
      BY Zenon DEF SuggestionIsTight
    <2>1. a.equity > 0
      <3>1. a.equity \in Int
        BY RiskConstants
      <3>2. ~(a.equity <= 0)
        BY DrawdownStopsRuin
      <3>3. QED BY <3>1, <3>2, SMT
    <2>2. QED BY <2>1, SuggestionBounds
  <1>2. QED BY <1>1, TypeCorrect, PTL
=============================================================================

------------------------- MODULE BacktestEngineProofs -------------------------
(***************************************************************************)
(* What a backtest holds is traded at the price of the bar, and sold or    *)
(* bought back in the end unless that cannot be paid for; a backtest runs  *)
(* the broker of PaperBroker and inherits its theorems; the tearsheet      *)
(* tells the recorded trades, and the broker holds what these come to but  *)
(* for the refused ones and the final close; for any number of bars, any   *)
(* prices, signals, costs and limits.                                      *)
(*                                                                         *)
(* The tearsheet is made by folds over lists.  A fold is unfolded once:    *)
(* that a function over the sets of positions satisfies its recursion is   *)
(* shown by induction up to the length of the list (UpTo), and then that   *)
(* the fold is what the elements come to one by one.                       *)
(***************************************************************************)
EXTENDS BacktestEngine, FiniteSetTheorems, SequenceTheorems, TLAPS

Ids == Broker!OrderIds

IsPosition(x) == x = [qty |-> x.qty, price |-> x.price, avg |-> x.avg]

\* The broker's tables are tables.
BooksOK == /\ position = [s \in {Symbol} |-> position[s]]
           /\ IsPosition(position[Symbol])
           /\ order = [id \in Ids |-> order[id]]
           /\ request = [id \in Ids |-> request[id]]
           /\ placed \in Nat

\* When an order is about to be placed, the broker knows the bar's price.
MarkedToBar == pc \in {"decide", "cover"} /\ Held => position[Symbol].price = bar

MarkInv == BooksOK /\ MarkedToBar

-----------------------------------------------------------------------------
\* Initially nothing is held.
LEMMA MarkInit == Init => MarkInv
BY DEF Init, Broker!Init, Broker!Flat, Broker!Zero, MarkInv, BooksOK, MarkedToBar,
       IsPosition, Ids

\* A reported price is the price of what is held, and fills nothing.
LEMMA UpdateStep ==
    ASSUME BooksOK, NEW p, Broker!UpdatePrice(Engine, Symbol, p)
    PROVE  /\ BooksOK'
           /\ order' = order
           /\ Held' => position'[Symbol].price = p
<1>1. /\ position' = IF Held THEN [position EXCEPT ![Symbol].price = p]
                             ELSE position
      /\ UNCHANGED <<order, request, placed>>
  BY DEF Broker!UpdatePrice, Broker!Held, Held, Shares
<1>2. CASE Held
  <2>. DEFINE new == [position[Symbol] EXCEPT !.price = p]
  <2>1. position' = [position EXCEPT ![Symbol] = new]
    BY <1>1, <1>2
  <2>2. new = [qty |-> position[Symbol].qty, price |-> p, avg |-> position[Symbol].avg]
    BY DEF BooksOK, IsPosition
  <2>3. IsPosition(new) /\ new.price = p
    BY <2>2 DEF IsPosition
  <2>. HIDE DEF new
  <2>4. position' = [s \in {Symbol} |-> position'[s]] /\ position'[Symbol] = new
    BY <2>1 DEF BooksOK
  <2>. QED
    BY <1>1, <2>3, <2>4 DEF BooksOK
<1>3. CASE ~Held
  BY <1>1, <1>3 DEF BooksOK, Held, Shares
<1>. QED
  BY <1>2, <1>3

\* A position after a fill is a position.
LEMMA NewPositionShape ==
    ASSUME NEW pos, NEW r, NEW f
    PROVE  IsPosition(Broker!NewPosition(pos, r, f))
<1>. DEFINE qty == pos.qty + Broker!SignedQty(r)
            avg == Broker!NewPosition(pos, r, f).avg
<1>1. CASE qty = 0
  BY <1>1 DEF Broker!NewPosition, Broker!Flat, IsPosition
<1>2. CASE qty # 0
  <2>1. PICK a : Broker!NewPosition(pos, r, f) = [qty |-> qty, price |-> f, avg |-> a]
    BY <1>2 DEF Broker!NewPosition
  <2>. QED
    BY <2>1 DEF IsPosition
<1>. QED
  BY <1>1, <1>2

\* An order is executed at once; that it fills is news of this order only, at
\* the reference price.
LEMMA PlaceStep ==
    ASSUME BooksOK, NEW r, r.symbol = Symbol, Broker!PlaceMarket(Engine, r)
    PROVE  /\ BooksOK'
           /\ \A id \in Ids : FilledNow(id) =>
                order'[id].fill \in
                  Broker!FillPrices(request'[id].side, Broker!KnownPrice(Symbol))
<1>. DEFINE new == placed + 1
            ref == Broker!KnownPrice(Symbol)
<1>1. /\ placed < MaxBars + 1 /\ placed' = new
      /\ request' = [request EXCEPT ![new] = r]
      /\ Broker!StartExecution(Engine, new, r, {})
  BY DEF Broker!PlaceMarket
<1>2. new \in Ids /\ new \in Nat
  BY <1>1, BacktestConstants DEF BooksOK, Ids, Broker!OrderIds
<1>3. Broker!Execute(new, r, ref)
  BY <1>1 DEF Broker!StartExecution, Broker!NeedsQuote
<1>. HIDE DEF new, ref
<1>4. request' = [id \in Ids |-> request'[id]] /\ request'[new] = r
  BY <1>1, <1>2 DEF BooksOK
<1>5. PICK f \in Broker!FillPrices(r.side, ref) :
        Broker!Reject(new, r) \/ Broker!Fill(new, r, f)
  BY <1>3 DEF Broker!Execute
<1>6. CASE Broker!Reject(new, r)
  <2>. DEFINE rec == [Broker!NoOrder EXCEPT !.status = "rejected",
                                            !.quantity = r.quantity]
  <2>1. rec.status = "rejected"
    BY DEF Broker!NoOrder
  <2>2. order' = [order EXCEPT ![new] = rec] /\ position' = position
    BY <1>6 DEF Broker!Reject
  <2>. HIDE DEF rec
  <2>3. order' = [id \in Ids |-> order'[id]]
        /\ \A id \in Ids : ~FilledNow(id)
    BY <1>2, <2>1, <2>2 DEF BooksOK, FilledNow, Broker!Filled
  <2>. QED
    BY <1>1, <1>2, <1>4, <2>2, <2>3 DEF BooksOK
<1>7. CASE Broker!Fill(new, r, f)
  <2>. DEFINE rec == [status |-> "filled", quantity |-> r.quantity,
                      limit |-> NoPrice, fill |-> f]
              pos == Broker!NewPosition(position[Symbol], r, f)
  <2>1. rec.fill = f
    OBVIOUS
  <2>2. order' = [order EXCEPT ![new] = rec] /\ position' = [position EXCEPT ![Symbol] = pos]
    BY <1>7 DEF Broker!Fill
  <2>3. IsPosition(pos)
    BY NewPositionShape
  <2>. HIDE DEF rec, pos
  <2>4. /\ order' = [id \in Ids |-> order'[id]] /\ order'[new] = rec
        /\ \A id \in Ids \ {new} : order'[id] = order[id]
    BY <1>2, <2>2 DEF BooksOK
  <2>5. position' = [s \in {Symbol} |-> position'[s]] /\ position'[Symbol] = pos
    BY <2>2 DEF BooksOK
  <2>6. ASSUME NEW id \in Ids, FilledNow(id)
        PROVE  order'[id].fill \in Broker!FillPrices(request'[id].side, ref)
    <3>1. id = new
      BY <2>4, <2>6 DEF FilledNow, Broker!Filled
    <3>. QED
      BY <1>4, <2>1, <2>4, <3>1
  <2>. QED
    BY <1>1, <1>2, <1>4, <2>3, <2>4, <2>5, <2>6 DEF BooksOK, ref
<1>. QED
  BY <1>5, <1>6, <1>7

\* An order of the right price fills at the price of the bar.
LEMMA FairStep ==
    ASSUME MarkInv, pc \in {"decide", "cover"}, NEW r, r.symbol = Symbol,
           Broker!PlaceMarket(Engine, r)
    PROVE  /\ BooksOK'
           /\ \A id \in Ids : Held /\ FilledNow(id) => FairFill(id)
<1>1. Held => Broker!KnownPrice(Symbol) = bar
  BY DEF MarkInv, MarkedToBar, Broker!KnownPrice, Broker!Held, Held, Shares
<1>. QED
  BY <1>1, PlaceStep DEF MarkInv, FairFill

\* Every step keeps the invariant, and fills what is held at the bar's price.
LEMMA MarkNext ==
    ASSUME MarkInv, [Next]_vars
    PROVE  /\ MarkInv'
           /\ \A id \in Ids : Held /\ FilledNow(id) => FairFill(id)
<1>1. ASSUME UNCHANGED broker, pc' \notin {"decide", "cover"} \/ UNCHANGED <<pc, bar>>
      PROVE  /\ MarkInv'
             /\ \A id \in Ids : Held /\ FilledNow(id) => FairFill(id)
  BY <1>1 DEF broker, MarkInv, BooksOK, MarkedToBar, Held, Shares, FilledNow, Broker!Filled
<1>2. CASE Fetch \/ NoTrade \/ LastBarDone \/ UNCHANGED vars
  BY <1>1, <1>2 DEF Fetch, NoTrade, LastBarDone, vars
<1>3. CASE NextBar
  <2>1. Broker!UpdatePrice(Engine, Symbol, bar')
    BY <1>3 DEF NextBar
  <2>. QED
    BY <2>1, UpdateStep DEF MarkInv, MarkedToBar, FilledNow, Broker!Filled
<1>4. CASE Trade
  <2>1. PICK r : r.symbol = Symbol /\ Broker!PlaceMarket(Engine, r)
    BY <1>4 DEF Trade, MarketOrder
  <2>2. pc = "decide" /\ pc' = "bar"
    BY <1>4 DEF Trade
  <2>. QED
    BY <2>1, <2>2, FairStep DEF MarkInv, MarkedToBar
<1>5. CASE Close
  <2>1. CASE Held
    <3>1. Broker!UpdatePrice(Engine, Symbol, bar) /\ bar' = bar
      BY <1>5, <2>1 DEF Close
    <3>. QED
      BY <3>1, UpdateStep DEF MarkInv, MarkedToBar, FilledNow, Broker!Filled
  <2>2. CASE ~Held
    BY <1>1, <1>5, <2>2 DEF Close
  <2>. QED
    BY <2>1, <2>2
<1>6. CASE Cover
  <2>1. PICK r : r.symbol = Symbol /\ Broker!PlaceMarket(Engine, r)
    BY <1>6 DEF Cover, MarketOrder
  <2>2. pc = "cover" /\ pc' = "done"
    BY <1>6 DEF Cover
  <2>. QED
    BY <2>1, <2>2, FairStep DEF MarkInv, MarkedToBar
<1>. QED
  BY <1>2, <1>3, <1>4, <1>5, <1>6 DEF Next

-----------------------------------------------------------------------------
\* An order for a symbol that is held is filled at the price of the bar it is
\* decided on, and the final close at the last price.
THEOREM HeldFillsFairly == Spec => HeldFillsAtBarPrice
<1>1. MarkInv /\ [Next]_vars =>
        [\A id \in Ids : Held /\ FilledNow(id) => FairFill(id)]_vars
  BY MarkNext
<1>2. MarkInv /\ [Next]_vars => MarkInv'
  BY MarkNext
<1>3. HeldFillsAtBarPrice <=>
        [][\A id \in Ids : Held /\ FilledNow(id) => FairFill(id)]_vars
  BY DEF HeldFillsAtBarPrice, Ids
<1>. QED
  BY <1>1, <1>2, <1>3, MarkInit, PTL DEF Spec
-----------------------------------------------------------------------------
(* The end of a backtest *)

AmountsOK == /\ cash \in Int /\ bar \in Nat
             /\ Shares \in Int /\ position[Symbol].price \in Nat

EndInv == AmountsOK /\ EndsFlatOrBroke

\* What the cover of a short costs at most.
Price == bar + HalfSpread + MaxSlippage

\* A product of natural numbers grows with its factors.
LEMMA ProductGrows ==
    ASSUME NEW a \in Nat, NEW b \in Nat, NEW c \in Nat, a <= b
    PROVE  a * c \in Nat /\ a * c <= b * c
<1>1. a * c \in Nat /\ (b - a) * c \in Nat
  OBVIOUS
<1>2. (b - a) * c = b * c - a * c
  OBVIOUS
<1>. QED
  BY <1>1, <1>2

\* A fill is at a natural price, and a purchase at no more than the reference
\* price with the spread and the largest slippage.
LEMMA FillPriceBounds ==
    ASSUME NEW side \in {"buy", "sell"}, NEW ref \in Nat,
           NEW f \in Broker!FillPrices(side, ref)
    PROVE  f \in Nat /\ (side = "buy" => f <= ref + HalfSpread + MaxSlippage)
BY BacktestConstants DEF Broker!FillPrices, Broker!Floor

\* What an order for q shares does: nothing but its rejection, when a purchase
\* cannot be paid for, or a fill.
LEMMA Effect ==
    ASSUME BooksOK, AmountsOK, NEW side \in {"buy", "sell"}, NEW q \in Nat,
           NEW stopLoss, Broker!PlaceMarket(Engine, MarketOrder(side, q, stopLoss))
    PROVE  \E f \in Broker!FillPrices(side, Broker!KnownPrice(Symbol)) :
             /\ f \in Nat
             /\ \/ /\ side = "buy" /\ cash - (100 + CommissionPct) * (f * q) < 0
                   /\ UNCHANGED <<cash, position>>
                \/ /\ cash' \in Int
                   /\ Shares' = IF side = "buy" THEN Shares + q ELSE Shares - q
                   /\ position'[Symbol].price \in Nat
<1>. DEFINE r == MarketOrder(side, q, stopLoss)
            ref == Broker!KnownPrice(Symbol)
            new == placed + 1
<1>0. r.symbol = Symbol /\ r.side = side /\ r.quantity = q
  BY DEF MarketOrder
<1>1. Broker!Execute(new, r, ref)
  BY <1>0 DEF Broker!PlaceMarket, Broker!StartExecution, Broker!NeedsQuote
<1>2. ref \in Nat
  BY BacktestConstants DEF AmountsOK, Broker!KnownPrice
<1>. HIDE DEF r, ref, new
<1>3. PICK f \in Broker!FillPrices(side, ref) :
        IF side = "buy" /\ cash + Broker!CashFlow(r, f) < 0
          THEN Broker!Reject(new, r) ELSE Broker!Fill(new, r, f)
  BY <1>0, <1>1 DEF Broker!Execute
<1>4. f \in Nat
  BY <1>2, <1>3, FillPriceBounds
<1>5. f * q \in Nat /\ CommissionPct * (f * q) \in Int
  BY <1>4, BacktestConstants
<1>6. Broker!CashFlow(r, f) =
        IF side = "buy" THEN -(100 * (f * q) + CommissionPct * (f * q))
                        ELSE 100 * (f * q) - CommissionPct * (f * q)
  BY <1>0 DEF Broker!CashFlow, Broker!OrderValue, Broker!Commission
<1>7. (100 + CommissionPct) * (f * q) = 100 * (f * q) + CommissionPct * (f * q)
  BY <1>5, BacktestConstants
<1>8. CASE side = "buy" /\ cash + Broker!CashFlow(r, f) < 0
  <2>1. UNCHANGED <<cash, position>>
    BY <1>3, <1>8 DEF Broker!Reject
  <2>2. cash - (100 + CommissionPct) * (f * q) < 0
    BY <1>5, <1>6, <1>7, <1>8 DEF AmountsOK
  <2>. QED
    BY <1>3, <1>4, <1>8, <2>1, <2>2 DEF ref
<1>9. CASE ~(side = "buy" /\ cash + Broker!CashFlow(r, f) < 0)
  <2>. DEFINE pos == Broker!NewPosition(position[Symbol], r, f)
  <2>1. Broker!Fill(new, r, f)
    BY <1>3, <1>9
  <2>2. cash' \in Int
    <3>1. cash' = cash + Broker!CashFlow(r, f)
      BY <2>1 DEF Broker!Fill
    <3>. QED
      BY <1>5, <1>6, <3>1 DEF AmountsOK
  <2>3. position' = [position EXCEPT ![Symbol] = pos]
    BY <1>0, <2>1 DEF Broker!Fill
  <2>4. pos.qty = (IF side = "buy" THEN Shares + q ELSE Shares - q) /\ pos.price \in Nat
    <3>1. Broker!SignedQty(r) = IF side = "buy" THEN q ELSE -q
      BY <1>0 DEF Broker!SignedQty
    <3>. QED
      BY <1>4, <3>1 DEF Broker!NewPosition, Broker!Flat, AmountsOK, Shares
  <2>. HIDE DEF pos
  <2>5. position'[Symbol] = pos
    BY <2>3 DEF BooksOK
  <2>. QED
    BY <1>3, <1>4, <2>2, <2>4, <2>5 DEF Shares, ref
<1>. QED
  BY <1>8, <1>9

\* The final order closes the position, or cannot be paid for.
LEMMA CoverStep ==
    ASSUME MarkInv, AmountsOK, Cover
    PROVE  EndInv'
<1>0. pc = "cover" /\ pc' = "done" /\ bar' = bar
  BY DEF Cover
<1>1. Held => Broker!KnownPrice(Symbol) = bar
  BY <1>0 DEF MarkInv, MarkedToBar, Broker!KnownPrice, Broker!Held, Held, Shares
<1>2. CASE Shares > 0
  <2>1. Broker!PlaceMarket(Engine, MarketOrder("sell", Shares, NoPrice))
    BY <1>2 DEF Cover
  <2>2. Shares \in Nat
    BY <1>2 DEF AmountsOK
  <2>3. cash' \in Int /\ Shares' = Shares - Shares /\ position'[Symbol].price \in Nat
    BY <2>1, <2>2, Effect DEF MarkInv
  <2>. QED
    BY <1>0, <2>2, <2>3 DEF EndInv, AmountsOK, EndsFlatOrBroke, Held
<1>3. CASE ~(Shares > 0)
  <2>. DEFINE q == -Shares
  <2>1. Broker!PlaceMarket(Engine, MarketOrder("buy", q, NoPrice))
    BY <1>3 DEF Cover
  <2>2. q \in Nat /\ Shares + q = 0 /\ Shares = -q
    BY <1>3 DEF AmountsOK
  <2>. HIDE DEF q
  <2>3. PICK f \in Broker!FillPrices("buy", Broker!KnownPrice(Symbol)) :
          /\ f \in Nat
          /\ \/ /\ cash - (100 + CommissionPct) * (f * q) < 0
                /\ UNCHANGED <<cash, position>>
             \/ /\ cash' \in Int /\ Shares' = Shares + q
                /\ position'[Symbol].price \in Nat
    BY <2>1, <2>2, Effect DEF MarkInv
  <2>4. CASE cash' \in Int /\ Shares' = Shares + q /\ position'[Symbol].price \in Nat
    BY <1>0, <2>2, <2>4 DEF EndInv, AmountsOK, EndsFlatOrBroke, Held
  <2>5. CASE /\ cash - (100 + CommissionPct) * (f * q) < 0
             /\ UNCHANGED <<cash, position>>
    <3>1. ASSUME Held
          PROVE  Shares < 0 /\ cash < (100 + CommissionPct) * q * Price
      <4>1. f <= Price /\ Price \in Nat
        BY <1>1, <2>3, <3>1, FillPriceBounds, BacktestConstants DEF AmountsOK, Price
      <4>2. f * q \in Nat /\ f * q <= Price * q /\ Price * q \in Nat
        BY <2>2, <2>3, <4>1, ProductGrows
      <4>3. 100 + CommissionPct \in Nat
        BY BacktestConstants
      <4>4. (f * q) * (100 + CommissionPct) <= (Price * q) * (100 + CommissionPct)
        BY <4>2, <4>3, ProductGrows
      <4>5. /\ (f * q) * (100 + CommissionPct) = (100 + CommissionPct) * (f * q)
            /\ (Price * q) * (100 + CommissionPct) = (100 + CommissionPct) * q * Price
            /\ (100 + CommissionPct) * (f * q) \in Int
            /\ (100 + CommissionPct) * q * Price \in Int
        BY <2>2, <2>3, <4>1, <4>3
      <4>6. Shares < 0
        BY <1>3, <3>1 DEF AmountsOK, Held
      <4>. QED
        BY <2>5, <4>4, <4>5, <4>6 DEF AmountsOK
    <3>2. AmountsOK' /\ Shares' = Shares
      BY <1>0, <2>5 DEF AmountsOK, Shares
    <3>. QED
      BY <1>0, <2>2, <2>5, <3>1, <3>2 DEF EndInv, EndsFlatOrBroke, Held, Price
  <2>. QED
    BY <2>3, <2>4, <2>5
<1>. QED
  BY <1>2, <1>3

\* Every step keeps the amounts, and a backtest ends flat or broke.
LEMMA EndNext ==
    ASSUME MarkInv, EndInv, [Next]_vars
    PROVE  EndInv'
<1>0. pc' # "done" => EndsFlatOrBroke'
  BY DEF EndsFlatOrBroke
<1>1. CASE Fetch
  <2>1. pc' # "done" /\ bar' \in Nat
    BY <1>1, BacktestConstants DEF Fetch
  <2>. QED
    BY <1>0, <1>1, <2>1 DEF Fetch, broker, EndInv, AmountsOK, Shares
<1>2. CASE NoTrade \/ LastBarDone
  BY <1>0, <1>2 DEF NoTrade, LastBarDone, broker, EndInv, AmountsOK, Shares
<1>3. ASSUME NEW p \in Nat, Broker!UpdatePrice(Engine, Symbol, p), bar' \in Nat
      PROVE  AmountsOK'
  <2>1. cash' = cash /\ position' = IF Held THEN [position EXCEPT ![Symbol].price = p]
                                            ELSE position
    BY <1>3 DEF Broker!UpdatePrice, Broker!Held, Held, Shares
  <2>2. CASE ~Held
    BY <1>3, <2>1, <2>2 DEF EndInv, AmountsOK, Shares
  <2>3. CASE Held
    <3>. DEFINE new == [position[Symbol] EXCEPT !.price = p]
    <3>1. new.price = p /\ new.qty = Shares
      BY DEF MarkInv, BooksOK, IsPosition, Shares
    <3>2. position' = [position EXCEPT ![Symbol] = new]
      BY <2>1, <2>3
    <3>. HIDE DEF new
    <3>3. position'[Symbol] = new
      BY <3>2 DEF MarkInv, BooksOK
    <3>. QED
      BY <1>3, <2>1, <3>1, <3>3 DEF EndInv, AmountsOK, Shares
  <2>. QED
    BY <2>2, <2>3
<1>4. CASE NextBar
  <2>1. bar' \in Nat /\ Broker!UpdatePrice(Engine, Symbol, bar') /\ pc' # "done"
    BY <1>4, BacktestConstants DEF NextBar
  <2>. QED
    BY <1>0, <1>3, <2>1 DEF EndInv
<1>5. CASE Trade
  <2>1. PICK side \in {"buy", "sell"} : \E stopLoss \in StopLosses(side) :
          Broker!PlaceMarket(Engine, MarketOrder(side, 1, stopLoss))
    BY <1>5 DEF Trade
  <2>2. pc' # "done" /\ bar' = bar
    BY <1>5 DEF Trade
  <2>3. \/ UNCHANGED <<cash, position>>
        \/ /\ cash' \in Int /\ position'[Symbol].price \in Nat
           /\ Shares' = IF side = "buy" THEN Shares + 1 ELSE Shares - 1
    BY <2>1, Effect DEF MarkInv, EndInv
  <2>. QED
    BY <1>0, <2>2, <2>3 DEF EndInv, AmountsOK, Shares
<1>6. CASE Close
  <2>1. CASE Held
    BY <1>0, <1>3, <1>6, <2>1 DEF Close, EndInv, AmountsOK
  <2>2. CASE ~Held
    BY <1>6, <2>2 DEF Close, broker, EndInv, AmountsOK, EndsFlatOrBroke, Held, Shares
  <2>. QED
    BY <2>1, <2>2
<1>7. CASE Cover
  BY <1>7, CoverStep DEF EndInv
<1>8. CASE UNCHANGED vars
  BY <1>8 DEF vars, broker, EndInv, AmountsOK, EndsFlatOrBroke, Held, Shares
<1>. QED
  BY <1>1, <1>2, <1>4, <1>5, <1>6, <1>7, <1>8 DEF Next

\* A finished backtest holds no position, unless a short whose cover cannot be
\* paid for.
THEOREM EndsClosed == Spec => []EndsFlatOrBroke
<1>1. Init => EndInv
  BY BacktestConstants
  DEF Init, Broker!Init, Broker!Flat, Broker!Zero, EndInv, AmountsOK, EndsFlatOrBroke, Shares
<1>2. MarkInv /\ EndInv /\ [Next]_vars => EndInv' /\ MarkInv'
  BY EndNext, MarkNext
<1>3. EndInv => EndsFlatOrBroke
  BY DEF EndInv
<1>. QED
  BY <1>1, <1>2, <1>3, MarkInit, PTL DEF Spec

-----------------------------------------------------------------------------
(* The broker of a backtest *)

\* The broker whose callers may submit any order, with its theorems.
Books == INSTANCE PaperBrokerProofs
           WITH Symbols <- {Symbol}, Tasks <- {Engine}, Requests <- Broker!Request,
                Updates <- {}, HasProvider <- FALSE, MaxOrders <- MaxBars + 1

\* The constants of the backtest are such as the broker's theorems assume.
LEMMA BooksConstants ==
    /\ MaxBars + 1 \in Nat
    /\ Broker!Request \subseteq Books!Request
    /\ {} \subseteq Books!Update
    /\ NoRequest \notin Broker!Request
    /\ Prices \subseteq Nat
    /\ Placeholder \in Nat
    /\ FALSE \in BOOLEAN
    /\ InitialCapital \in Nat
    /\ CommissionPct \in 0 .. 100
    /\ HalfSpread \in Nat
    /\ MaxSlippage \in Nat
BY BacktestConstants, RequestConstants
   DEF Broker!Request, Books!Request, Broker!Sides, Broker!Types, Books!Sides, Books!Types

\* The backtest starts with the broker's initial state.
LEMMA BooksInit == Init => Books!Init
BY DEF Init, Broker!Init, Books!Init, Broker!Flat, Books!Flat, Broker!Zero, Books!Zero,
       Broker!NoOrder, Books!NoOrder, Broker!Idle, Books!Idle, Broker!OrderIds,
       Books!OrderIds

\* Control states, ids and what is held are the same in both.
LEMMA SameTables ==
    /\ Broker!Idle = Books!Idle /\ Broker!OrderIds = Books!OrderIds
    /\ \A x : Broker!Looping(x) = Books!Looping(x)
    /\ \A r : Broker!ValidOrder(r) = Books!ValidOrder(r)
    /\ \A s : Broker!Held(s) = Books!Held(s)
BY DEF Broker!Idle, Books!Idle, Broker!OrderIds, Books!OrderIds, Broker!Looping,
       Books!Looping, Broker!ValidOrder, Books!ValidOrder, Broker!Held, Books!Held

\* _execute_market_order does the same in both.
LEMMA SameExecute ==
    ASSUME NEW id, NEW r, NEW p, Broker!Execute(id, r, p)
    PROVE  Books!Execute(id, r, p)
BY DEF Broker!Execute, Books!Execute, Broker!FillPrices, Books!FillPrices, Broker!Floor,
       Books!Floor, Broker!Reject, Books!Reject, Broker!Fill, Books!Fill, Broker!CashFlow,
       Books!CashFlow, Broker!OrderValue, Books!OrderValue, Broker!Commission,
       Books!Commission, Broker!NoOrder, Books!NoOrder, Broker!NewPosition,
       Books!NewPosition, Broker!SignedQty, Books!SignedQty, Broker!Flat, Books!Flat,
       Broker!Zero, Books!Zero

\* An order of the backtest is one that the broker may be given.
LEMMA PlaceIsAllowed ==
    ASSUME NEW r \in Broker!Request, Broker!PlaceMarket(Engine, r)
    PROVE  Books!Next
<1>1. Broker!LoopFree = Books!LoopFree
  BY DEF Broker!LoopFree, Books!LoopFree
<1>2. ASSUME NEW id, Broker!StartExecution(Engine, id, r, {})
      PROVE  Books!StartExecution(Engine, id, r, {})
  <2>1. /\ Broker!Execute(id, r, Broker!KnownPrice(r.symbol))
        /\ task' = [task EXCEPT ![Engine] = Broker!Looping({})]
    BY <1>2 DEF Broker!StartExecution, Broker!NeedsQuote
  <2>2. Broker!KnownPrice(r.symbol) = Books!KnownPrice(r.symbol)
    BY SameTables DEF Broker!KnownPrice, Books!KnownPrice
  <2>. QED
    BY <2>1, <2>2, SameTables, SameExecute DEF Books!StartExecution, Books!NeedsQuote
<1>3. Books!PlaceMarket(Engine, r)
  BY <1>1, <1>2, SameTables DEF Broker!PlaceMarket, Books!PlaceMarket
<1>. QED
  BY <1>3 DEF Books!Next, Books!Place

\* A reported price is one that the broker may be told.
LEMMA UpdateIsAllowed ==
    ASSUME NEW p \in Prices, Broker!UpdatePrice(Engine, Symbol, p)
    PROVE  Books!Next
<1>1. Broker!LoopFree = Books!LoopFree
  BY DEF Broker!LoopFree, Books!LoopFree
<1>2. \A r : Broker!Triggered(r, p) = Books!Triggered(r, p)
  BY DEF Broker!Triggered, Books!Triggered
<1>3. Books!UpdatePrice(Engine, Symbol, p)
  BY <1>1, <1>2, SameTables DEF Broker!UpdatePrice, Books!UpdatePrice
<1>. QED
  BY <1>3 DEF Books!Next, Books!Feed

\* Once the data are there, the bar is one of them.
BarIsKnown == pc = "fetch" \/ bar \in Prices

\* What a backtest does to its account, the broker does.
LEMMA BooksNext ==
    ASSUME EndInv, BarIsKnown, [Next]_vars
    PROVE  BarIsKnown' /\ [Books!Next]_(Books!vars)
<1>1. CASE UNCHANGED vars
  BY <1>1 DEF vars, broker, Books!vars, BarIsKnown
<1>2. CASE Fetch
  BY <1>2 DEF Fetch, broker, Books!vars, BarIsKnown
<1>3. CASE NextBar
  BY <1>3, UpdateIsAllowed DEF NextBar, BarIsKnown
<1>4. CASE NoTrade \/ LastBarDone
  BY <1>4 DEF NoTrade, LastBarDone, broker, Books!vars, BarIsKnown
<1>5. CASE Trade
  <2>1. PICK side \in {"buy", "sell"} : \E stopLoss \in StopLosses(side) :
          Broker!PlaceMarket(Engine, MarketOrder(side, 1, stopLoss))
    BY <1>5 DEF Trade
  <2>2. PICK stopLoss \in StopLosses(side) :
          Broker!PlaceMarket(Engine, MarketOrder(side, 1, stopLoss))
    BY <2>1
  <2>3. stopLoss \in Nat
    <3>1. bar \in Nat
      BY DEF EndInv, AmountsOK
    <3>2. /\ bar - bar \div 10 \in Nat /\ bar + bar \div 10 \in Nat
          /\ bar - bar \div 20 \in Nat /\ bar + bar \div 20 \in Nat
      BY <3>1
    <3>. QED
      BY <3>2 DEF StopLosses
  <2>4. MarketOrder(side, 1, stopLoss) \in Broker!Request
    BY <2>3 DEF MarketOrder, Broker!Request, Broker!Sides, Broker!Types
  <2>5. Books!Next
    BY <2>2, <2>4, PlaceIsAllowed
  <2>. QED
    BY <1>5, <2>5 DEF Trade, BarIsKnown
<1>6. CASE Close
  <2>1. pc # "fetch" /\ pc' # "fetch" /\ bar' = bar
    BY <1>6 DEF Close
  <2>2. CASE Held
    BY <1>6, <2>1, <2>2, UpdateIsAllowed DEF Close, BarIsKnown
  <2>3. CASE ~Held
    BY <1>6, <2>1, <2>3 DEF Close, broker, Books!vars, BarIsKnown
  <2>. QED
    BY <2>2, <2>3
<1>7. CASE Cover
  <2>1. Shares \in Int /\ -Shares \in Int
    BY DEF EndInv, AmountsOK
  <2>2. PICK r : /\ Broker!PlaceMarket(Engine, r)
                 /\ \/ r = MarketOrder("sell", Shares, NoPrice)
                    \/ r = MarketOrder("buy", -Shares, NoPrice)
    BY <1>7 DEF Cover
  <2>3. r \in Broker!Request
    BY <2>1, <2>2 DEF MarketOrder, Broker!Request, Broker!Sides, Broker!Types
  <2>4. Books!Next
    BY <2>2, <2>3, PlaceIsAllowed
  <2>. QED
    BY <1>7, <2>4 DEF Cover, BarIsKnown
<1>. QED
  BY <1>1, <1>2, <1>3, <1>4, <1>5, <1>6, <1>7 DEF Next

\* A backtest runs the broker of PaperBroker: whatever it does to the account is
\* a behaviour of that.
THEOREM BacktestRunsTheBroker == Spec => Books!Spec
<1>1. Init => EndInv /\ BarIsKnown
  <2>1. Init => EndInv
    BY BacktestConstants
    DEF Init, Broker!Init, Broker!Flat, Broker!Zero, EndInv, AmountsOK, EndsFlatOrBroke, Shares
  <2>. QED
    BY <2>1 DEF Init, BarIsKnown
<1>2. MarkInv /\ EndInv /\ BarIsKnown /\ [Next]_vars
        => EndInv' /\ BarIsKnown' /\ [Books!Next]_(Books!vars)
  BY EndNext, BooksNext
<1>3. MarkInv /\ [Next]_vars => MarkInv'
  BY MarkNext
<1>. QED
  BY <1>1, <1>2, <1>3, MarkInit, BooksInit, PTL DEF Spec, Books!Spec

\* Hence a backtest never overdraws its account, and cash, positions and reports
\* are what the records of its orders add up to.
THEOREM BacktestKeepsItsBooks ==
    Spec => [](/\ Books!CashNeverNegative
               /\ Books!CashReconciles
               /\ Books!PositionsReconcile
               /\ Books!ReportsAddUp)
<1>1. Books!Spec => []Books!CashNeverNegative
  BY BooksConstants, Books!NeverOverdrawn
<1>2. Books!Spec => []Books!CashReconciles
  BY BooksConstants, Books!CashIsAccountedFor
<1>3. Books!Spec => []Books!PositionsReconcile
  BY BooksConstants, Books!PositionsAreAccountedFor
<1>4. Books!Spec => []Books!ReportsAddUp
  BY BooksConstants, Books!ReportsAgree
<1>. QED
  BY <1>1, <1>2, <1>3, <1>4, BacktestRunsTheBroker, PTL

\* The final equity that a backtest reports when it has closed its position is
\* the initial capital and what the filled orders have brought in.
THEOREM FinalEquityIsEarned ==
    Spec => [](pc = "done" /\ ~Held =>
                 Result.finalEquity =
                   Result.initialCapital + Books!SumFunction(Books!CashFlows))
<1>1. EndInv /\ Books!CashReconciles /\ ~Held =>
        Result.finalEquity = Result.initialCapital + Books!SumFunction(Books!CashFlows)
  <2>. SUFFICES ASSUME EndInv, Books!CashReconciles, ~Held
                PROVE  Result.finalEquity =
                         Result.initialCapital + Books!SumFunction(Books!CashFlows)
    OBVIOUS
  <2>1. Shares = 0 /\ position[Symbol].price \in Nat /\ cash \in Int
    BY DEF EndInv, AmountsOK, Held
  <2>2. Account.equity = cash
    BY <2>1 DEF Account
  <2>. QED
    BY <2>2 DEF Books!CashReconciles, Result
<1>2. Init => EndInv
  BY BacktestConstants
  DEF Init, Broker!Init, Broker!Flat, Broker!Zero, EndInv, AmountsOK, EndsFlatOrBroke, Shares
<1>3. MarkInv /\ EndInv /\ [Next]_vars => MarkInv' /\ EndInv'
  BY MarkNext, EndNext
<1>. QED
  BY <1>1, <1>2, <1>3, MarkInit, BacktestKeepsItsBooks, PTL DEF Spec

-----------------------------------------------------------------------------
(* Folds over a list *)

\* Induction up to n.
LEMMA UpTo ==
    ASSUME NEW n \in Nat, NEW G, 0 \in G,
           \A i \in 1 .. n : i - 1 \in G => i \in G
    PROVE  0 .. n \subseteq G
<1>. DEFINE S == 1 .. n
            T == {t \in SUBSET S : \A i \in 0 .. n : t = 1 .. i => i \in G}
<1>1. ASSUME NEW t \in SUBSET S, \A u \in SUBSET t : u # t => u \in T
      PROVE  t \in T
  <2>1. ASSUME NEW i \in 0 .. n, t = 1 .. i PROVE i \in G
    <3>1. CASE i = 0
      BY <3>1
    <3>2. CASE i # 0
      <4>1. i \in 1 .. n /\ i - 1 \in 0 .. n
        BY <3>2
      <4>. DEFINE u == 1 .. (i - 1)
      <4>2. u \in SUBSET t /\ i \in t /\ i \notin u
        BY <2>1, <4>1
      <4>3. u \in T
        BY <1>1, <4>2
      <4>. QED
        BY <4>1, <4>3
    <3>. QED
      BY <3>1, <3>2
  <2>. QED
    BY <2>1
<1>2. SUBSET S \subseteq T
  <2>1. IsFiniteSet(S)
    BY FS_Interval
  <2>2. Books!IsFiniteSet(S)
    BY <2>1 DEF IsFiniteSet, Books!IsFiniteSet
  <2>3. \A t \in SUBSET S : (\A u \in SUBSET t : u # t => u \in T) => t \in T
    BY <1>1
  <2>. HIDE DEF S, T
  <2>. QED
    BY <2>2, <2>3, BooksConstants, Books!SetInduction, Zenon
<1>3. ASSUME NEW i \in 0 .. n PROVE i \in G
  <2>1. 1 .. i \in SUBSET S
    OBVIOUS
  <2>. QED
    BY <1>2, <2>1
<1>. QED
  BY <1>3

\* The largest of some numbers up to n.
LEMMA MaxOfSome ==
    ASSUME NEW n \in Nat, NEW S, S \subseteq 1 .. n
    PROVE  /\ S # {} => Max(S) \in S
           /\ n \in S => Max(S) = n
<1>1. ASSUME NEW x \in S, \A y \in S : y <= x
      PROVE  Max(S) = x
  <2>1. \A y \in S : (\A z \in S : y >= z) => y = x
    BY <1>1
  <2>2. \A y \in S : x >= y
    BY <1>1
  <2>. QED
    BY <1>1, <2>1, <2>2 DEF Max
<1>2. n \in S => Max(S) = n
  BY <1>1
<1>3. ASSUME S # {}, \A x \in S : \E y \in S : ~(y <= x)
      PROVE  FALSE
  <2>. DEFINE G == {k \in 0 .. n : \A y \in S : y <= n - k}
  <2>1. 0 \in G
    OBVIOUS
  <2>2. ASSUME NEW i \in 1 .. n, i - 1 \in G
        PROVE  i \in G
    <3>1. \A y \in S : y <= n - i + 1 /\ y \in Int
      BY <2>2
    <3>2. n - i + 1 \notin S
      <4>1. ASSUME n - i + 1 \in S PROVE FALSE
        <5>1. PICK y \in S : ~(y <= n - i + 1)
          BY <1>3, <4>1
        <5>. QED
          BY <3>1, <5>1
      <4>. QED
        BY <4>1
    <3>3. ASSUME NEW y \in S PROVE y <= n - i
      <4>1. y # n - i + 1
        BY <3>2
      <4>. QED
        BY <3>1, <4>1
    <3>. QED
      BY <3>3
  <2>3. n \in G
    <3>1. 0 .. n \subseteq G
      <4>. HIDE DEF G
      <4>. QED
        BY <2>1, <2>2, UpTo
    <3>. QED
      BY <3>1
  <2>4. PICK y \in S : TRUE
    BY <1>3
  <2>. QED
    BY <2>3, <2>4
<1>. QED
  BY <1>1, <1>2, <1>3

\* The matching of the first n trades, of those in each part of them.
Matches(g, n, trades) ==
    g = [t \in SUBSET (1 .. n) |->
           IF t = {} THEN NoTrips ELSE MatchTrade(g[t \ {Max(t)}], trades[Max(t)])]

\* There is such a matching.
LEMMA MatchingExists ==
    ASSUME NEW n \in Nat, NEW trades
    PROVE  \E g : Matches(g, n, trades)
<1>. DEFINE G == {k \in 0 .. n : \E g : Matches(g, k, trades)}
<1>1. 0 \in G
  <2>1. SUBSET (1 .. 0) = {{}}
    OBVIOUS
  <2>2. Matches([t \in SUBSET (1 .. 0) |-> NoTrips], 0, trades)
    BY <2>1 DEF Matches
  <2>. QED
    BY <2>2
<1>2. ASSUME NEW k \in 1 .. n, k - 1 \in G
      PROVE  k \in G
  <2>1. PICK g : Matches(g, k - 1, trades)
    BY <1>2
  <2>. DEFINE S == SUBSET (1 .. k)
              h == [t \in S |-> IF k \in t THEN MatchTrade(g[t \ {k}], trades[k]) ELSE g[t]]
  <2>2. \A t \in S : k \notin t => t \in SUBSET (1 .. (k - 1))
    <3>1. \A i \in 1 .. k : i # k => i \in 1 .. (k - 1)
      OBVIOUS
    <3>. QED
      BY <3>1
  <2>3. ASSUME NEW t \in S
        PROVE  h[t] = IF t = {} THEN NoTrips
                      ELSE MatchTrade(h[t \ {Max(t)}], trades[Max(t)])
    <3>. DEFINE u == t \ {Max(t)}
    <3>1. CASE k \in t
      <4>1. Max(t) = k
        <5>1. k \in Nat /\ t \subseteq 1 .. k
          OBVIOUS
        <5>. QED
          BY <3>1, <5>1, MaxOfSome
      <4>2. h[t] = MatchTrade(g[u], trades[Max(t)])
        BY <3>1, <4>1
      <4>3. u \in S /\ k \notin u
        BY <4>1
      <4>4. h[u] = g[u]
        BY <4>3
      <4>. HIDE DEF h
      <4>. QED
        BY <3>1, <4>2, <4>4
    <3>2. CASE k \notin t
      <4>1. t \in SUBSET (1 .. (k - 1))
        BY <2>2, <3>2
      <4>2. g[t] = IF t = {} THEN NoTrips ELSE MatchTrade(g[u], trades[Max(t)])
        BY <2>1, <4>1 DEF Matches
      <4>3. u \in S /\ k \notin u
        BY <3>2
      <4>4. h[u] = g[u] /\ h[t] = g[t]
        BY <3>2, <4>3
      <4>. HIDE DEF h
      <4>. QED
        BY <4>2, <4>4
    <3>. QED
      BY <3>1, <3>2
  <2>4. Matches(h, k, trades)
    <3>1. h = [t \in S |-> h[t]]
      OBVIOUS
    <3>. HIDE DEF h
    <3>. QED
      BY <2>3, <3>1 DEF Matches
  <2>. QED
    BY <2>4
<1>3. n \in G
  <2>1. 0 .. n \subseteq G
    <3>. HIDE DEF G
    <3>. QED
      BY <1>1, <1>2, UpTo
  <2>. QED
    BY <2>1
<1>. QED
  BY <1>3

\* r records the round trips after each of the first n trades.
Matching(r, n, trades) ==
    /\ r[0] = NoTrips
    /\ \A k \in 1 .. n : r[k] = MatchTrade(r[k - 1], trades[k])

\* The round trips of a list are what its trades come to one by one.
LEMMA RoundTripsStepwise ==
    ASSUME NEW n \in Nat, NEW trades, DOMAIN trades = 1 .. n
    PROVE  \E r : Matching(r, n, trades) /\ RoundTrips(trades) = r[n]
<1>. DEFINE g == CHOOSE g : Matches(g, n, trades)
            r == [k \in 0 .. n |-> g[1 .. k]]
<1>1. RoundTrips(trades) = g[1 .. n]
  BY DEF RoundTrips, FoldLeft, MapThenFoldSet, Matches
<1>2. Matches(g, n, trades)
  BY MatchingExists
<1>. HIDE DEF g
<1>3. r[0] = NoTrips
  <2>1. 1 .. 0 = {}
    OBVIOUS
  <2>2. {} \in SUBSET (1 .. n)
    OBVIOUS
  <2>. QED
    BY <1>2, <2>1, <2>2 DEF Matches
<1>4. ASSUME NEW k \in 1 .. n
      PROVE  r[k] = MatchTrade(r[k - 1], trades[k])
  <2>. DEFINE t == 1 .. k
  <2>1. t \in SUBSET (1 .. n) /\ t # {} /\ k \in Nat
    OBVIOUS
  <2>2. Max(t) = k
    <3>1. k \in t
      OBVIOUS
    <3>. HIDE DEF t
    <3>. QED
      BY <2>1, <3>1, MaxOfSome DEF t
  <2>3. t \ {k} = 1 .. (k - 1)
    <3>1. \A i \in 1 .. k : i # k <=> i \in 1 .. (k - 1)
      OBVIOUS
    <3>2. 1 .. (k - 1) \subseteq 1 .. k
      OBVIOUS
    <3>. QED
      BY <3>1, <3>2
  <2>4. g[t] = MatchTrade(g[t \ {Max(t)}], trades[Max(t)])
    <3>. HIDE DEF t
    <3>. QED
      BY <1>2, <2>1 DEF Matches
  <2>5. r[k] = g[t] /\ r[k - 1] = g[1 .. (k - 1)]
    OBVIOUS
  <2>. HIDE DEF r, t
  <2>. QED
    BY <2>2, <2>3, <2>4, <2>5
<1>5. Matching(r, n, trades)
  BY <1>3, <1>4 DEF Matching
<1>. QED
  BY <1>1, <1>5

\* The next trade of a history is matched with the trips before it.
LEMMA RoundTripsAppend ==
    ASSUME NEW S, NEW h \in Seq(S), NEW t \in S
    PROVE  RoundTrips(Append(h, t)) = MatchTrade(RoundTrips(h), t)
<1>. DEFINE n == Len(h)
            a == Append(h, t)
<1>1. /\ n \in Nat /\ DOMAIN h = 1 .. n /\ DOMAIN a = 1 .. (n + 1)
      /\ a[n + 1] = t /\ \A k \in 1 .. n : a[k] = h[k]
  OBVIOUS
<1>. HIDE DEF a, n
<1>2. PICK r : Matching(r, n, h) /\ RoundTrips(h) = r[n]
  BY <1>1, RoundTripsStepwise
<1>3. PICK q : Matching(q, n + 1, a) /\ RoundTrips(a) = q[n + 1]
  BY <1>1, RoundTripsStepwise
<1>. DEFINE G == {k \in 0 .. n : q[k] = r[k]}
<1>4. 0 \in G
  BY <1>1, <1>2, <1>3 DEF Matching
<1>5. ASSUME NEW k \in 1 .. n, k - 1 \in G
      PROVE  k \in G
  <2>1. k \in 1 .. (n + 1) /\ a[k] = h[k] /\ q[k - 1] = r[k - 1]
    BY <1>1, <1>5
  <2>2. q[k] = MatchTrade(q[k - 1], a[k]) /\ r[k] = MatchTrade(r[k - 1], h[k])
    BY <1>2, <1>3, <2>1 DEF Matching
  <2>. QED
    BY <2>1, <2>2
<1>6. n \in G
  <2>1. 0 .. n \subseteq G
    <3>. HIDE DEF G
    <3>. QED
      BY <1>1, <1>4, <1>5, UpTo
  <2>. QED
    BY <1>1, <2>1
<1>7. q[n + 1] = MatchTrade(q[n], t)
  <2>1. n + 1 \in 1 .. (n + 1) /\ (n + 1) - 1 = n
    BY <1>1
  <2>. QED
    BY <1>1, <1>3, <2>1 DEF Matching
<1>. QED
  BY <1>2, <1>3, <1>6, <1>7 DEF a

-----------------------------------------------------------------------------
(* The sum of a list *)

\* The sum of the first k of a list.
FirstSum(s, k) == SumFunctionOnSet(s, 1 .. k)

\* It is computed one by one.
LEMMA FirstSums ==
    ASSUME NEW s \in Seq(Int)
    PROVE  /\ FirstSum(s, 0) = 0
           /\ \A k \in 0 .. Len(s) : FirstSum(s, k) \in Int
           /\ \A k \in 1 .. Len(s) : FirstSum(s, k) = FirstSum(s, k - 1) + s[k]
           /\ Total(s) = FirstSum(s, Len(s))
<1>1. ASSUME NEW k \in 0 .. Len(s)
      PROVE  /\ FirstSum(s, k) \in Int
             /\ 1 .. k = {} => FirstSum(s, k) = 0
             /\ \A x \in 1 .. k : FirstSum(s, k) = s[x] + SumFunctionOnSet(s, (1 .. k) \ {x})
  <2>. DEFINE S == 1 .. k
  <2>1. IsFiniteSet(S) /\ \A i \in S : s[i] \in Int
    BY FS_Interval
  <2>. HIDE DEF S
  <2>2. Books!IsFiniteSet(S)
    BY <2>1 DEF IsFiniteSet, Books!IsFiniteSet
  <2>3. \A T : SumFunctionOnSet(s, T) = Books!SumFunctionOnSet(s, T)
    BY DEF SumFunctionOnSet, FoldFunctionOnSet, MapThenFoldSet, Books!SumFunctionOnSet,
           Books!FoldFunctionOnSet, Books!MapThenFoldSet
  <2>4. Books!SumFunctionOnSet(s, S) \in Int
    BY <2>1, <2>2, BooksConstants, Books!SumType
  <2>5. S = {} => Books!SumFunctionOnSet(s, S) = 0
    BY <2>1, <2>2, BooksConstants, Books!SumStep
  <2>6. \A x \in S : Books!SumFunctionOnSet(s, S) = s[x] + Books!SumFunctionOnSet(s, S \ {x})
    BY <2>1, <2>2, BooksConstants, Books!SumRemove
  <2>. QED
    BY <2>3, <2>4, <2>5, <2>6 DEF FirstSum, S
<1>2. FirstSum(s, 0) = 0
  <2>1. 1 .. 0 = {} /\ 0 \in 0 .. Len(s)
    OBVIOUS
  <2>. QED
    BY <1>1, <2>1
<1>3. ASSUME NEW k \in 1 .. Len(s)
      PROVE  FirstSum(s, k) = FirstSum(s, k - 1) + s[k]
  <2>1. (1 .. k) \ {k} = 1 .. (k - 1)
    <3>1. \A i \in 1 .. k : i # k <=> i \in 1 .. (k - 1)
      OBVIOUS
    <3>2. 1 .. (k - 1) \subseteq 1 .. k
      OBVIOUS
    <3>. QED
      BY <3>1, <3>2
  <2>2. k \in 0 .. Len(s) /\ k - 1 \in 0 .. Len(s) /\ k \in 1 .. k /\ s[k] \in Int
    OBVIOUS
  <2>3. FirstSum(s, k) = s[k] + SumFunctionOnSet(s, (1 .. k) \ {k})
    BY <1>1, <2>2
  <2>4. FirstSum(s, k) = s[k] + FirstSum(s, k - 1) /\ FirstSum(s, k - 1) \in Int
    BY <1>1, <2>1, <2>2, <2>3 DEF FirstSum
  <2>. QED
    BY <2>2, <2>4
<1>4. Total(s) = FirstSum(s, Len(s))
  <2>1. DOMAIN s = 1 .. Len(s)
    OBVIOUS
  <2>. QED
    BY <2>1 DEF Total, SumFunction, FirstSum
<1>. QED
  BY <1>1, <1>2, <1>3, <1>4

\* One more element adds its value.
LEMMA TotalAppend ==
    ASSUME NEW s \in Seq(Int), NEW x \in Int
    PROVE  /\ Total(s) \in Int
           /\ Total(Append(s, x)) = Total(s) + x
<1>. DEFINE a == Append(s, x)
            n == Len(s)
<1>1. /\ n \in Nat /\ a \in Seq(Int) /\ Len(a) = n + 1 /\ a[n + 1] = x
      /\ \A k \in 1 .. n : a[k] = s[k]
  OBVIOUS
<1>. HIDE DEF a
<1>2. /\ FirstSum(s, 0) = 0 /\ Total(s) = FirstSum(s, n)
      /\ \A k \in 0 .. n : FirstSum(s, k) \in Int
      /\ \A k \in 1 .. n : FirstSum(s, k) = FirstSum(s, k - 1) + s[k]
  BY FirstSums
<1>3. /\ FirstSum(a, 0) = 0 /\ Total(a) = FirstSum(a, n + 1)
      /\ \A k \in 1 .. (n + 1) : FirstSum(a, k) = FirstSum(a, k - 1) + a[k]
  BY <1>1, FirstSums
<1>. HIDE DEF n
<1>. DEFINE G == {k \in 0 .. n : FirstSum(a, k) = FirstSum(s, k)}
<1>4. 0 \in G
  BY <1>1, <1>2, <1>3
<1>5. ASSUME NEW k \in 1 .. n, k - 1 \in G
      PROVE  k \in G
  <2>1. k \in 1 .. (n + 1) /\ a[k] = s[k] /\ FirstSum(a, k - 1) = FirstSum(s, k - 1)
    BY <1>1, <1>5
  <2>2. FirstSum(a, k) = FirstSum(a, k - 1) + a[k]
    BY <1>3, <2>1
  <2>3. FirstSum(s, k) = FirstSum(s, k - 1) + s[k]
    BY <1>2
  <2>. QED
    BY <2>1, <2>2, <2>3
<1>6. n \in G
  <2>1. 0 .. n \subseteq G
    <3>. HIDE DEF G
    <3>. QED
      BY <1>1, <1>4, <1>5, UpTo
  <2>. QED
    BY <1>1, <2>1
<1>7. FirstSum(a, n + 1) = FirstSum(a, n) + x
  <2>1. n + 1 \in 1 .. (n + 1) /\ (n + 1) - 1 = n
    BY <1>1
  <2>. QED
    BY <1>1, <1>3, <2>1
<1>8. FirstSum(s, n) \in Int
  BY <1>1, <1>2
<1>. QED
  BY <1>2, <1>3, <1>6, <1>7, <1>8 DEF a

\* The total of nothing.
LEMMA TotalOfNothing == Total(<<>>) = 0
<1>1. <<>> \in Seq(Int) /\ Len(<<>>) = 0
  OBVIOUS
<1>. QED
  BY <1>1, FirstSums

-----------------------------------------------------------------------------
(* What is recorded *)

Gains == Nat \ {0}
Falls == {x \in Int : x <= 0}

Trades == [action : {"buy", "sell"}, price : Nat]

Trips == [side : {"none", "long", "short"}, entry : Nat,
          profits : Seq(Gains), losses : Seq(Falls)]

HistoryOK == history \in Seq(Trades) /\ RoundTrips(history) \in Trips

\* A completed trip is a gain or a fall.
LEMMA BookedTrip ==
    ASSUME NEW m \in Trips, NEW pnl \in Int, NEW b, b = Booked(m, pnl)
    PROVE  /\ b \in Trips /\ b.side = "none" /\ b.entry = m.entry
           /\ Total(b.profits) + Total(b.losses)
                = Total(m.profits) + Total(m.losses) + pnl
           /\ Len(b.profits) + Len(b.losses) = Len(m.profits) + Len(m.losses) + 1
           /\ Total(m.profits) \in Int /\ Total(m.losses) \in Int
<1>1. /\ m.profits \in Seq(Gains) /\ m.losses \in Seq(Falls) /\ m.entry \in Nat
      /\ m = [side |-> m.side, entry |-> m.entry,
              profits |-> m.profits, losses |-> m.losses]
  BY DEF Trips
<1>2. Gains \subseteq Int /\ Falls \subseteq Int
  BY DEF Gains, Falls
<1>3. m.profits \in Seq(Int) /\ m.losses \in Seq(Int)
  BY <1>1, <1>2, SeqMonotonic
<1>4. /\ Total(m.profits) \in Int /\ Total(m.losses) \in Int
      /\ Total(Append(m.profits, pnl)) = Total(m.profits) + pnl
      /\ Total(Append(m.losses, pnl)) = Total(m.losses) + pnl
  BY <1>3, TotalAppend
<1>5. /\ Len(Append(m.profits, pnl)) = Len(m.profits) + 1
      /\ Len(Append(m.losses, pnl)) = Len(m.losses) + 1
      /\ Len(m.profits) \in Nat /\ Len(m.losses) \in Nat
  BY <1>3
<1>6. CASE pnl > 0
  <2>. DEFINE r == [side |-> "none", entry |-> m.entry,
                    profits |-> Append(m.profits, pnl), losses |-> m.losses]
  <2>1. b = r
    BY <1>1, <1>6 DEF Booked
  <2>2. pnl \in Gains
    BY <1>6 DEF Gains
  <2>3. Append(m.profits, pnl) \in Seq(Gains)
    BY <1>1, <2>2
  <2>4. b \in Trips
    BY <1>1, <2>1, <2>3 DEF Trips
  <2>5. /\ b.side = "none" /\ b.entry = m.entry
        /\ b.profits = Append(m.profits, pnl) /\ b.losses = m.losses
    BY <2>1
  <2>. HIDE DEF r
  <2>6. Total(b.profits) + Total(b.losses) = Total(m.profits) + Total(m.losses) + pnl
    BY <1>4, <2>5
  <2>7. Len(b.profits) + Len(b.losses) = Len(m.profits) + Len(m.losses) + 1
    <3>. DEFINE x == Len(b.profits)
                y == Len(b.losses)
                p == Len(m.profits)
                l == Len(m.losses)
    <3>1. x = p + 1 /\ y = l /\ p \in Nat /\ l \in Nat
      BY <1>5, <2>5, Zenon
    <3>. HIDE DEF x, y, p, l
    <3>2. x + y = p + l + 1
      BY <3>1
    <3>. QED
      BY <3>2 DEF x, y, p, l
  <2>. QED
    BY <1>4, <2>4, <2>5, <2>6, <2>7
<1>7. CASE ~(pnl > 0)
  <2>. DEFINE r == [side |-> "none", entry |-> m.entry,
                    profits |-> m.profits, losses |-> Append(m.losses, pnl)]
  <2>1. b = r
    BY <1>1, <1>7 DEF Booked
  <2>2. pnl \in Falls
    BY <1>7 DEF Falls
  <2>3. Append(m.losses, pnl) \in Seq(Falls)
    BY <1>1, <2>2
  <2>4. b \in Trips
    BY <1>1, <2>1, <2>3 DEF Trips
  <2>5. /\ b.side = "none" /\ b.entry = m.entry
        /\ b.profits = m.profits /\ b.losses = Append(m.losses, pnl)
    BY <2>1
  <2>. HIDE DEF r
  <2>6. Total(b.profits) + Total(b.losses) = Total(m.profits) + Total(m.losses) + pnl
    BY <1>4, <2>5
  <2>7. Len(b.profits) + Len(b.losses) = Len(m.profits) + Len(m.losses) + 1
    <3>. DEFINE x == Len(b.profits)
                y == Len(b.losses)
                p == Len(m.profits)
                l == Len(m.losses)
    <3>1. x = p /\ y = l + 1 /\ p \in Nat /\ l \in Nat
      BY <1>5, <2>5, Zenon
    <3>. HIDE DEF x, y, p, l
    <3>2. x + y = p + l + 1
      BY <3>1
    <3>. QED
      BY <3>2 DEF x, y, p, l
  <2>. QED
    BY <1>4, <2>4, <2>5, <2>6, <2>7
<1>. QED
  BY <1>6, <1>7

\* What a trade does to the trips: it opens one, completes one or is ignored.
LEMMA MatchTradeCases ==
    ASSUME NEW m \in Trips, NEW t \in Trades
    PROVE  LET d == MatchTrade(m, t)
           IN  /\ d \in Trips
               /\ m.side = "none" =>
                    /\ d.side = (IF t.action = "buy" THEN "long" ELSE "short")
                    /\ d.entry = t.price
                    /\ d.profits = m.profits /\ d.losses = m.losses
               /\ m.side = "long" /\ t.action = "sell" => d = Booked(m, t.price - m.entry)
               /\ m.side = "short" /\ t.action = "buy" => d = Booked(m, m.entry - t.price)
<1>1. /\ t.action \in {"buy", "sell"} /\ t.price \in Nat
      /\ m.profits \in Seq(Gains) /\ m.losses \in Seq(Falls) /\ m.entry \in Nat
      /\ m.side \in {"none", "long", "short"}
      /\ m = [side |-> m.side, entry |-> m.entry,
              profits |-> m.profits, losses |-> m.losses]
  BY DEF Trips, Trades
<1>2. t.price - m.entry \in Int /\ m.entry - t.price \in Int
  BY <1>1
<1>3. /\ Booked(m, t.price - m.entry) \in Trips
      /\ Booked(m, m.entry - t.price) \in Trips
  BY <1>2, BookedTrip
<1>4. CASE m.side = "none"
  <2>. DEFINE side == IF t.action = "buy" THEN "long" ELSE "short"
              d == [side |-> side, entry |-> t.price,
                    profits |-> m.profits, losses |-> m.losses]
  <2>1. MatchTrade(m, t) = d
    BY <1>1, <1>4 DEF MatchTrade
  <2>2. side \in {"none", "long", "short"}
    OBVIOUS
  <2>3. d \in Trips
    BY <1>1, <2>2 DEF Trips
  <2>. QED
    BY <1>4, <2>1, <2>3
<1>5. CASE m.side = "long" /\ t.action = "sell"
  <2>1. MatchTrade(m, t) = Booked(m, t.price - m.entry)
    BY <1>5 DEF MatchTrade
  <2>. QED
    BY <1>3, <1>5, <2>1
<1>6. CASE m.side = "short" /\ t.action = "buy"
  <2>1. MatchTrade(m, t) = Booked(m, m.entry - t.price)
    BY <1>6 DEF MatchTrade
  <2>. QED
    BY <1>3, <1>6, <2>1
<1>7. CASE \/ m.side = "long" /\ t.action = "buy"
           \/ m.side = "short" /\ t.action = "sell"
  <2>1. MatchTrade(m, t) = m
    BY <1>7 DEF MatchTrade
  <2>. QED
    BY <1>7, <2>1
<1>. QED
  BY <1>1, <1>4, <1>5, <1>6, <1>7

\* The trips of no trades.
LEMMA NoRoundTrips == RoundTrips(<<>>) = NoTrips /\ NoTrips \in Trips
<1>1. DOMAIN <<>> = 1 .. 0
  OBVIOUS
<1>. DEFINE n == 0
            h == <<>>
<1>2. n \in Nat /\ DOMAIN h = 1 .. n
  BY <1>1
<1>3. \E r : Matching(r, n, h) /\ RoundTrips(h) = r[n]
  <2>. HIDE DEF n, h
  <2>. QED
    BY <1>2, RoundTripsStepwise
<1>4. NoTrips \in Trips
  BY DEF NoTrips, Trips
<1>. QED
  BY <1>3, <1>4 DEF Matching

\* What a step may do to the history: nothing, or one more trade at the price
\* of the bar.
LEMMA HistoryStep ==
    ASSUME AmountsOK, HistoryOK, [Next]_vars
    PROVE  HistoryOK'
<1>1. CASE history' = history
  BY <1>1 DEF HistoryOK
<1>2. CASE Trade
  <2>1. PICK side \in {"buy", "sell"} :
          history' = Append(history, [action |-> side, price |-> bar])
    BY <1>2 DEF Trade
  <2>. DEFINE t == [action |-> side, price |-> bar]
  <2>2. t \in Trades
    BY DEF Trades, AmountsOK
  <2>. HIDE DEF t
  <2>3. history' \in Seq(Trades)
    BY <2>1, <2>2 DEF HistoryOK, t
  <2>4. RoundTrips(history') = MatchTrade(RoundTrips(history), t)
    BY <2>1, <2>2, RoundTripsAppend DEF HistoryOK, t
  <2>5. RoundTrips(history') \in Trips
    BY <2>2, <2>4, MatchTradeCases DEF HistoryOK
  <2>. QED
    BY <2>3, <2>5 DEF HistoryOK
<1>. QED
  BY <1>1, <1>2
  DEF Next, vars, Fetch, NextBar, NoTrade, LastBarDone, Close, Cover

\* The history and its trips are always well formed.
LEMMA HistoryInvariant == Spec => [](MarkInv /\ EndInv /\ HistoryOK)
<1>1. Init => MarkInv /\ EndInv /\ HistoryOK
  <2>1. Init => EndInv
    BY BacktestConstants
    DEF Init, Broker!Init, Broker!Flat, Broker!Zero, EndInv, AmountsOK, EndsFlatOrBroke, Shares
  <2>2. Init => HistoryOK
    BY NoRoundTrips DEF Init, HistoryOK
  <2>. QED
    BY <2>1, <2>2, MarkInit
<1>2. MarkInv /\ EndInv /\ HistoryOK /\ [Next]_vars => (MarkInv /\ EndInv /\ HistoryOK)'
  BY MarkNext, EndNext, HistoryStep DEF EndInv
<1>. QED
  BY <1>1, <1>2, PTL DEF Spec

-----------------------------------------------------------------------------
(* What the history tells about the position *)

\* The net of the first n trades of h, and what all of them cost.
NetOf(h, n) == Total([i \in 1 .. n |-> Lots(h[i].action)])
Spent(h) == Total([i \in DOMAIN h |-> Lots(h[i].action) * h[i].price])

\* The trips of h tell that q shares are held: on which side, in how many
\* trades, and at what gain.
Tells(h, q) ==
    LET m == RoundTrips(h)
    IN  /\ q \in {-1, 0, 1} /\ q = NetOf(h, Len(h))
        /\ m.side = (IF q = 0 THEN "none" ELSE IF q = 1 THEN "long" ELSE "short")
        /\ Len(h) = 2 * (Len(m.profits) + Len(m.losses)) + (IF q = 0 THEN 0 ELSE 1)
        /\ Total(m.profits) + Total(m.losses) = q * m.entry - Spent(h)

\* A trade is one lot.
LEMMA LotsOfTrade ==
    ASSUME NEW t \in Trades
    PROVE  /\ (Lots(t.action) = 1 /\ t.action = "buy") \/ (Lots(t.action) = -1 /\ t.action = "sell")
           /\ Lots(t.action) \in Int /\ t.price \in Nat
           /\ Lots(t.action) * t.price \in Int
<1>1. t.action \in {"buy", "sell"} /\ t.price \in Nat
  BY DEF Trades
<1>. DEFINE lot == Lots(t.action)
            price == t.price
<1>2. (lot = 1 /\ t.action = "buy") \/ (lot = -1 /\ t.action = "sell")
  BY <1>1 DEF Lots
<1>3. price \in Nat
  BY <1>1
<1>. HIDE DEF lot, price
<1>4. lot \in Int
  BY <1>2
<1>5. lot * price \in Int
  BY <1>3, <1>4
<1>. QED
  BY <1>1, <1>2, <1>4, <1>5 DEF lot, price

\* A list of numbers.
LEMMA ListOf ==
    ASSUME NEW n \in Nat, NEW f, \A i \in 1 .. n : f[i] \in Int
    PROVE  [i \in 1 .. n |-> f[i]] \in Seq(Int) /\ Len([i \in 1 .. n |-> f[i]]) = n
OBVIOUS

\* The next element of a list of numbers.
LEMMA TotalNext ==
    ASSUME NEW n \in Nat, NEW f, NEW g, f = [i \in 1 .. n |-> f[i]],
           g = [i \in 1 .. (n + 1) |-> g[i]],
           \A i \in 1 .. n : f[i] \in Int /\ g[i] = f[i], g[n + 1] \in Int
    PROVE  Total(f) \in Int /\ Total(g) = Total(f) + g[n + 1]
<1>. DEFINE x == g[n + 1]
<1>1. f \in Seq(Int) /\ Len(f) = n
  <2>1. [i \in 1 .. n |-> f[i]] \in Seq(Int) /\ Len([i \in 1 .. n |-> f[i]]) = n
    BY ListOf
  <2>. QED
    BY <2>1, Zenon
<1>2. x \in Int
  OBVIOUS
<1>3. g = Append(f, x)
  <2>1. Append(f, x) = [i \in 1 .. (n + 1) |-> IF i = n + 1 THEN x ELSE f[i]]
    BY <1>1
  <2>2. \A i \in 1 .. (n + 1) : g[i] = IF i = n + 1 THEN x ELSE f[i]
    <3>1. \A i \in 1 .. (n + 1) : i = n + 1 \/ i \in 1 .. n
      OBVIOUS
    <3>. QED
      BY <3>1
  <2>. HIDE DEF x
  <2>. QED
    BY <2>1, <2>2
<1>. HIDE DEF x
<1>4. Total(f) \in Int /\ Total(Append(f, x)) = Total(f) + x
  BY <1>1, <1>2, TotalAppend
<1>. QED
  BY <1>3, <1>4 DEF x

\* The next trade adds to the net and to the cost.
LEMMA NetAppend ==
    ASSUME NEW h \in Seq(Trades), NEW t \in Trades
    PROVE  LET a == Append(h, t)
               n == Len(h)
           IN  /\ NetOf(h, n) \in Int /\ Spent(h) \in Int
               /\ Len(a) = n + 1 /\ n \in Nat
               /\ \A k \in 1 .. n : NetOf(a, k) = NetOf(h, k)
               /\ NetOf(a, n + 1) = NetOf(h, n) + Lots(t.action)
               /\ Spent(a) = Spent(h) + Lots(t.action) * t.price
<1>. DEFINE a == Append(h, t)
            n == Len(h)
<1>1. /\ n \in Nat /\ a \in Seq(Trades) /\ Len(a) = n + 1 /\ a[n + 1] = t
      /\ DOMAIN h = 1 .. n /\ DOMAIN a = 1 .. (n + 1)
      /\ \A k \in 1 .. n : h[k] \in Trades /\ a[k] = h[k]
  OBVIOUS
<1>. HIDE DEF a, n
<1>2. ASSUME NEW k \in 1 .. n PROVE NetOf(a, k) = NetOf(h, k)
  <2>1. \A i \in 1 .. k : i \in 1 .. n
    BY <1>1
  <2>2. \A i \in 1 .. k : a[i] = h[i]
    BY <1>1, <2>1
  <2>3. [i \in 1 .. k |-> Lots(a[i].action)] = [i \in 1 .. k |-> Lots(h[i].action)]
    BY <2>2
  <2>. QED
    BY <2>3 DEF NetOf
<1>3. \A k \in 1 .. n : Lots(h[k].action) \in Int /\ Lots(h[k].action) * h[k].price \in Int
  BY <1>1, LotsOfTrade
<1>4. Lots(t.action) \in Int /\ Lots(t.action) * t.price \in Int
  BY LotsOfTrade
<1>5. /\ NetOf(h, n) \in Int
      /\ NetOf(a, n + 1) = NetOf(h, n) + Lots(t.action)
  <2>. DEFINE f == [i \in 1 .. n |-> Lots(h[i].action)]
              g == [i \in 1 .. (n + 1) |-> Lots(a[i].action)]
  <2>1. f = [i \in 1 .. n |-> f[i]] /\ g = [i \in 1 .. (n + 1) |-> g[i]]
    OBVIOUS
  <2>2. g[n + 1] = Lots(t.action)
    BY <1>1
  <2>3. \A i \in 1 .. n : f[i] \in Int /\ g[i] = f[i]
    <3>1. \A i \in 1 .. n : i \in 1 .. (n + 1)
      BY <1>1
    <3>. QED
      BY <1>1, <1>3, <3>1
  <2>. HIDE DEF f, g
  <2>4. Total(f) \in Int /\ Total(g) = Total(f) + g[n + 1]
    BY <1>1, <1>4, <2>1, <2>2, <2>3, TotalNext
  <2>. QED
    BY <2>2, <2>4 DEF NetOf, f, g
<1>6. /\ Spent(h) \in Int
      /\ Spent(a) = Spent(h) + Lots(t.action) * t.price
  <2>. DEFINE f == [i \in 1 .. n |-> Lots(h[i].action) * h[i].price]
              g == [i \in 1 .. (n + 1) |-> Lots(a[i].action) * a[i].price]
  <2>1. f = [i \in 1 .. n |-> f[i]] /\ g = [i \in 1 .. (n + 1) |-> g[i]]
    OBVIOUS
  <2>2. g[n + 1] = Lots(t.action) * t.price
    BY <1>1
  <2>3. \A i \in 1 .. n : f[i] \in Int /\ g[i] = f[i]
    <3>1. \A i \in 1 .. n : i \in 1 .. (n + 1)
      BY <1>1
    <3>. QED
      BY <1>1, <1>3, <3>1
  <2>. HIDE DEF f, g
  <2>4. Total(f) \in Int /\ Total(g) = Total(f) + g[n + 1]
    BY <1>1, <1>4, <2>1, <2>2, <2>3, TotalNext
  <2>5. Spent(h) = Total(f) /\ Spent(a) = Total(g)
    BY <1>1 DEF Spent, f, g
  <2>. QED
    BY <2>2, <2>4, <2>5
<1>. QED
  BY <1>1, <1>2, <1>5, <1>6 DEF a, n

\* A trade that leaves at most one share is told of.
LEMMA TellsNext ==
    ASSUME NEW h \in Seq(Trades), RoundTrips(h) \in Trips, NEW t \in Trades,
           NEW q, Tells(h, q), q + Lots(t.action) \in {-1, 0, 1}
    PROVE  Tells(Append(h, t), q + Lots(t.action))
<1>. DEFINE a == Append(h, t)
            m == RoundTrips(h)
            d == RoundTrips(a)
            won(x) == Total(x.profits) + Total(x.losses)
            done(x) == Len(x.profits) + Len(x.losses)
            lot == Lots(t.action)
            s == q + lot
            cost == Spent(h)
            price == t.price
            entry == m.entry
<1>1. d = MatchTrade(m, t) /\ m \in Trips
  BY RoundTripsAppend
<1>2. /\ NetOf(h, Len(h)) \in Int /\ cost \in Int /\ Len(h) \in Nat
      /\ Len(a) = Len(h) + 1
      /\ NetOf(a, Len(h) + 1) = NetOf(h, Len(h)) + lot
      /\ Spent(a) = cost + lot * price
  BY NetAppend
<1>3. (lot = 1 /\ t.action = "buy") \/ (lot = -1 /\ t.action = "sell")
  BY LotsOfTrade
<1>4. price \in Nat /\ entry \in Nat
  BY <1>1, LotsOfTrade DEF Trips
<1>5. /\ q \in {-1, 0, 1} /\ q = NetOf(h, Len(h))
      /\ m.side = (IF q = 0 THEN "none" ELSE IF q = 1 THEN "long" ELSE "short")
      /\ Len(h) = 2 * done(m) + (IF q = 0 THEN 0 ELSE 1)
      /\ won(m) = q * entry - cost
  BY DEF Tells
<1>6. s \in {-1, 0, 1} /\ s = NetOf(a, Len(a))
  BY <1>2, <1>5
<1>7. done(m) \in Nat
  <2>1. m.profits \in Seq(Gains) /\ m.losses \in Seq(Falls)
    BY <1>1 DEF Trips
  <2>. DEFINE x == Len(m.profits)
              y == Len(m.losses)
  <2>2. x \in Nat /\ y \in Nat
    BY <2>1
  <2>. HIDE DEF x, y
  <2>3. x + y \in Nat
    BY <2>2
  <2>. QED
    BY <2>3 DEF x, y
<1>. HIDE DEF a, m, d, won, done, lot, cost, price, entry
<1>7a. s = q + lot
  OBVIOUS
<1>. HIDE DEF s
<1>8. CASE q = 0
  <2>1. /\ d.side = (IF t.action = "buy" THEN "long" ELSE "short")
        /\ d.entry = price
        /\ d.profits = m.profits /\ d.losses = m.losses
    BY <1>1, <1>5, <1>8, MatchTradeCases DEF price
  <2>2. won(d) = won(m) /\ done(d) = done(m)
    BY <2>1 DEF won, done
  <2>3. s = lot /\ s # 0 /\ d.side = (IF s = 1 THEN "long" ELSE "short")
    BY <1>3, <1>7a, <1>8, <2>1
  <2>4. Len(a) = 2 * done(d) + 1
    <3>. DEFINE x == Len(h)
                y == Len(a)
    <3>1. x = 2 * done(m) + 0 /\ y = x + 1
      BY <1>2, <1>5, <1>8
    <3>. HIDE DEF x, y
    <3>2. y = 2 * done(d) + 1
      BY <1>7, <2>2, <3>1
    <3>. QED
      BY <3>2 DEF y
  <2>5. won(d) = s * d.entry - Spent(a)
    <3>1. won(m) = 0 - cost
      BY <1>4, <1>5, <1>8
    <3>2. 0 - cost = s * price - (cost + lot * price)
      BY <1>2, <1>3, <1>4, <2>3
    <3>. QED
      BY <1>2, <2>1, <2>2, <3>1, <3>2
  <2>6. d.side = (IF s = 0 THEN "none" ELSE IF s = 1 THEN "long" ELSE "short")
    BY <2>3
  <2>7. Len(a) = 2 * done(d) + (IF s = 0 THEN 0 ELSE 1)
    BY <2>3, <2>4
  <2>8. Tells(a, s)
    BY <1>6, <2>5, <2>6, <2>7, Zenon DEF Tells, d, won, done
  <2>. QED
    BY <2>8 DEF a, s, lot
<1>9. CASE q # 0
  <2>. DEFINE pnl == IF q = 1 THEN price - entry ELSE entry - price
  <2>0. pnl \in Int
    BY <1>4
  <2>1. s = 0 /\ lot = -q /\ (q = 1 \/ q = -1)
    BY <1>3, <1>5, <1>6, <1>7a, <1>9
  <2>2. d = Booked(m, pnl)
    <3>1. CASE q = 1
      <4>1. m.side = "long" /\ t.action = "sell"
        BY <1>3, <1>5, <2>1, <3>1
      <4>2. d = Booked(m, price - entry)
        BY <1>1, <4>1, MatchTradeCases DEF price, entry
      <4>. QED
        BY <3>1, <4>2
    <3>2. CASE q = -1
      <4>1. m.side = "short" /\ t.action = "buy"
        BY <1>3, <1>5, <2>1, <3>2
      <4>2. d = Booked(m, entry - price)
        BY <1>1, <4>1, MatchTradeCases DEF price, entry
      <4>. QED
        BY <3>2, <4>2
    <3>. QED
      BY <2>1, <3>1, <3>2
  <2>3. pnl = q * price - q * entry
    BY <1>4, <2>1
  <2>. HIDE DEF pnl
  <2>4. /\ d.side = "none" /\ d.entry = entry
        /\ won(d) = won(m) + pnl /\ done(d) = done(m) + 1
    <3>1. m \in Trips
      BY <1>1
    <3>2. /\ d \in Trips /\ d.side = "none" /\ d.entry = m.entry
          /\ Total(d.profits) + Total(d.losses) = Total(m.profits) + Total(m.losses) + pnl
          /\ Len(d.profits) + Len(d.losses) = Len(m.profits) + Len(m.losses) + 1
      BY <2>0, <2>2, <3>1, BookedTrip
    <3>. QED
      BY <3>2, Zenon DEF won, done, entry
  <2>5. Len(a) = 2 * done(d) + 0
    <3>. DEFINE x == Len(h)
                y == Len(a)
    <3>1. x = 2 * done(m) + 1 /\ y = x + 1
      BY <1>2, <1>5, <1>9
    <3>. HIDE DEF x, y
    <3>2. y = 2 * done(d) + 0
      BY <1>7, <2>4, <3>1
    <3>. QED
      BY <3>2 DEF y
  <2>6. won(d) = s * d.entry - Spent(a)
    <3>1. won(m) + pnl = q * price - cost
      <4>. DEFINE x == q * price
                  y == q * entry
      <4>1. x \in Int /\ y \in Int
        BY <1>4, <2>1
      <4>2. won(m) = y - cost /\ pnl = x - y
        BY <1>5, <2>3
      <4>. HIDE DEF x, y
      <4>3. won(m) + pnl = x - cost
        BY <1>2, <4>1, <4>2
      <4>. QED
        BY <4>3 DEF x
    <3>2. s * entry = 0 /\ lot * price = -(q * price) /\ q * price \in Int
      BY <1>4, <2>1
    <3>3. s * entry - (cost + lot * price) = q * price - cost
      BY <1>2, <3>2
    <3>. QED
      BY <1>2, <2>4, <3>1, <3>3
  <2>7. d.side = (IF s = 0 THEN "none" ELSE IF s = 1 THEN "long" ELSE "short")
    BY <2>1, <2>4
  <2>8. Len(a) = 2 * done(d) + (IF s = 0 THEN 0 ELSE 1)
    BY <2>1, <2>5
  <2>9. Tells(a, s)
    BY <1>6, <2>6, <2>7, <2>8, Zenon DEF Tells, d, won, done
  <2>. QED
    BY <2>9 DEF a, s, lot
<1>. QED
  BY <1>8, <1>9

-----------------------------------------------------------------------------
(* The position and the history *)

\* What the trades of h come to that o reports as rejected.
RefusedOf(h, o) ==
    Total([i \in DOMAIN h |->
             IF o[i].status = "rejected" THEN Lots(h[i].action) ELSE 0])

\* The net of the whole history.
Told == NetOf(history, Len(history))

\* Every recorded trade was one order, and one more is the final close.
OrdersOfTrades ==
    \/ placed = Len(history)
    \/ pc = "done" /\ placed = Len(history) + 1

HistoryTells ==
    (\A n \in DOMAIN history : NetOf(history, n) \in -1 .. 1) => Tells(history, Told)

SheetInv ==
    /\ OrdersOfTrades
    /\ placed <= MaxBars + 1
    /\ Shares = Told - RefusedOf(history, order) + Closed
    /\ HistoryTells

\* The next trade counts as refused when its order was rejected.
LEMMA RefusedAppend ==
    ASSUME NEW h \in Seq(Trades), NEW t \in Trades, NEW o, NEW p,
           \A i \in 1 .. Len(h) : p[i] = o[i]
    PROVE  /\ RefusedOf(h, o) \in Int
           /\ RefusedOf(Append(h, t), p)
                = RefusedOf(h, o)
                  + (IF p[Len(h) + 1].status = "rejected" THEN Lots(t.action) ELSE 0)
<1>. DEFINE a == Append(h, t)
            n == Len(h)
            f == [i \in 1 .. n |-> IF o[i].status = "rejected" THEN Lots(h[i].action) ELSE 0]
            g == [i \in 1 .. (n + 1) |->
                    IF p[i].status = "rejected" THEN Lots(a[i].action) ELSE 0]
<1>1. /\ n \in Nat /\ DOMAIN h = 1 .. n /\ DOMAIN a = 1 .. (n + 1) /\ a[n + 1] = t
      /\ \A k \in 1 .. n : h[k] \in Trades /\ a[k] = h[k] /\ k \in 1 .. (n + 1)
  OBVIOUS
<1>. HIDE DEF a
<1>2. /\ Lots(t.action) \in Int
      /\ \A k \in 1 .. n : Lots(h[k].action) \in Int
  BY <1>1, LotsOfTrade
<1>3. f = [i \in 1 .. n |-> f[i]] /\ g = [i \in 1 .. (n + 1) |-> g[i]]
  OBVIOUS
<1>4. n + 1 \in 1 .. (n + 1)
  BY <1>1
<1>5. g[n + 1] = IF p[n + 1].status = "rejected" THEN Lots(t.action) ELSE 0
  BY <1>1, <1>4
<1>6. \A i \in 1 .. n : f[i] \in Int /\ g[i] = f[i]
  BY <1>1, <1>2
<1>7. RefusedOf(h, o) = Total(f) /\ RefusedOf(a, p) = Total(g)
  BY <1>1 DEF RefusedOf
<1>. HIDE DEF f, g
<1>8. g[n + 1] \in Int
  BY <1>2, <1>5
<1>9. Total(f) \in Int /\ Total(g) = Total(f) + g[n + 1]
  BY <1>1, <1>3, <1>6, <1>8, TotalNext
<1>. QED
  BY <1>5, <1>7, <1>9 DEF a

\* What is recorded of the orders of a history decides what was refused of it.
LEMMA RefusedSame ==
    ASSUME NEW h, NEW o, NEW p, \A i \in DOMAIN h : p[i] = o[i]
    PROVE  RefusedOf(h, p) = RefusedOf(h, o)
BY DEF RefusedOf

\* The net and the refused trades are integers.
LEMMA SheetTypes ==
    ASSUME HistoryOK
    PROVE  /\ history \in Seq(Trades) /\ Len(history) \in Nat
           /\ DOMAIN history = 1 .. Len(history)
           /\ Told \in Int /\ RefusedOf(history, order) \in Int
<1>. DEFINE t == [action |-> "buy", price |-> 0]
<1>1. history \in Seq(Trades) /\ t \in Trades
  BY DEF HistoryOK, Trades
<1>. HIDE DEF t
<1>2. Told \in Int
  BY <1>1, NetAppend DEF Told
<1>3. RefusedOf(history, order) \in Int
  BY <1>1, RefusedAppend
<1>. QED
  BY <1>1, <1>2, <1>3

\* What an order for q shares does: it is rejected or moves its quantity, and
\* only its own record changes.
LEMMA Outcome ==
    ASSUME BooksOK, AmountsOK, NEW side \in {"buy", "sell"}, NEW q \in Nat,
           NEW stopLoss, Broker!PlaceMarket(Engine, MarketOrder(side, q, stopLoss))
    PROVE  /\ placed' = placed + 1 /\ placed' \in Ids
           /\ \A id \in Ids \ {placed'} : order'[id] = order[id]
           /\ Broker!SignedQty(request'[placed']) = IF side = "buy" THEN q ELSE -q
           /\ \/ order'[placed'].status = "rejected" /\ Shares' = Shares
              \/ /\ order'[placed'].status = "filled"
                 /\ Shares' = Shares + (IF side = "buy" THEN q ELSE -q)
<1>. DEFINE r == MarketOrder(side, q, stopLoss)
            ref == Broker!KnownPrice(Symbol)
            new == placed + 1
            lots == IF side = "buy" THEN q ELSE -q
<1>0. r.symbol = Symbol /\ r.side = side /\ r.quantity = q
  BY DEF MarketOrder
<1>1. /\ Broker!Execute(new, r, ref) /\ placed' = new /\ placed < MaxBars + 1
      /\ request' = [request EXCEPT ![new] = r]
  BY <1>0 DEF Broker!PlaceMarket, Broker!StartExecution, Broker!NeedsQuote
<1>2. new \in Ids
  BY <1>1, BacktestConstants DEF BooksOK, Ids, Broker!OrderIds
<1>3. Broker!SignedQty(r) = lots
  BY <1>0 DEF Broker!SignedQty
<1>. HIDE DEF r, ref, new
<1>4. request'[new] = r
  BY <1>1, <1>2 DEF BooksOK
<1>5. PICK f : Broker!Reject(new, r) \/ Broker!Fill(new, r, f)
  BY <1>1 DEF Broker!Execute
<1>6. CASE Broker!Reject(new, r)
  <2>. DEFINE rec == [Broker!NoOrder EXCEPT !.status = "rejected",
                                            !.quantity = r.quantity]
  <2>1. rec.status = "rejected"
    BY DEF Broker!NoOrder
  <2>2. order' = [order EXCEPT ![new] = rec] /\ Shares' = Shares
    BY <1>6 DEF Broker!Reject, Shares
  <2>. HIDE DEF rec
  <2>3. order'[new] = rec /\ \A id \in Ids \ {new} : order'[id] = order[id]
    BY <1>2, <2>2 DEF BooksOK
  <2>. QED
    BY <1>1, <1>2, <1>3, <1>4, <2>1, <2>2, <2>3 DEF new
<1>7. CASE Broker!Fill(new, r, f)
  <2>. DEFINE rec == [status |-> "filled", quantity |-> r.quantity,
                      limit |-> NoPrice, fill |-> f]
              pos == Broker!NewPosition(position[Symbol], r, f)
  <2>1. order' = [order EXCEPT ![new] = rec] /\ position' = [position EXCEPT ![Symbol] = pos]
    BY <1>0, <1>7 DEF Broker!Fill
  <2>2. pos.qty = Shares + lots
    BY <1>3 DEF Broker!NewPosition, Broker!Flat, AmountsOK, Shares
  <2>3. rec.status = "filled"
    OBVIOUS
  <2>. HIDE DEF rec, pos
  <2>4. order'[new] = rec /\ position'[Symbol] = pos
    BY <1>2, <2>1 DEF BooksOK
  <2>5. \A id \in Ids \ {new} : order'[id] = order[id]
    BY <1>2, <2>1 DEF BooksOK
  <2>. QED
    BY <1>1, <1>2, <1>3, <1>4, <2>2, <2>3, <2>4, <2>5 DEF Shares, new
<1>. QED
  BY <1>5, <1>6, <1>7

\* A reported price changes no quantity.
LEMMA UpdateKeepsShares ==
    ASSUME BooksOK, NEW p, Broker!UpdatePrice(Engine, Symbol, p)
    PROVE  Shares' = Shares /\ UNCHANGED <<order, request, placed>>
<1>1. /\ position' = IF Held THEN [position EXCEPT ![Symbol].price = p] ELSE position
      /\ UNCHANGED <<order, request, placed>>
  BY DEF Broker!UpdatePrice, Broker!Held, Held, Shares
<1>2. CASE Held
  <2>. DEFINE new == [position[Symbol] EXCEPT !.price = p]
  <2>1. position' = [position EXCEPT ![Symbol] = new] /\ new.qty = Shares
    BY <1>1, <1>2 DEF BooksOK, IsPosition, Shares
  <2>. HIDE DEF new
  <2>2. position'[Symbol] = new
    BY <2>1 DEF BooksOK
  <2>. QED
    BY <1>1, <2>1, <2>2 DEF Shares
<1>3. CASE ~Held
  BY <1>1, <1>3 DEF Shares
<1>. QED
  BY <1>2, <1>3

\* A recorded trade is told of, unless it is one too many; and it moves a
\* share, unless it was refused.
LEMMA TradeTells ==
    ASSUME MarkInv, AmountsOK, HistoryOK, SheetInv, Trade
    PROVE  SheetInv'
<1>1. pc = "decide" /\ pc' = "bar"
  BY DEF Trade
<1>2. PICK side \in {"buy", "sell"} : \E stopLoss \in StopLosses(side) :
        /\ Broker!PlaceMarket(Engine, MarketOrder(side, 1, stopLoss))
        /\ history' = Append(history, [action |-> side, price |-> bar])
  BY DEF Trade
<1>. DEFINE t == [action |-> side, price |-> bar]
            lot == Lots(t.action)
            n == Len(history)
<1>3. /\ placed' = placed + 1 /\ placed' \in Ids /\ placed \in Nat
      /\ \A id \in Ids \ {placed'} : order'[id] = order[id]
      /\ \/ order'[placed'].status = "rejected" /\ Shares' = Shares
         \/ /\ order'[placed'].status = "filled"
            /\ Shares' = Shares + (IF side = "buy" THEN 1 ELSE -1)
  BY <1>2, Outcome DEF MarkInv, BooksOK
<1>4. t \in Trades /\ history \in Seq(Trades) /\ history' = Append(history, t)
  BY <1>2 DEF Trades, AmountsOK, HistoryOK
<1>5. lot = (IF side = "buy" THEN 1 ELSE -1) /\ Shares \in Int
  BY DEF Lots, AmountsOK
<1>. HIDE DEF t, lot
<1>6. /\ NetOf(history, n) \in Int /\ n \in Nat /\ Len(history') = n + 1
      /\ \A k \in 1 .. n : NetOf(history', k) = NetOf(history, k)
      /\ NetOf(history', n + 1) = NetOf(history, n) + lot
  BY <1>4, NetAppend DEF lot
<1>7. DOMAIN history = 1 .. n /\ DOMAIN history' = 1 .. (n + 1)
  BY <1>4
<1>. HIDE DEF n
<1>8. placed = n /\ placed' = n + 1
  BY <1>1, <1>3 DEF SheetInv, OrdersOfTrades, n
<1>9. Ids = 1 .. (MaxBars + 1) /\ MaxBars \in Nat
  BY BacktestConstants DEF Ids, Broker!OrderIds
<1>10. OrdersOfTrades' /\ placed' <= MaxBars + 1
  BY <1>3, <1>6, <1>8, <1>9 DEF OrdersOfTrades
<1>11. Closed = 0 /\ Closed' = 0
  BY <1>6, <1>8 DEF Closed, n
<1>12. Shares' = Told' - RefusedOf(history', order') + Closed'
  <2>1. \A i \in 1 .. n : order'[i] = order[i]
    BY <1>3, <1>6, <1>8, <1>9
  <2>2. /\ RefusedOf(history, order) \in Int
        /\ RefusedOf(history', order')
             = RefusedOf(history, order)
               + (IF order'[n + 1].status = "rejected" THEN lot ELSE 0)
    BY <1>4, <2>1, RefusedAppend DEF lot, n
  <2>3. Told = NetOf(history, n) /\ Told' = NetOf(history, n) + lot
    <3>1. Told' = NetOf(history', Len(history'))
      BY DEF Told, NetOf
    <3>. QED
      BY <1>6, <3>1 DEF Told, n
  <2>4. Shares = Told - RefusedOf(history, order) + Closed
    BY DEF SheetInv
  <2>5. CASE order'[n + 1].status = "rejected"
    <3>1. Shares' = Shares
      BY <1>3, <1>8, <2>5
    <3>2. RefusedOf(history', order') = RefusedOf(history, order) + lot
      BY <2>2, <2>5
    <3>3. lot \in Int
      BY <1>5
    <3>. QED
      BY <1>6, <1>11, <2>2, <2>3, <2>4, <3>1, <3>2, <3>3
  <2>6. CASE order'[n + 1].status # "rejected"
    <3>1. Shares' = Shares + lot
      BY <1>3, <1>5, <1>8, <2>6
    <3>2. RefusedOf(history', order') = RefusedOf(history, order)
      BY <2>2, <2>6
    <3>3. lot \in Int
      BY <1>5
    <3>. QED
      BY <1>6, <1>11, <2>2, <2>3, <2>4, <3>1, <3>2, <3>3
  <2>. QED
    BY <2>5, <2>6
<1>13. HistoryTells'
  <2>. SUFFICES ASSUME \A k \in 1 .. (n + 1) : NetOf(history', k) \in -1 .. 1
                PROVE  Tells(history', NetOf(history', n + 1))
    <3>1. HistoryTells' = ((\A k \in DOMAIN history' : NetOf(history', k) \in -1 .. 1)
                             => Tells(history', NetOf(history', Len(history'))))
      BY DEF HistoryTells, Told, Tells, NetOf, Spent
    <3>. QED
      BY <1>6, <1>7, <3>1
  <2>1. \A k \in DOMAIN history : NetOf(history, k) \in -1 .. 1
    <3>1. \A k \in 1 .. n : k \in 1 .. (n + 1)
      BY <1>6
    <3>. QED
      BY <1>6, <1>7, <3>1
  <2>2. Tells(history, NetOf(history, n))
    BY <2>1 DEF SheetInv, HistoryTells, Told, n
  <2>3. NetOf(history, n) + lot \in {-1, 0, 1}
    <3>1. n + 1 \in 1 .. (n + 1)
      BY <1>6
    <3>2. NetOf(history, n) + lot \in -1 .. 1
      BY <1>6, <3>1
    <3>. QED
      BY <3>2
  <2>4. Tells(Append(history, t), NetOf(history, n) + lot)
    BY <1>4, <2>2, <2>3, TellsNext DEF HistoryOK, lot
  <2>. QED
    BY <1>4, <1>6, <2>4
<1>. QED
  BY <1>10, <1>11, <1>12, <1>13 DEF SheetInv, RefusedOf

\* The final close moves its quantity, unless it was refused, and the history
\* does not tell of it.
LEMMA CoverTells ==
    ASSUME MarkInv, EndInv, HistoryOK, SheetInv, Cover
    PROVE  SheetInv'
<1>. DEFINE n == Len(history)
<1>1. pc = "cover" /\ pc' = "done" /\ history' = history
  BY DEF Cover
<1>2. PICK side \in {"buy", "sell"}, q \in Nat :
        Broker!PlaceMarket(Engine, MarketOrder(side, q, NoPrice))
  <2>1. CASE Shares > 0
    BY <2>1 DEF Cover, EndInv, AmountsOK
  <2>2. CASE ~(Shares > 0)
    <3>1. -Shares \in Nat
      BY <2>2 DEF EndInv, AmountsOK
    <3>. QED
      BY <2>2, <3>1 DEF Cover
  <2>. QED
    BY <2>1, <2>2
<1>. DEFINE lots == IF side = "buy" THEN q ELSE -q
<1>3. /\ placed' = placed + 1 /\ placed' \in Ids
      /\ \A id \in Ids \ {placed'} : order'[id] = order[id]
      /\ Broker!SignedQty(request'[placed']) = lots
      /\ \/ order'[placed'].status = "rejected" /\ Shares' = Shares
         \/ order'[placed'].status = "filled" /\ Shares' = Shares + lots
  BY <1>2, Outcome DEF MarkInv, EndInv
<1>4. lots \in Int /\ Shares \in Int
  BY DEF EndInv, AmountsOK
<1>. HIDE DEF lots
<1>5. /\ n \in Nat /\ DOMAIN history = 1 .. n
      /\ Told \in Int /\ RefusedOf(history, order) \in Int
  BY SheetTypes
<1>6. placed = n
  BY <1>1 DEF SheetInv, OrdersOfTrades
<1>. HIDE DEF n
<1>7. Ids = 1 .. (MaxBars + 1) /\ MaxBars \in Nat
  BY BacktestConstants DEF Ids, Broker!OrderIds
<1>8. OrdersOfTrades' /\ placed' <= MaxBars + 1
  BY <1>1, <1>3, <1>6, <1>7 DEF OrdersOfTrades, n
<1>9. Closed = 0 /\ Closed' = IF order'[placed'].status = "filled" THEN lots ELSE 0
  <2>1. Closed = 0
    BY <1>5, <1>6 DEF Closed, n
  <2>2. placed' > Len(history')
    BY <1>1, <1>3, <1>5, <1>6 DEF n
  <2>3. Broker!Filled(placed)' <=> order'[placed'].status = "filled"
    BY DEF Broker!Filled
  <2>4. Broker!SignedQty(request[placed])' = Broker!SignedQty(request'[placed'])
    BY DEF Broker!SignedQty
  <2>. QED
    BY <1>3, <2>1, <2>2, <2>3, <2>4 DEF Closed
<1>10. RefusedOf(history', order') = RefusedOf(history, order)
  <2>1. \A i \in DOMAIN history : order'[i] = order[i]
    BY <1>3, <1>5, <1>6, <1>7
  <2>. QED
    BY <1>1, <2>1, RefusedSame
<1>11. Told' = Told
  BY <1>1 DEF Told, NetOf
<1>12. Shares' = Told' - RefusedOf(history', order') + Closed'
  <2>1. Shares = Told - RefusedOf(history, order)
    BY <1>5, <1>9 DEF SheetInv
  <2>2. Shares' = Shares + Closed'
    BY <1>3, <1>4, <1>9
  <2>3. Closed' \in Int
    BY <1>4, <1>9
  <2>. QED
    BY <1>5, <1>10, <1>11, <2>1, <2>2, <2>3
<1>13. HistoryTells'
  BY <1>1 DEF SheetInv, HistoryTells, Told, Tells, NetOf, Spent
<1>. QED
  BY <1>8, <1>12, <1>13 DEF SheetInv, RefusedOf

\* Every step keeps what the history tells.
LEMMA SheetNext ==
    ASSUME MarkInv, EndInv, HistoryOK, SheetInv, [Next]_vars
    PROVE  SheetInv'
<1>1. ASSUME UNCHANGED <<order, request, placed, history>>, Shares' = Shares,
             pc = "done" => pc' = "done"
      PROVE  SheetInv'
  <2>1. OrdersOfTrades' /\ placed' <= MaxBars + 1
    BY <1>1 DEF SheetInv, OrdersOfTrades
  <2>2. Closed' = Closed
    BY <1>1 DEF Closed, Broker!Filled, Broker!SignedQty
  <2>3. Told' = Told
    BY <1>1 DEF Told, NetOf
  <2>4. HistoryTells'
    BY <1>1 DEF SheetInv, HistoryTells, Told, Tells, NetOf, Spent
  <2>5. RefusedOf(history, order)' = RefusedOf(history, order)
    BY <1>1 DEF RefusedOf
  <2>. QED
    BY <1>1, <2>1, <2>2, <2>3, <2>4, <2>5 DEF SheetInv
<1>2. CASE Fetch \/ NoTrade \/ LastBarDone
  BY <1>1, <1>2 DEF Fetch, NoTrade, LastBarDone, broker, Shares
<1>3. CASE UNCHANGED vars
  BY <1>1, <1>3 DEF vars, broker, Shares
<1>4. CASE NextBar
  <2>1. Broker!UpdatePrice(Engine, Symbol, bar') /\ history' = history /\ pc # "done"
    BY <1>4 DEF NextBar
  <2>. QED
    BY <1>1, <2>1, UpdateKeepsShares DEF MarkInv
<1>5. CASE Close
  <2>1. history' = history /\ pc # "done"
    BY <1>5 DEF Close
  <2>2. CASE Held
    <3>1. Broker!UpdatePrice(Engine, Symbol, bar)
      BY <1>5, <2>2 DEF Close
    <3>. QED
      BY <1>1, <2>1, <3>1, UpdateKeepsShares DEF MarkInv
  <2>3. CASE ~Held
    BY <1>1, <1>5, <2>1, <2>3 DEF Close, broker, Shares
  <2>. QED
    BY <2>2, <2>3
<1>6. CASE Trade
  BY <1>6, TradeTells DEF EndInv
<1>7. CASE Cover
  BY <1>7, CoverTells
<1>. QED
  BY <1>2, <1>3, <1>4, <1>5, <1>6, <1>7 DEF Next

\* Before the first trade nothing is held.
LEMMA SheetInit == Init => SheetInv
<1>. SUFFICES ASSUME Init PROVE SheetInv
  OBVIOUS
<1>1. history = <<>> /\ Shares = 0 /\ placed = 0
  BY DEF Init, Broker!Init, Broker!Flat, Shares
<1>2. RoundTrips(<<>>) = NoTrips
  BY NoRoundTrips
<1>3. NetOf(<<>>, 0) = 0 /\ Spent(<<>>) = 0 /\ RefusedOf(<<>>, order) = 0
  <2>1. [i \in 1 .. 0 |-> Lots(<<>>[i].action)] = <<>>
    OBVIOUS
  <2>2. [i \in DOMAIN <<>> |-> Lots(<<>>[i].action) * <<>>[i].price] = <<>>
    OBVIOUS
  <2>3. [i \in DOMAIN <<>> |->
           IF order[i].status = "rejected" THEN Lots(<<>>[i].action) ELSE 0] = <<>>
    OBVIOUS
  <2>. QED
    BY <2>1, <2>2, <2>3, TotalOfNothing DEF NetOf, Spent, RefusedOf
<1>4. Tells(<<>>, 0)
  <2>1. /\ RoundTrips(<<>>).side = "none" /\ RoundTrips(<<>>).entry = 0
        /\ RoundTrips(<<>>).profits = <<>> /\ RoundTrips(<<>>).losses = <<>>
    BY <1>2 DEF NoTrips
  <2>2. Len(<<>>) = 0 /\ Len(<<>>) = 2 * (Len(<<>>) + Len(<<>>)) + 0
    OBVIOUS
  <2>3. Total(<<>>) + Total(<<>>) = 0 * 0 - Spent(<<>>)
    BY <1>3, TotalOfNothing
  <2>4. /\ 0 \in {-1, 0, 1} /\ 0 = NetOf(<<>>, Len(<<>>))
        /\ RoundTrips(<<>>).side = (IF 0 = 0 THEN "none" ELSE IF 0 = 1 THEN "long" ELSE "short")
        /\ Len(<<>>) = 2 * (Len(RoundTrips(<<>>).profits) + Len(RoundTrips(<<>>).losses))
                         + (IF 0 = 0 THEN 0 ELSE 1)
        /\ Total(RoundTrips(<<>>).profits) + Total(RoundTrips(<<>>).losses)
             = 0 * RoundTrips(<<>>).entry - Spent(<<>>)
    BY <1>3, <2>1, <2>2, <2>3
  <2>. QED
    BY <2>4, Zenon DEF Tells
<1>5. Len(<<>>) = 0
  OBVIOUS
<1>6. Told = 0 /\ Closed = 0 /\ RefusedOf(history, order) = 0
  BY <1>1, <1>3, <1>5 DEF Told, Closed
<1>7. OrdersOfTrades /\ placed <= MaxBars + 1
  BY <1>1, <1>5, BacktestConstants DEF OrdersOfTrades
<1>8. HistoryTells
  BY <1>1, <1>4, <1>6 DEF HistoryTells
<1>. QED
  BY <1>1, <1>6, <1>7, <1>8 DEF SheetInv

\* After every step of a backtest, the one that ends it included, the broker
\* holds what the recorded trades come to but for the refused ones and the
\* final close; and as long as they never come to more than one share, the
\* tearsheet tells the recorded trades, their open trip, the number of trips
\* and what they earned.
THEOREM TearsheetIsOfTheHistory == Spec => []TearsheetTellsTheTrades
<1>1. HistoryOK /\ SheetInv => TearsheetTellsTheTrades
  <2>. SUFFICES ASSUME HistoryOK, SheetInv PROVE TearsheetTellsTheTrades
    OBVIOUS
  <2>1. Shares = NetLots(Len(history)) - Refused + Closed
    BY DEF SheetInv, Told, NetOf, NetLots, RefusedOf, Refused
  <2>2. ASSUME \A n \in DOMAIN history : NetLots(n) \in -1 .. 1,
               NEW m, m = RoundTrips(history),
               NEW P, P = m.profits, NEW L, L = m.losses,
               NEW told, told = Told
        PROVE  /\ m.side = CASE told = 0  -> "none"
                             [] told = 1  -> "long"
                             [] told = -1 -> "short"
               /\ Result.totalTrades =
                    2 * Tearsheet.totalTrades + (IF told = 0 THEN 0 ELSE 1)
               /\ Tearsheet.profitFactor.num - Tearsheet.profitFactor.den =
                    told * m.entry - Spent(history)
    <3>1. Tells(history, told)
      <4>1. \A n : NetLots(n) = NetOf(history, n)
        BY DEF NetLots, NetOf
      <4>. QED
        BY <2>2, <4>1 DEF SheetInv, HistoryTells
    <3>2. /\ Result.totalTrades = Len(history)
          /\ Tearsheet.totalTrades = Len(P) + Len(L)
          /\ Tearsheet.profitFactor.num = Total(P) /\ Tearsheet.profitFactor.den = -Total(L)
      BY <2>2 DEF Tearsheet, Result
    <3>3. /\ told \in {-1, 0, 1}
          /\ m.side = (IF told = 0 THEN "none" ELSE IF told = 1 THEN "long" ELSE "short")
          /\ Len(history) = 2 * (Len(P) + Len(L)) + (IF told = 0 THEN 0 ELSE 1)
          /\ Total(P) + Total(L) = told * m.entry - Spent(history)
      BY <2>2, <3>1 DEF Tells
    <3>4. Total(P) \in Int /\ Total(L) \in Int
      <4>1. P \in Seq(Gains) /\ L \in Seq(Falls)
        BY <2>2 DEF HistoryOK, Trips
      <4>2. P \in Seq(Int) /\ L \in Seq(Int)
        BY <4>1, SeqMonotonic DEF Gains, Falls
      <4>. QED
        BY <4>2, TotalAppend
    <3>5. Total(P) - (-Total(L)) = Total(P) + Total(L)
      BY <3>4
    <3>6. Tearsheet.profitFactor.num - Tearsheet.profitFactor.den
            = told * m.entry - Spent(history)
      BY <3>2, <3>3, <3>5, Zenon
    <3>. DEFINE k == Len(P) + Len(L)
                n == Len(history)
    <3>7. /\ n = 2 * k + (IF told = 0 THEN 0 ELSE 1)
          /\ Result.totalTrades = n /\ Tearsheet.totalTrades = k
      BY <3>2, <3>3
    <3>. HIDE DEF k, n
    <3>8. Result.totalTrades = 2 * Tearsheet.totalTrades + (IF told = 0 THEN 0 ELSE 1)
      BY <3>7
    <3>9. m.side = CASE told = 0  -> "none"
                     [] told = 1  -> "long"
                     [] told = -1 -> "short"
      BY <3>3
    <3>. QED
      BY <3>6, <3>8, <3>9
  <2>3. Told = NetLots(Len(history))
    BY DEF Told, NetOf, NetLots
  <2>. QED
    BY <2>1, <2>2, <2>3, Zenon DEF TearsheetTellsTheTrades, Spent
<1>2. MarkInv /\ EndInv /\ HistoryOK /\ SheetInv /\ [Next]_vars => SheetInv'
  BY SheetNext
<1>. QED
  BY <1>1, <1>2, HistoryInvariant, SheetInit, PTL DEF Spec
=============================================================================

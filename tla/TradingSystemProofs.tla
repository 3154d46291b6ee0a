------------------------- MODULE TradingSystemProofs -------------------------
(***************************************************************************)
(* Theorems about the running process, for every watchlist, every number   *)
(* of loops and of REST tasks, and every set of prices and orders: only    *)
(* the current loop trades, a halted engine is quiet, the loop never holds *)
(* more positions than allowed; the process runs the broker of PaperBroker *)
(* and inherits its theorems; and the loop never sells at a known price.   *)
(***************************************************************************)
EXTENDS TradingSystem, FiniteSetTheorems, TLAPS

-----------------------------------------------------------------------------
(* One loop *)

Control == [pc : {"off", "scan", "order", "sleep"}, at : 1 .. Len(Watchlist)]

\* The control state, and the property itself, which is inductive with it.
LoopInv ==
    /\ running \in BOOLEAN
    /\ loop \in [Loops -> Control]
    /\ OneLoopTrades

\* Where a loop starts, ends, and goes after a symbol.
LEMMA ControlTypes ==
    /\ Off \in Control /\ Off.pc = "off"
    /\ AtStart \in Control
    /\ \A n \in 1 .. Len(Watchlist) :
         NextSymbol(n) \in Control /\ NextSymbol(n).pc # "off"
<1>1. Len(Watchlist) \in Nat /\ Len(Watchlist) >= 1
  BY SystemConstants
<1> QED  BY <1>1 DEF Off, AtStart, NextSymbol, Control

\* A step that leaves the monitor alone keeps the invariant, unless it takes
\* the process out of the phases in which a loop may trade.
LEMMA MonitorUnchanged ==
    ASSUME LoopInv, UNCHANGED monitor,
           phase' = phase \/ phase' \in {"up", "alone"}
    PROVE  LoopInv'
BY DEF LoopInv, OneLoopTrades, Alive, monitor

\* While is_running is false there is no live loop, so that the one start
\* makes is the only one.
LEMMA EngineStartStep ==
    ASSUME LoopInv, EngineStart, phase' \in {"up", "alone"}
    PROVE  LoopInv'
<1>1. CASE running
  BY <1>1, MonitorUnchanged DEF EngineStart
<1>2. CASE ~running
  <2>1. MonitorStart
    BY <1>2 DEF EngineStart
  <2>2. PICK l \in Loops : /\ current' = l
                           /\ loop' = [loop EXCEPT ![l] = AtStart]
    BY <2>1 DEF MonitorStart
  <2>3. running' = TRUE /\ cancelled' = cancelled
    BY <2>1 DEF MonitorStart
  <2>4. loop' \in [Loops -> Control]
    BY <2>2, ControlTypes DEF LoopInv
  <2>5. \A m \in Loops \ {l} : loop'[m] = loop[m]
    BY <2>2 DEF LoopInv
  <2>6. \A m \in Loops : ~Alive(m)
    BY <1>2 DEF LoopInv, OneLoopTrades
  <2>7. OneLoopTrades'
    BY <2>2, <2>3, <2>5, <2>6 DEF OneLoopTrades, Alive
  <2> QED  BY <2>3, <2>4, <2>7 DEF LoopInv
<1> QED  BY <1>1, <1>2

\* stop cancels the one live loop.
LEMMA EngineStopStep ==
    ASSUME LoopInv, EngineStop
    PROVE  LoopInv'
<1>1. running' = FALSE /\ loop' = loop
  BY DEF EngineStop, MonitorStop, monitor, LoopInv
<1>2. running => cancelled' = cancelled \cup {current}
  BY DEF EngineStop, MonitorStop
<1>3. ~running => cancelled' = cancelled
  BY DEF EngineStop, monitor
<1>4. \A m \in Loops : ~Alive(m)'
  BY <1>1, <1>2, <1>3 DEF LoopInv, OneLoopTrades, Alive
<1> QED  BY <1>1, <1>4 DEF LoopInv, OneLoopTrades

\* Startup, shutdown, launch, signals, exit and the endpoints of the engine.
LEMMA LifecycleStep ==
    ASSUME LoopInv, Lifecycle
    PROVE  LoopInv'
<1>1. CASE Startup
  <2>1. CASE phase' = "up" /\ EngineStart
    BY <2>1, EngineStartStep
  <2>2. CASE phase' = "down" /\ UNCHANGED monitor
    BY <1>1, <2>2 DEF Startup, LoopInv, OneLoopTrades, Alive, monitor
  <2> QED  BY <1>1, <2>1, <2>2 DEF Startup
<1>2. CASE Launch
  BY <1>2, EngineStartStep DEF Launch
<1>3. CASE Start
  BY <1>3, EngineStartStep DEF Start, Serving
<1>4. CASE Shutdown \/ Signal \/ Stop \/ Kill
  BY <1>4, EngineStopStep DEF Shutdown, Signal, Stop, Kill
<1>5. CASE Exit
  BY <1>5 DEF Exit, LoopInv, OneLoopTrades, Alive, monitor
<1> QED  BY <1>1, <1>2, <1>3, <1>4, <1>5 DEF Lifecycle

\* A live loop moves on, or ends because is_running is false.
LEMMA LiveLoopStep ==
    ASSUME LoopInv, NEW l \in Loops, loop[l].pc # "off", l \notin cancelled,
           NEW next \in Control, loop' = [loop EXCEPT ![l] = next],
           UNCHANGED <<phase, running, current, cancelled>>
    PROVE  LoopInv'
<1>1. loop' \in [Loops -> Control]
  BY DEF LoopInv
<1>2. Alive(l) /\ \A m \in Loops \ {l} : loop'[m] = loop[m]
  BY DEF LoopInv, Alive
<1>3. OneLoopTrades'
  BY <1>2 DEF LoopInv, OneLoopTrades, Alive
<1> QED  BY <1>1, <1>3 DEF LoopInv

\* The steps of a loop.
LEMMA LoopStepStep ==
    ASSUME LoopInv, NEW l \in Loops, LoopStep(l)
    PROVE  LoopInv'
<1>0. loop[l] \in Control /\ loop[l].at \in 1 .. Len(Watchlist)
  BY DEF LoopInv, Control
<1>1. CASE Wake(l)
  <2> DEFINE next == IF running THEN AtStart ELSE Off
  <2>1. next \in Control
    BY ControlTypes
  <2>2. loop' = [loop EXCEPT ![l] = next]
    BY <1>1 DEF Wake
  <2> HIDE DEF next
  <2> QED  BY <1>1, <2>1, <2>2, LiveLoopStep DEF Wake
<1>2. CASE NoTrade(l)
  <2>1. loop' = [loop EXCEPT ![l] = NextSymbol(loop[l].at)]
    BY <1>2 DEF NoTrade
  <2> QED  BY <1>0, <1>2, <2>1, ControlTypes, LiveLoopStep DEF NoTrade
<1>3. CASE Trade(l)
  <2>1. [loop[l] EXCEPT !.pc = "order"] \in Control
    BY <1>0 DEF Control
  <2>2. PICK next \in {[loop[l] EXCEPT !.pc = "order"], NextSymbol(loop[l].at)} :
          loop' = [loop EXCEPT ![l] = next]
    BY <1>3 DEF Trade
  <2>3. next \in Control
    BY <1>0, <2>1, ControlTypes
  <2>4. /\ loop[l].pc # "off" /\ l \notin cancelled
        /\ UNCHANGED <<phase, running, current, cancelled>>
    BY <1>3 DEF Trade
  <2> QED  BY <2>2, <2>3, <2>4, LiveLoopStep
<1>4. CASE OrderReturns(l)
  <2>1. loop' = [loop EXCEPT ![l] = NextSymbol(loop[l].at)]
    BY <1>4 DEF OrderReturns
  <2> QED  BY <1>0, <1>4, <2>1, ControlTypes, LiveLoopStep DEF OrderReturns
<1>5. CASE LoopEnds(l)
  <2>1. loop' \in [Loops -> Control]
    BY <1>5, ControlTypes DEF LoopEnds, LoopInv
  <2>2. loop'[l].pc = "off" /\ \A m \in Loops \ {l} : loop'[m] = loop[m]
    BY <1>5, ControlTypes DEF LoopEnds, LoopInv
  <2>3. /\ cancelled' = cancelled \ {l}
        /\ UNCHANGED <<phase, running, current>>
    BY <1>5 DEF LoopEnds
  <2>4. OneLoopTrades'
    BY <2>2, <2>3 DEF LoopInv, OneLoopTrades, Alive
  <2> QED  BY <2>1, <2>3, <2>4 DEF LoopInv
<1> QED  BY <1>1, <1>2, <1>3, <1>4, <1>5 DEF LoopStep

\* Every step keeps the invariant.
LEMMA LoopNext == LoopInv /\ [Next]_vars => LoopInv'
<1> SUFFICES ASSUME LoopInv, [Next]_vars PROVE LoopInv'
  OBVIOUS
<1>1. CASE Lifecycle
  BY <1>1, LifecycleStep
<1>2. ASSUME NEW l \in Loops, LoopStep(l) PROVE LoopInv'
  BY <1>2, LoopStepStep
<1>3. CASE Api
  <2>1. UNCHANGED <<phase, monitor>>
    BY <1>3 DEF Api, ApiPlace, ApiOrderReturns, ApiCancel
  <2> QED  BY <2>1, MonitorUnchanged
<1>4. CASE UNCHANGED vars
  BY <1>4, MonitorUnchanged DEF vars
<1> QED  BY <1>1, <1>2, <1>3, <1>4 DEF Next

\* Initially no loop exists.
LEMMA LoopInit == Init => LoopInv
BY ControlTypes DEF Init, LoopInv, OneLoopTrades, Alive

\* However starts, stops, kills, launches and shutdowns are interleaved with
\* loops that have not ended yet, at most one loop trades: the one that stop
\* would cancel.
THEOREM OnlyTheCurrentLoopTrades == Spec => []OneLoopTrades
<1>1. LoopInv => OneLoopTrades
  BY DEF LoopInv
<1> QED  BY <1>1, LoopInit, LoopNext, PTL DEF Spec

-----------------------------------------------------------------------------
(* A halted engine *)

AllTasks == Loops \cup ApiTasks
Ids == Broker!OrderIds

\* Who works for whom: an order that a REST task executes, and one that waits
\* in the book, came in through the API.
BookInv ==
    /\ placed \in Nat /\ placed <= MaxOrders
    /\ order = [id \in Ids |-> order[id]]
    /\ author = [id \in Ids |-> author[id]]
    /\ task = [t \in AllTasks |-> task[t]]
    /\ \A t \in AllTasks : task[t].pc = "fetch" => task[t].id \in 1 .. placed
    /\ \A t \in ApiTasks : task[t].pc = "fetch" => author[task[t].id] = "api"
    /\ \A id \in Ids : Broker!Open(id) => id <= placed /\ author[id] = "api"

\* The record of order id, and no other, became final.
Settled(id) ==
    /\ order' = [j \in Ids |-> order'[j]]
    /\ \A j \in Ids \ {id} : order'[j] = order[j]
    /\ order'[id].status \in {"filled", "rejected"}

\* A task executes an order that was placed before the next one.
LEMMA FetchedIds ==
    ASSUME BookInv, NEW t \in AllTasks, task[t].pc = "fetch"
    PROVE  task[t].id \in Ids \ {placed + 1}
<1>1. task[t].id \in 1 .. placed /\ placed \in Nat /\ placed <= MaxOrders
  BY DEF BookInv
<1> QED  BY <1>1, SystemConstants DEF Ids, Broker!OrderIds

\* What _execute_market_order does to the order records.
LEMMA ExecuteSettles ==
    ASSUME BookInv, NEW id \in Ids, NEW r, NEW ref, Broker!Execute(id, r, ref)
    PROVE  Settled(id)
<1>1. PICK f : Broker!Reject(id, r) \/ Broker!Fill(id, r, f)
  BY DEF Broker!Execute
<1>2. CASE Broker!Reject(id, r)
  <2> DEFINE rec == [Broker!NoOrder EXCEPT !.status = "rejected",
                                           !.quantity = r.quantity]
  <2>1. rec.status = "rejected"
    BY DEF Broker!NoOrder
  <2>2. order' = [order EXCEPT ![id] = rec]
    BY <1>2 DEF Broker!Reject
  <2> HIDE DEF rec
  <2> QED  BY <2>1, <2>2 DEF BookInv, Settled
<1>3. CASE Broker!Fill(id, r, f)
  <2> DEFINE rec == [status |-> "filled", quantity |-> r.quantity,
                     limit |-> NoPrice, fill |-> f]
  <2>1. rec.status = "filled"
    OBVIOUS
  <2>2. order' = [order EXCEPT ![id] = rec]
    BY <1>3 DEF Broker!Fill
  <2> HIDE DEF rec
  <2> QED  BY <2>1, <2>2 DEF BookInv, Settled
<1> QED  BY <1>1, <1>2, <1>3

\* place_order of a market order: the task is suspended, or the order final.
LEMMA PlaceMarketEffect ==
    ASSUME BookInv, NEW t \in AllTasks, NEW r, Broker!PlaceMarket(t, r)
    PROVE  /\ placed + 1 \in Ids /\ placed' = placed + 1
           /\ task' = [u \in AllTasks |-> task'[u]]
           /\ \A u \in AllTasks \ {t} : task'[u] = task[u]
           /\ \/ order' = order /\ task'[t].id = placed + 1
              \/ Settled(placed + 1) /\ task'[t].pc # "fetch"
<1>1. /\ placed < MaxOrders /\ placed' = placed + 1
      /\ Broker!StartExecution(t, placed + 1, r, {})
  BY DEF Broker!PlaceMarket
<1>2. placed + 1 \in Ids
  BY <1>1, SystemConstants DEF BookInv, Ids, Broker!OrderIds
<1>3. CASE Broker!NeedsQuote(r.symbol)
  <2>1. task' = [task EXCEPT ![t] = Broker!Fetching(placed + 1, {})]
        /\ order' = order
    BY <1>1, <1>3 DEF Broker!StartExecution, Broker!account
  <2>2. Broker!Fetching(placed + 1, {}).id = placed + 1
    BY DEF Broker!Fetching
  <2> QED  BY <1>1, <1>2, <2>1, <2>2 DEF BookInv
<1>4. CASE ~Broker!NeedsQuote(r.symbol)
  <2>1. /\ task' = [task EXCEPT ![t] = Broker!Looping({})]
        /\ Broker!Execute(placed + 1, r, Broker!KnownPrice(r.symbol))
    BY <1>1, <1>4 DEF Broker!StartExecution
  <2>2. Broker!Looping({}).pc # "fetch"
    BY DEF Broker!Looping, Broker!Idle
  <2>3. Settled(placed + 1)
    BY <1>2, <2>1, ExecuteSettles
  <2> QED  BY <1>1, <1>2, <2>1, <2>2, <2>3 DEF BookInv
<1> QED  BY <1>3, <1>4

\* A quote arrives: the order of the task is final, and the task moves on.
LEMMA QuoteEffect ==
    ASSUME BookInv, NEW t \in AllTasks, Broker!QuoteArrives(t)
    PROVE  /\ task[t].pc = "fetch"
           /\ Settled(task[t].id) /\ task[t].id \in Ids
           /\ task' = [u \in AllTasks |-> task'[u]]
           /\ \A u \in AllTasks \ {t} : task'[u] = task[u]
           /\ task'[t].pc # "fetch"
           /\ placed' = placed
<1> DEFINE todo == task[t].todo
<1>1. task[t].pc = "fetch" /\ task[t].id \in Ids
  BY SystemConstants DEF Broker!QuoteArrives, BookInv, Ids, Broker!OrderIds
<1>2. PICK ref : Broker!Execute(task[t].id, request[task[t].id], ref)
  BY DEF Broker!QuoteArrives
<1>3. task' = [task EXCEPT ![t] = Broker!Looping(todo)] /\ placed' = placed
  BY DEF Broker!QuoteArrives
<1>4. Broker!Looping(todo).pc # "fetch"
  BY DEF Broker!Looping, Broker!Idle
<1>5. Settled(task[t].id)
  BY <1>1, <1>2, ExecuteSettles
<1> QED  BY <1>1, <1>3, <1>4, <1>5 DEF BookInv

\* A new order of the API or of a loop keeps the book.
LEMMA PlaceMarketBook ==
    ASSUME BookInv, NEW t \in AllTasks, NEW r, Broker!PlaceMarket(t, r),
           NEW who, who = "api" \/ t \notin ApiTasks,
           author' = [author EXCEPT ![placed'] = who]
    PROVE  BookInv'
<1>1. /\ placed + 1 \in Ids /\ placed' = placed + 1
      /\ task' = [u \in AllTasks |-> task'[u]]
      /\ \A u \in AllTasks \ {t} : task'[u] = task[u]
      /\ \/ order' = order /\ task'[t].id = placed + 1
         \/ Settled(placed + 1) /\ task'[t].pc # "fetch"
  BY PlaceMarketEffect
<1>2. placed' \in Nat /\ placed' <= MaxOrders
  BY <1>1, SystemConstants DEF BookInv, Ids, Broker!OrderIds
<1>3. /\ author' = [id \in Ids |-> author'[id]] /\ author'[placed + 1] = who
      /\ \A id \in Ids \ {placed + 1} : author'[id] = author[id]
  BY <1>1 DEF BookInv
<1>4. order' = [id \in Ids |-> order'[id]]
  BY <1>1 DEF BookInv, Settled
<1>5. \A u \in AllTasks : task'[u].pc = "fetch" => task'[u].id \in 1 .. placed'
  BY <1>1 DEF BookInv
<1>6. ASSUME NEW u \in ApiTasks, task'[u].pc = "fetch"
      PROVE  author'[task'[u].id] = "api"
  <2>1. CASE u = t
    BY <1>1, <1>3, <1>6, <2>1
  <2>2. CASE u # t
    <3>1. task'[u] = task[u] /\ task[u].id \in Ids \ {placed + 1}
      BY <1>1, <1>6, <2>2, FetchedIds DEF AllTasks
    <3> QED  BY <1>3, <1>6, <3>1 DEF BookInv
  <2> QED  BY <2>1, <2>2
<1>7. ASSUME NEW id \in Ids, Broker!Open(id)'
      PROVE  id <= placed' /\ author'[id] = "api"
  <2>1. Broker!Open(id) /\ id # placed + 1
    BY <1>1, <1>7 DEF Settled, Broker!Open, BookInv
  <2> QED  BY <1>1, <1>3, <2>1 DEF BookInv, Ids, Broker!OrderIds
<1> QED  BY <1>1, <1>2, <1>3, <1>4, <1>5, <1>6, <1>7 DEF BookInv

\* An arriving quote keeps the book.
LEMMA QuoteBook ==
    ASSUME BookInv, NEW t \in AllTasks, Broker!QuoteArrives(t), author' = author
    PROVE  BookInv'
<1>1. /\ task[t].pc = "fetch"
      /\ Settled(task[t].id) /\ task[t].id \in Ids
      /\ task' = [u \in AllTasks |-> task'[u]]
      /\ \A u \in AllTasks \ {t} : task'[u] = task[u]
      /\ task'[t].pc # "fetch"
      /\ placed' = placed
  BY QuoteEffect
<1>2. \A u \in AllTasks : task'[u].pc = "fetch" => u # t /\ task'[u] = task[u]
  BY <1>1
<1>3. \A id \in Ids : Broker!Open(id)' => Broker!Open(id)
  BY <1>1 DEF Settled, Broker!Open
<1>4. /\ placed' \in Nat /\ placed' <= MaxOrders
      /\ order' = [id \in Ids |-> order'[id]]
      /\ author' = [id \in Ids |-> author'[id]]
  BY <1>1 DEF BookInv, Settled
<1>5. \A u \in AllTasks : task'[u].pc = "fetch" => task'[u].id \in 1 .. placed'
  BY <1>1, <1>2 DEF BookInv
<1>6. \A u \in ApiTasks : task'[u].pc = "fetch" => author'[task'[u].id] = "api"
  BY <1>2 DEF BookInv, AllTasks
<1>7. \A id \in Ids : Broker!Open(id)' => id <= placed' /\ author'[id] = "api"
  BY <1>1, <1>3 DEF BookInv
<1> QED  BY <1>1, <1>4, <1>5, <1>6, <1>7 DEF BookInv

\* An order for the book comes in through the API.
LEMMA PlacePendingBook ==
    ASSUME BookInv, NEW r, Broker!PlacePending(r),
           author' = [author EXCEPT ![placed'] = "api"]
    PROVE  /\ BookInv'
           /\ \A id \in Ids \ {placed'} : order'[id] = order[id]
           /\ placed' \in Ids
<1> DEFINE rec == [Broker!NoOrder EXCEPT !.status = "submitted",
                                         !.quantity = r.quantity,
                                         !.limit = r.trigger]
<1>1. /\ placed < MaxOrders /\ placed' = placed + 1 /\ task' = task
      /\ order' = [order EXCEPT ![placed'] = rec]
  BY DEF Broker!PlacePending
<1> HIDE DEF rec
<1>2. placed' \in Ids /\ placed' \in Nat /\ placed' <= MaxOrders
  BY <1>1, SystemConstants DEF BookInv, Ids, Broker!OrderIds
<1>3. /\ author' = [id \in Ids |-> author'[id]] /\ author'[placed'] = "api"
      /\ \A id \in Ids \ {placed'} : author'[id] = author[id]
  BY <1>2 DEF BookInv
<1>4. /\ order' = [id \in Ids |-> order'[id]]
      /\ \A id \in Ids \ {placed'} : order'[id] = order[id]
  BY <1>1, <1>2 DEF BookInv
<1>5. \A u \in AllTasks : task'[u].pc = "fetch" => task'[u].id \in 1 .. placed'
  BY <1>1 DEF BookInv
<1>6. \A u \in ApiTasks : task'[u].pc = "fetch" => author'[task'[u].id] = "api"
  <2>1. \A u \in ApiTasks : task[u].pc = "fetch" => task[u].id \in Ids \ {placed'}
    BY <1>1, FetchedIds DEF AllTasks
  <2> QED  BY <1>1, <1>3, <2>1 DEF BookInv
<1>7. ASSUME NEW id \in Ids, Broker!Open(id)'
      PROVE  id <= placed' /\ author'[id] = "api"
  <2>1. CASE id = placed'
    BY <1>2, <1>3, <2>1
  <2>2. CASE id # placed'
    <3>1. Broker!Open(id)
      BY <1>4, <1>7, <2>2 DEF Broker!Open
    <3> QED  BY <1>1, <1>3, <2>2, <3>1 DEF BookInv, Ids, Broker!OrderIds
  <2> QED  BY <2>1, <2>2
<1>8. BookInv'
  BY <1>1, <1>2, <1>3, <1>4, <1>5, <1>6, <1>7 DEF BookInv
<1> QED  BY <1>2, <1>4, <1>8

\* DELETE /orders/{id}: only an open order, and only that one, changes.
LEMMA CancelBook ==
    ASSUME BookInv, NEW id \in Ids, Broker!CancelOrder(id), author' = author
    PROVE  /\ BookInv'
           /\ author[id] = "api"
           /\ \A j \in Ids \ {id} : order'[j] = order[j]
<1>1. /\ Broker!Open(id)
      /\ order' = [order EXCEPT ![id].status = "cancelled"]
      /\ UNCHANGED <<placed, task>>
  BY DEF Broker!CancelOrder
<1>2. \A j \in Ids \ {id} : order'[j] = order[j]
  BY <1>1 DEF BookInv
<1>3. \A j \in Ids : Broker!Open(j)' => Broker!Open(j)
  BY <1>1, <1>2 DEF Broker!Open
<1>4. order' = [j \in Ids |-> order'[j]]
  BY <1>1 DEF BookInv
<1>5. BookInv'
  BY <1>1, <1>3, <1>4 DEF BookInv
<1> QED  BY <1>1, <1>2, <1>5 DEF BookInv

\* Steps that touch neither the orders nor their authors keep the book; so
\* does a task that gives up the order it was to execute.
LEMMA BookUnchanged ==
    ASSUME BookInv, author' = author,
           \/ UNCHANGED broker
           \/ \E t \in AllTasks : Broker!AbandonPlace(t)
    PROVE  BookInv' /\ order' = order
<1>1. CASE UNCHANGED broker
  BY <1>1 DEF BookInv, broker, Broker!Open
<1>2. ASSUME NEW t \in AllTasks, Broker!AbandonPlace(t)
      PROVE  BookInv' /\ order' = order
  <2>1. /\ task' = [task EXCEPT ![t] = Broker!Idle] /\ Broker!Idle.pc # "fetch"
        /\ UNCHANGED <<order, placed>>
    BY <1>2 DEF Broker!AbandonPlace, Broker!account, Broker!Idle
  <2>2. /\ task' = [u \in AllTasks |-> task'[u]]
        /\ \A u \in AllTasks : task'[u].pc = "fetch" => task'[u] = task[u]
    BY <2>1 DEF BookInv
  <2>3. \A u \in ApiTasks : task'[u].pc = "fetch" => task'[u] = task[u]
    BY <2>2 DEF AllTasks
  <2> QED  BY <2>1, <2>2, <2>3 DEF BookInv, Broker!Open
<1> QED  BY <1>1, <1>2

\* Every REST request keeps the book and leaves the loop's orders alone.
LEMMA ApiStep ==
    ASSUME BookInv, Api
    PROVE  /\ BookInv'
           /\ \A id \in Ids : author'[id] = "loop" =>
                author[id] = "loop" /\ order'[id] = order[id]
<1>1. ASSUME NEW t \in ApiTasks, NEW r \in ApiRequests, ApiPlace(t, r),
             Broker!PlaceMarket(t, r)
      PROVE  /\ BookInv'
             /\ \A id \in Ids : author'[id] = "loop" =>
                  author[id] = "loop" /\ order'[id] = order[id]
  <2>1. t \in AllTasks /\ author' = [author EXCEPT ![placed'] = "api"]
    BY <1>1 DEF AllTasks, ApiPlace
  <2>2. BookInv'
    BY <1>1, <2>1, PlaceMarketBook
  <2>3. /\ placed + 1 \in Ids /\ placed' = placed + 1
        /\ order' = order \/ Settled(placed + 1)
    BY <1>1, <2>1, PlaceMarketEffect
  <2>4. /\ author'[placed + 1] = "api"
        /\ \A id \in Ids \ {placed + 1} : author'[id] = author[id]
    BY <2>1, <2>3 DEF BookInv
  <2> QED  BY <2>2, <2>3, <2>4 DEF Settled
<1>2. ASSUME NEW t \in ApiTasks, NEW r \in ApiRequests, ApiPlace(t, r),
             Broker!PlacePending(r)
      PROVE  /\ BookInv'
             /\ \A id \in Ids : author'[id] = "loop" =>
                  author[id] = "loop" /\ order'[id] = order[id]
  <2>1. author' = [author EXCEPT ![placed'] = "api"]
    BY <1>2 DEF ApiPlace
  <2>2. /\ BookInv' /\ placed' \in Ids
        /\ \A id \in Ids \ {placed'} : order'[id] = order[id]
    BY <1>2, <2>1, PlacePendingBook
  <2>3. /\ author'[placed'] = "api"
        /\ \A id \in Ids \ {placed'} : author'[id] = author[id]
    BY <2>1, <2>2 DEF BookInv
  <2> QED  BY <2>2, <2>3
<1>3. ASSUME NEW t \in ApiTasks, ApiOrderReturns(t)
      PROVE  /\ BookInv'
             /\ \A id \in Ids : author'[id] = "loop" =>
                  author[id] = "loop" /\ order'[id] = order[id]
  <2>1. t \in AllTasks /\ Broker!QuoteArrives(t) /\ author' = author
    BY <1>3 DEF AllTasks, ApiOrderReturns
  <2>2. BookInv' /\ task[t].pc = "fetch" /\ Settled(task[t].id)
    BY <2>1, QuoteBook, QuoteEffect
  <2>3. author[task[t].id] = "api"
    BY <2>2 DEF BookInv
  <2> QED  BY <2>1, <2>2, <2>3 DEF Settled
<1>4. ASSUME NEW j \in Ids, ApiCancel(j)
      PROVE  /\ BookInv'
             /\ \A id \in Ids : author'[id] = "loop" =>
                  author[id] = "loop" /\ order'[id] = order[id]
  <2>1. Broker!CancelOrder(j) /\ author' = author
    BY <1>4 DEF ApiCancel
  <2> QED  BY <2>1, CancelBook
<1> QED  BY <1>1, <1>2, <1>3, <1>4 DEF Api, ApiPlace, Ids

\* Every step keeps the book.
LEMMA BookNext == BookInv /\ [Next]_vars => BookInv'
<1> SUFFICES ASSUME BookInv, [Next]_vars PROVE BookInv'
  OBVIOUS
<1>1. CASE Lifecycle
  <2>1. UNCHANGED <<broker, author>>
    BY <1>1 DEF Lifecycle, Startup, Launch, Start, Shutdown, Signal, Stop, Kill, Exit
  <2> QED  BY <2>1, BookUnchanged
<1>2. CASE Api
  BY <1>2, ApiStep
<1>3. ASSUME NEW l \in Loops, LoopStep(l) PROVE BookInv'
  <2>0. l \in AllTasks /\ l \notin ApiTasks
    BY SystemConstants DEF AllTasks
  <2>1. CASE Wake(l) \/ NoTrade(l)
    BY <2>1, BookUnchanged DEF Wake, NoTrade
  <2>2. CASE Trade(l)
    <3>1. PICK r : Broker!PlaceMarket(l, r)
      BY <2>2 DEF Trade
    <3>2. author' = [author EXCEPT ![placed'] = "loop"]
      BY <2>2 DEF Trade
    <3> QED  BY <2>0, <3>1, <3>2, PlaceMarketBook
  <2>3. CASE OrderReturns(l)
    BY <2>0, <2>3, QuoteBook DEF OrderReturns
  <2>4. CASE LoopEnds(l)
    BY <2>0, <2>4, BookUnchanged DEF LoopEnds
  <2> QED  BY <1>3, <2>1, <2>2, <2>3, <2>4 DEF LoopStep
<1>4. CASE UNCHANGED vars
  BY <1>4, BookUnchanged DEF vars
<1> QED  BY <1>1, <1>2, <1>3, <1>4 DEF Next

\* Initially there are no orders.
LEMMA BookInit == Init => BookInv
BY SystemConstants
   DEF Init, BookInv, Ids, AllTasks, Broker!Init, Broker!Idle, Broker!NoOrder, Broker!Open

\* No step of a halted engine completes or adds an order of the loop.
LEMMA HaltedStep ==
    ASSUME LoopInv, BookInv, Next, ~running
    PROVE  \A id \in Ids : author'[id] = "loop" =>
             author[id] = "loop" /\ order'[id] = order[id]
<1>1. ASSUME author' = author, order' = order
      PROVE  \A id \in Ids : author'[id] = "loop" =>
               author[id] = "loop" /\ order'[id] = order[id]
  BY <1>1
<1>2. CASE Lifecycle
  <2>1. UNCHANGED <<broker, author>>
    BY <1>2 DEF Lifecycle, Startup, Launch, Start, Shutdown, Signal, Stop, Kill, Exit
  <2> QED  BY <1>1, <2>1 DEF broker
<1>3. CASE Api
  BY <1>3, ApiStep
<1>4. ASSUME NEW l \in Loops, LoopStep(l)
      PROVE  \A id \in Ids : author'[id] = "loop" =>
               author[id] = "loop" /\ order'[id] = order[id]
  <2>1. ~Alive(l)
    BY DEF LoopInv, OneLoopTrades
  <2>2. ~Trade(l) /\ ~OrderReturns(l)
    BY <2>1 DEF Trade, OrderReturns, Alive
  <2>3. CASE Wake(l) \/ NoTrade(l)
    BY <1>1, <2>3 DEF Wake, NoTrade, broker
  <2>4. CASE LoopEnds(l)
    BY <1>1, <2>4, BookUnchanged DEF LoopEnds, AllTasks
  <2> QED  BY <1>4, <2>2, <2>3, <2>4 DEF LoopStep
<1> QED  BY <1>2, <1>3, <1>4 DEF Next

\* After a stop or a kill, until the next start, the automated side neither
\* places an order nor completes one that was waiting for its quote.
THEOREM HaltedMeansQuiet == Spec => HaltedEngineIsQuiet
<1>1. LoopInv /\ BookInv /\ [Next]_vars =>
        [~running => \A id \in Ids : author'[id] = "loop" =>
           author[id] = "loop" /\ order'[id] = order[id]]_vars
  BY HaltedStep
<1>2. HaltedEngineIsQuiet <=>
        [][~running => \A id \in Ids : author'[id] = "loop" =>
             author[id] = "loop" /\ order'[id] = order[id]]_vars
  BY DEF HaltedEngineIsQuiet, Ids
<1> QED  BY <1>1, <1>2, LoopInit, LoopNext, BookInit, BookNext, PTL DEF Spec
-----------------------------------------------------------------------------
(* Open positions *)

PositionsOK == position = [s \in Symbols |-> position[s]]

NoApi == \A id \in Ids : author[id] # "api"

\* While a live loop's order waits for its quote there is room for one more
\* position.
LimitInv ==
    /\ PositionsOK
    /\ NoApi =>
         /\ Cardinality(HeldSymbols) <= MaxOpenPositions
         /\ \A l \in Loops : Alive(l) /\ loop[l].pc = "order" =>
              Cardinality(HeldSymbols) < MaxOpenPositions

\* The number of held symbols is a number, and one more symbol adds one.
LEMMA HeldCount ==
    ASSUME NEW S \in SUBSET Symbols, NEW T \in SUBSET Symbols, NEW x
    PROVE  /\ Cardinality(S) \in Nat
           /\ T \subseteq S => Cardinality(T) <= Cardinality(S)
           /\ T \subseteq S \cup {x} => Cardinality(T) <= Cardinality(S) + 1
<1>1. IsFiniteSet(S) /\ IsFiniteSet(S \cup {x})
  BY SystemConstants, FS_Subset, FS_AddElement
<1>2. /\ Cardinality(S) \in Nat /\ Cardinality(S \cup {x}) \in Nat
      /\ Cardinality(S \cup {x}) <= Cardinality(S) + 1
  <2>1. Cardinality(S) \in Nat /\ Cardinality(S \cup {x}) \in Nat
    BY <1>1, FS_CardinalityType
  <2>2. IsFiniteSet(S)
    BY <1>1
  <2>3. Cardinality(S \cup {x}) = IF x \in S THEN Cardinality(S)
                                             ELSE Cardinality(S) + 1
    BY <2>2, FS_AddElement
  <2> QED  BY <2>1, <2>3
<1>3. T \subseteq S => Cardinality(T) <= Cardinality(S)
  BY <1>1, FS_Subset
<1>4. T \subseteq S \cup {x} => /\ Cardinality(T) <= Cardinality(S \cup {x})
                                /\ Cardinality(T) \in Nat
  BY <1>1, FS_Subset, FS_CardinalityType
<1> QED  BY <1>2, <1>3, <1>4

\* An execution touches the position in its own symbol only.
LEMMA ExecuteHolds ==
    ASSUME PositionsOK, NEW id, NEW r, NEW ref, Broker!Execute(id, r, ref)
    PROVE  PositionsOK' /\ HeldSymbols' \subseteq HeldSymbols \cup {r.symbol}
<1>1. PICK f : Broker!Reject(id, r) \/ Broker!Fill(id, r, f)
  BY DEF Broker!Execute
<1>2. CASE Broker!Reject(id, r)
  BY <1>2 DEF Broker!Reject, PositionsOK, HeldSymbols
<1>3. CASE Broker!Fill(id, r, f)
  <2> DEFINE new == Broker!NewPosition(position[r.symbol], r, f)
  <2>1. position' = [position EXCEPT ![r.symbol] = new]
    BY <1>3 DEF Broker!Fill
  <2> HIDE DEF new
  <2> QED  BY <2>1 DEF PositionsOK, HeldSymbols
<1> QED  BY <1>1, <1>2, <1>3

\* An order that does not wait for a quote is for a symbol that is held.
LEMMA PlaceMarketHolds ==
    ASSUME PositionsOK, NEW t, NEW r, Broker!PlaceMarket(t, r)
    PROVE  PositionsOK' /\ HeldSymbols' \subseteq HeldSymbols
<1>1. Broker!StartExecution(t, placed + 1, r, {})
  BY DEF Broker!PlaceMarket
<1>2. CASE Broker!NeedsQuote(r.symbol)
  <2>1. position' = position
    BY <1>1, <1>2 DEF Broker!StartExecution, Broker!account
  <2> QED  BY <2>1 DEF PositionsOK, HeldSymbols
<1>3. CASE ~Broker!NeedsQuote(r.symbol)
  <2>1. Broker!Execute(placed + 1, r, Broker!KnownPrice(r.symbol))
    BY <1>1, <1>3 DEF Broker!StartExecution
  <2>2. r.symbol \in Symbols => r.symbol \in HeldSymbols
    BY <1>3 DEF Broker!NeedsQuote, Broker!Held, HeldSymbols
  <2>3. /\ PositionsOK' /\ HeldSymbols' \subseteq Symbols
        /\ HeldSymbols' \subseteq HeldSymbols \cup {r.symbol}
    BY <2>1, ExecuteHolds DEF HeldSymbols
  <2> QED  BY <2>2, <2>3
<1> QED  BY <1>2, <1>3

\* A step after which no more symbols are held, and no live loop waits for a
\* quote that did not wait before, keeps the invariant.
LEMMA LimitUnchanged ==
    ASSUME LimitInv, UNCHANGED <<position, author>>,
           \A l \in Loops : Alive(l)' /\ loop'[l].pc = "order" =>
                              Alive(l) /\ loop[l].pc = "order"
    PROVE  LimitInv'
BY DEF LimitInv, PositionsOK, NoApi, HeldSymbols

\* Neither the lifecycle nor a cancellation moves a position.
LEMMA LifecycleLimit ==
    ASSUME LoopInv, LimitInv, Lifecycle
    PROVE  LimitInv'
<1>1. UNCHANGED <<position, author>>
  BY DEF Lifecycle, Startup, Launch, Start, Shutdown, Signal, Stop, Kill, Exit, broker
<1>2. UNCHANGED monitor \/ MonitorStart \/ MonitorStop
  BY DEF Lifecycle, Startup, Launch, Start, Shutdown, Signal, Stop, Kill, Exit,
         EngineStart, EngineStop
<1>3. CASE UNCHANGED monitor
  BY <1>1, <1>3, LimitUnchanged DEF monitor, Alive
<1>4. CASE MonitorStart
  <2>1. PICK l \in Loops : loop' = [loop EXCEPT ![l] = AtStart]
    BY <1>4 DEF MonitorStart
  <2>2. cancelled' = cancelled
    BY <1>4 DEF MonitorStart
  <2>3. loop'[l].pc # "order" /\ \A m \in Loops \ {l} : loop'[m] = loop[m]
    BY <2>1 DEF LoopInv, AtStart
  <2> QED  BY <1>1, <2>2, <2>3, LimitUnchanged DEF Alive
<1>5. CASE MonitorStop
  <2>1. loop' = loop /\ cancelled \subseteq cancelled'
    BY <1>5 DEF MonitorStop
  <2> QED  BY <1>1, <2>1, LimitUnchanged DEF Alive
<1> QED  BY <1>2, <1>3, <1>4, <1>5

\* An order that came in through the API ends the promise; cancelling an
\* order moves no position.
LEMMA ApiLimit ==
    ASSUME BookInv, LimitInv, Api
    PROVE  LimitInv'
<1>1. ASSUME NEW t \in ApiTasks, NEW r \in ApiRequests, ApiPlace(t, r)
      PROVE  LimitInv'
  <2>1. author' = [author EXCEPT ![placed'] = "api"]
    BY <1>1 DEF ApiPlace
  <2>2. placed' \in Ids /\ PositionsOK'
    <3>1. CASE Broker!PlaceMarket(t, r)
      BY <3>1, PlaceMarketHolds, PlaceMarketEffect DEF LimitInv, AllTasks
    <3>2. CASE Broker!PlacePending(r)
      BY <2>1, <3>2, PlacePendingBook DEF LimitInv, PositionsOK, Broker!PlacePending
    <3> QED  BY <1>1, <3>1, <3>2 DEF ApiPlace
  <2>3. ~NoApi'
    BY <2>1, <2>2 DEF NoApi, BookInv
  <2> QED  BY <2>2, <2>3 DEF LimitInv
<1>2. ASSUME NEW t \in ApiTasks, ApiOrderReturns(t)
      PROVE  LimitInv'
  <2>1. Broker!QuoteArrives(t) /\ author' = author /\ t \in AllTasks
    BY <1>2 DEF ApiOrderReturns, AllTasks
  <2>2. author[task[t].id] = "api" /\ task[t].id \in Ids
    BY <2>1, QuoteEffect DEF BookInv
  <2>3. PICK ref : Broker!Execute(task[t].id, request[task[t].id], ref)
    BY <2>1 DEF Broker!QuoteArrives
  <2>4. PositionsOK'
    BY <2>3, ExecuteHolds DEF LimitInv
  <2> QED  BY <2>1, <2>2, <2>4 DEF LimitInv, NoApi
<1>3. ASSUME NEW j \in Ids, ApiCancel(j)
      PROVE  LimitInv'
  <2>1. UNCHANGED <<position, author, monitor>>
    BY <1>3 DEF ApiCancel, Broker!CancelOrder
  <2> QED  BY <2>1, LimitUnchanged DEF monitor, Alive
<1> QED  BY <1>1, <1>2, <1>3 DEF Api, Ids

\* A live loop is the only one, so that no other one waits for a quote.
LEMMA TheOnlyOne ==
    ASSUME LoopInv, NEW l \in Loops, Alive(l), NEW next,
           loop' = [loop EXCEPT ![l] = next], cancelled' = cancelled,
           NEW m \in Loops, Alive(m)'
    PROVE  m = l /\ loop'[l] = next
BY DEF LoopInv, OneLoopTrades, Alive

\* The steps of a loop.
LEMMA LoopLimit ==
    ASSUME LoopInv, BookInv, LimitInv, NEW l \in Loops, LoopStep(l)
    PROVE  LimitInv'
<1>0. /\ HeldSymbols \subseteq Symbols /\ HeldSymbols' \subseteq Symbols
      /\ Cardinality(HeldSymbols) \in Nat /\ Cardinality(HeldSymbols') \in Nat
      /\ MaxOpenPositions \in Nat
  BY HeldCount, SystemConstants DEF HeldSymbols
<1>1. ASSUME NEW next, next.pc # "order", loop' = [loop EXCEPT ![l] = next],
             UNCHANGED <<position, author>>, cancelled' \in {cancelled, cancelled \ {l}}
      PROVE  LimitInv'
  <2>1. loop'[l].pc # "order" /\ \A m \in Loops \ {l} : loop'[m] = loop[m]
    BY <1>1 DEF LoopInv
  <2> QED  BY <1>1, <2>1, LimitUnchanged DEF Alive
<1>2. \A n : NextSymbol(n).pc # "order"
  BY DEF NextSymbol
<1>3. CASE Wake(l)
  <2>1. (IF running THEN AtStart ELSE Off).pc # "order"
    BY DEF AtStart, Off
  <2> QED  BY <1>1, <1>3, <2>1 DEF Wake, broker
<1>4. CASE NoTrade(l)
  <2>1. loop' = [loop EXCEPT ![l] = NextSymbol(loop[l].at)]
    BY <1>4 DEF NoTrade
  <2> QED  BY <1>1, <1>2, <1>4, <2>1 DEF NoTrade, broker
<1>5. CASE LoopEnds(l)
  <2>1. UNCHANGED <<position, author>>
    BY <1>5 DEF LoopEnds, Broker!AbandonPlace, Broker!account, broker
  <2>2. Off.pc # "order"
    BY DEF Off
  <2> QED  BY <1>1, <1>5, <2>1, <2>2 DEF LoopEnds
<1>6. CASE Trade(l)
  <2> DEFINE s == Watchlist[loop[l].at]
  <2>1. PICK d, q : /\ Gate!Approves(OrderFor(s, d, q), Account)
                    /\ Broker!PlaceMarket(l, OrderFor(s, d, q))
    BY <1>6 DEF Trade
  <2>2. Cardinality(HeldSymbols) < MaxOpenPositions
    BY <2>1 DEF Gate!Approves, Gate!OpenPositionsOK, Account
  <2>3. PositionsOK' /\ HeldSymbols' \subseteq HeldSymbols
    BY <2>1, PlaceMarketHolds DEF LimitInv
  <2>4. Cardinality(HeldSymbols') <= Cardinality(HeldSymbols)
    BY <1>0, <2>3, HeldCount
  <2> QED  BY <1>0, <2>2, <2>3, <2>4 DEF LimitInv
<1>7. CASE OrderReturns(l)
  <2>1. /\ loop[l].pc = "order" /\ Alive(l) /\ author' = author
        /\ loop' = [loop EXCEPT ![l] = NextSymbol(loop[l].at)]
        /\ cancelled' = cancelled
    BY <1>7 DEF OrderReturns, Alive
  <2>2. PICK ref : Broker!Execute(task[l].id, request[task[l].id], ref)
    BY <1>7 DEF OrderReturns, Broker!QuoteArrives
  <2>3. PositionsOK' /\ HeldSymbols' \subseteq HeldSymbols \cup {request[task[l].id].symbol}
    BY <2>2, ExecuteHolds DEF LimitInv
  <2>4. Cardinality(HeldSymbols') <= Cardinality(HeldSymbols) + 1
    BY <1>0, <2>3, HeldCount
  <2>5. NoApi' => Cardinality(HeldSymbols) < MaxOpenPositions
    BY <2>1 DEF LimitInv, NoApi
  <2>6. \A m \in Loops : Alive(m)' => loop'[m].pc # "order"
    BY <1>2, <2>1, TheOnlyOne
  <2> QED  BY <1>0, <2>3, <2>4, <2>5, <2>6 DEF LimitInv
<1> QED  BY <1>3, <1>4, <1>5, <1>6, <1>7 DEF LoopStep

\* Initially nothing is held.
LEMMA LimitInit == Init => LimitInv
<1> SUFFICES ASSUME Init PROVE LimitInv
  OBVIOUS
<1>1. HeldSymbols = {} /\ PositionsOK
  BY DEF Init, Broker!Init, Broker!Flat, HeldSymbols, PositionsOK
<1>2. \A l \in Loops : ~Alive(l)
  BY DEF Init, Off, Alive
<1> QED  BY <1>1, <1>2, SystemConstants, FS_EmptySet DEF LimitInv

\* As long as no order came in through the API, the loop never holds more
\* symbols than allowed, although an order waits for its quote after the gate
\* has counted the positions: one loop trades, one order at a time.
THEOREM PositionsAreLimited == Spec => []OpenPositionsWithinLimit
<1>1. LoopInv /\ BookInv /\ LimitInv /\ [Next]_vars => LimitInv'
  <2>1. ASSUME LimitInv, UNCHANGED vars
        PROVE  LimitInv'
    BY <2>1, LimitUnchanged DEF vars, broker, monitor, Alive
  <2> QED  BY <2>1, LifecycleLimit, ApiLimit, LoopLimit DEF Next
<1>2. LimitInv => OpenPositionsWithinLimit
  BY DEF LimitInv, NoApi, OpenPositionsWithinLimit, Ids
<1> QED  BY <1>1, <1>2, LimitInit, LoopInit, LoopNext, BookInit, BookNext, PTL DEF Spec

-----------------------------------------------------------------------------
(* The broker in the running process *)

\* The broker whose callers may submit any order, with its theorems.
Process == INSTANCE PaperBrokerProofs
             WITH Tasks <- Loops \cup ApiTasks, Requests <- Broker!Request,
                  Prices <- Quotes, Updates <- {}, HasProvider <- TRUE

\* The constants of the process are such as the broker's theorems assume.
LEMMA ProcessConstants ==
    /\ MaxOrders \in Nat
    /\ Broker!Request \subseteq Process!Request
    /\ {} \subseteq Process!Update
    /\ NoRequest \notin Broker!Request
    /\ Quotes \subseteq Nat
    /\ Placeholder \in Nat
    /\ TRUE \in BOOLEAN
    /\ InitialCapital \in Nat
    /\ CommissionPct \in 0 .. 100
    /\ HalfSpread \in Nat
    /\ MaxSlippage \in Nat
BY SystemConstants, RequestConstants
   DEF Broker!Request, Process!Request, Quotes, Broker!Sides, Broker!Types,
       Process!Sides, Process!Types

\* A whole number nearest to n / d is off by half at most.
LEMMA NearestBounds ==
    ASSUME NEW n \in Int, NEW d \in Int, d > 0, NEW q \in Nearest(n, d)
    PROVE  q \in Int /\ 2 * (q * d) >= 2 * n - d
<1>1. n \div d \in Int
  OBVIOUS
<1>2. q \in Int /\ 2 * q * d - 2 * n >= -d
  BY <1>1 DEF Nearest
<1> QED  BY <1>2

\* The largest and the smallest of two numbers.
LEMMA MaxMinOfTwo ==
    ASSUME NEW a \in Int, NEW b \in Int
    PROVE  /\ Max({a, b}) \in {a, b} /\ Max({a, b}) >= a /\ Max({a, b}) >= b
           /\ Min({a, b}) \in {a, b}
<1>1. \E x \in {a, b} : \A y \in {a, b} : x >= y
  OBVIOUS
<1>2. \E x \in {a, b} : \A y \in {a, b} : x =< y
  OBVIOUS
<1> QED  BY <1>1, <1>2 DEF Max, Min

\* A quantity is the smaller of two, but a share at least.
LEMMA SizeOfTwo ==
    ASSUME NEW E \in Int, NEW p \in Int, p > 0, E > 0, NEW q \in PositionSizes(E, p)
    PROVE  \E byRisk \in Nearest(MaxLossPerTradePct * E, 10000 * (p \div 20)),
              bySize \in Nearest(MaxPositionPct * E, 10000 * p) :
             q = SizeWithin(byRisk, bySize)
BY DEF PositionSizes

\* The smaller of two quantities is one of them, or a share.
LEMMA SizeWithinBounds ==
    ASSUME NEW a \in Int, NEW b \in Int
    PROVE  /\ SizeWithin(a, b) \in Int /\ SizeWithin(a, b) >= Share
           /\ SizeWithin(a, b) >= a \/ SizeWithin(a, b) >= b
<1> DEFINE least == Min({a, b})
<1>1. least \in Int /\ (least = a \/ least = b)
  <2>1. least \in {a, b}
    BY MaxMinOfTwo
  <2> QED  BY <2>1
<1>2. SizeWithin(a, b) = Max({Share, least}) /\ Share \in Int
  BY SystemConstants DEF SizeWithin
<1> HIDE DEF least
<1>3. Max({Share, least}) \in {Share, least} /\ Max({Share, least}) >= Share
      /\ Max({Share, least}) >= least
  BY <1>1, <1>2, MaxMinOfTwo
<1> QED  BY <1>1, <1>2, <1>3

\* The quantity of an order is an integer.
LEMMA SizeType ==
    ASSUME NEW E \in Int, NEW p \in Quotes, NEW q \in PositionSizes(E, p)
    PROVE  q \in Int /\ (p = 0 => q = Share)
<1>1. CASE p = 0 \/ E <= 0
  <2>1. q = Share
    BY <1>1 DEF PositionSizes
  <2> QED  BY <2>1, SystemConstants
<1>2. CASE p # 0 /\ E > 0
  <2> DEFINE n == MaxLossPerTradePct * E  m == MaxPositionPct * E
             c == 10000 * (p \div 20)  d == 10000 * p
  <2>1. p \in Int /\ p > 0 /\ p \div 20 > 0 /\ p \div 20 \in Int
    BY <1>2, SystemConstants DEF Quotes
  <2>2. n \in Int /\ m \in Int /\ c \in Int /\ d \in Int /\ c > 0 /\ d > 0
    BY <2>1, SystemConstants
  <2>3. PICK a \in Nearest(n, c), b \in Nearest(m, d) : q = SizeWithin(a, b)
    BY <1>2, <2>1, SizeOfTwo
  <2> HIDE DEF n, m, c, d
  <2>4. a \in Int /\ b \in Int
    BY <2>2, <2>3, NearestBounds
  <2> QED  BY <1>2, <2>3, <2>4, SizeWithinBounds
<1> QED  BY <1>1, <1>2

\* The process starts with the broker's initial state.
LEMMA ProcessInit == Init => Process!Init
BY DEF Init, Broker!Init, Process!Init, Broker!Flat, Process!Flat, Broker!Zero,
       Process!Zero, Broker!NoOrder, Process!NoOrder, Broker!Idle, Process!Idle,
       Broker!OrderIds, Process!OrderIds

\* Nobody holds the event loop in one of the two instances but in the other.
LEMMA SameFree == Broker!LoopFree = Process!LoopFree
BY DEF Broker!LoopFree, Process!LoopFree

\* Control states, ids and validity are the same in both.
LEMMA SameTables ==
    /\ Broker!Idle = Process!Idle /\ Broker!OrderIds = Process!OrderIds
    /\ \A x : Broker!Looping(x) = Process!Looping(x)
    /\ \A r : Broker!ValidOrder(r) = Process!ValidOrder(r)
BY DEF Broker!Idle, Process!Idle, Broker!OrderIds, Process!OrderIds, Broker!Looping,
       Process!Looping, Broker!ValidOrder, Process!ValidOrder

\* _execute_market_order does the same in both.
LEMMA SameExecute ==
    ASSUME NEW id, NEW r, NEW p, Broker!Execute(id, r, p)
    PROVE  Process!Execute(id, r, p)
BY DEF Broker!Execute, Process!Execute, Broker!FillPrices, Process!FillPrices,
       Broker!Floor, Process!Floor, Broker!Reject, Process!Reject, Broker!Fill,
       Process!Fill, Broker!CashFlow, Process!CashFlow, Broker!OrderValue,
       Process!OrderValue, Broker!Commission, Process!Commission, Broker!NoOrder,
       Process!NoOrder, Broker!NewPosition, Process!NewPosition, Broker!SignedQty,
       Process!SignedQty, Broker!Flat, Process!Flat, Broker!Zero, Process!Zero

\* So does the start of an execution.
LEMMA SameStart ==
    ASSUME NEW t, NEW id, NEW r, NEW todo, Broker!StartExecution(t, id, r, todo)
    PROVE  Process!StartExecution(t, id, r, todo)
<1>1. /\ Broker!NeedsQuote(r.symbol) = Process!NeedsQuote(r.symbol)
      /\ Broker!KnownPrice(r.symbol) = Process!KnownPrice(r.symbol)
      /\ Broker!Fetching(id, todo) = Process!Fetching(id, todo)
  BY DEF Broker!NeedsQuote, Process!NeedsQuote, Broker!KnownPrice, Process!KnownPrice,
         Broker!Held, Process!Held, Broker!Fetching, Process!Fetching
<1>2. CASE Broker!NeedsQuote(r.symbol)
  BY <1>1, <1>2 DEF Broker!StartExecution, Process!StartExecution, Broker!account,
     Process!account
<1>3. CASE ~Broker!NeedsQuote(r.symbol)
  <2>1. /\ Broker!Execute(id, r, Broker!KnownPrice(r.symbol))
        /\ task' = [task EXCEPT ![t] = Broker!Looping(todo)]
    BY <1>3 DEF Broker!StartExecution
  <2>2. Process!Execute(id, r, Process!KnownPrice(r.symbol))
    BY <1>1, <2>1, SameExecute
  <2> QED  BY <1>1, <1>3, <2>1, <2>2, SameTables DEF Process!StartExecution
<1> QED  BY <1>2, <1>3

\* The steps of the broker that the process takes.
BrokerStep ==
    \/ UNCHANGED broker
    \/ \E r \in Broker!Request : \/ Broker!PlacePending(r)
                                 \/ \E t \in AllTasks : Broker!PlaceMarket(t, r)
    \/ \E t \in AllTasks : Broker!QuoteArrives(t) \/ Broker!AbandonPlace(t)
    \/ \E id \in Ids : Broker!CancelOrder(id)

\* They are steps of the broker as it is specified.
LEMMA BrokerStepIsAllowed ==
    ASSUME BrokerStep
    PROVE  [Process!Next]_(Process!vars)
<1>1. ASSUME NEW r \in Broker!Request, NEW t \in AllTasks, Broker!PlaceMarket(t, r)
      PROVE  Process!Next
  <2>1. Process!PlaceMarket(t, r)
    BY <1>1, SameTables, SameFree, SameStart DEF Broker!PlaceMarket, Process!PlaceMarket
  <2> QED  BY <2>1 DEF Process!Next, Process!Place, AllTasks
<1>2. ASSUME NEW r \in Broker!Request, Broker!PlacePending(r)
      PROVE  Process!Next
  <2>1. Process!PlacePending(r)
    BY <1>2, SameTables, SameFree DEF Broker!PlacePending, Process!PlacePending,
       Broker!NoOrder, Process!NoOrder
  <2> QED  BY <2>1 DEF Process!Next, Process!Place
<1>3. ASSUME NEW t \in AllTasks, Broker!QuoteArrives(t)
      PROVE  Process!Next
  <2>1. Process!QuoteArrives(t)
    BY <1>3, SameTables, SameFree, SameExecute
    DEF Broker!QuoteArrives, Process!QuoteArrives
  <2> QED  BY <2>1 DEF Process!Next, Process!Resume, AllTasks
<1>4. ASSUME NEW t \in AllTasks, Broker!AbandonPlace(t)
      PROVE  Process!Next
  <2>1. Process!AbandonPlace(t)
    BY <1>4, SameTables, SameFree DEF Broker!AbandonPlace, Process!AbandonPlace,
       Broker!account, Process!account
  <2> QED  BY <2>1 DEF Process!Next, Process!Resume, AllTasks
<1>5. ASSUME NEW id \in Ids, Broker!CancelOrder(id)
      PROVE  Process!Next
  <2>1. Process!CancelOrder(id)
    BY <1>5, SameFree DEF Broker!CancelOrder, Process!CancelOrder, Broker!Open,
       Process!Open
  <2> QED  BY <2>1, SameTables DEF Process!Next, Process!Manage, Ids
<1> QED  BY <1>1, <1>2, <1>3, <1>4, <1>5 DEF BrokerStep, broker, Process!vars

\* The account's value is an integer.
LEMMA EquityType ==
    ASSUME Process!IInv
    PROVE  Account.equity \in Int
<1> DEFINE value == [s \in Symbols |-> position[s].qty * position[s].price]
<1>1. DOMAIN value = Symbols /\ \A s \in Symbols : value[s] \in Int
  BY DEF Process!IInv, Process!StateOK, Process!AccountOK, Process!PosRec
<1>2. SumFunction(value) = SumFunctionOnSet(value, Symbols)
  BY <1>1 DEF SumFunction
<1>3. SumFunctionOnSet(value, Symbols) = Process!SumFunctionOnSet(value, Symbols)
  BY DEF SumFunctionOnSet, FoldFunctionOnSet, MapThenFoldSet, Process!SumFunctionOnSet,
         Process!FoldFunctionOnSet, Process!MapThenFoldSet
<1>4. Process!SumFunctionOnSet(value, Symbols) \in Int
  <2>1. Process!IsFiniteSet(Symbols)
    BY SystemConstants DEF IsFiniteSet, Process!IsFiniteSet
  <2> HIDE DEF value
  <2> QED  BY <1>1, <2>1, ProcessConstants, Process!SumType
<1> HIDE DEF value
<1>5. cash + 100 * SumFunction(value) \in Int
  BY <1>2, <1>3, <1>4 DEF Process!IInv, Process!StateOK, Process!AccountOK
<1> QED  BY <1>5 DEF Account, value

\* What the orchestrator makes of a decision is an order the broker takes.
LEMMA LoopOrderIsRequest ==
    ASSUME NEW E \in Int, NEW s \in Symbols, NEW p \in Quotes,
           NEW q \in PositionSizes(E, p), NEW tech, NEW d,
           d = Decision(tech, RiskOpinion(tech), p), d.action # "NEUTRAL"
    PROVE  OrderFor(s, d, q) \in Broker!Request
<1>1. p \in Nat /\ p \div 20 \in Nat /\ p - p \div 20 \in Nat /\ p + p \div 20 \in Nat
  BY SystemConstants DEF Quotes
<1>2. d.stopLoss = p - p \div 20 \/ d.stopLoss = p + p \div 20
  BY DEF Decision
<1>3. q \in Int
  BY SizeType
<1> QED  BY <1>1, <1>2, <1>3 DEF OrderFor, Broker!Request, Broker!Sides, Broker!Types

\* What the process does to the account, the broker does.
LEMMA StepsOfTheProcess ==
    ASSUME LoopInv, Process!IInv, [Next]_vars
    PROVE  BrokerStep
<1>1. CASE UNCHANGED broker
  BY <1>1 DEF BrokerStep
<1>2. CASE Lifecycle
  BY <1>1, <1>2 DEF Lifecycle, Startup, Launch, Start, Shutdown, Signal, Stop, Kill, Exit
<1>3. CASE Api
  <2>1. ASSUME NEW t \in ApiTasks, NEW r \in ApiRequests, ApiPlace(t, r)
        PROVE  BrokerStep
    BY <2>1, RequestConstants DEF ApiPlace, BrokerStep, AllTasks
  <2>2. ASSUME NEW t \in ApiTasks, ApiOrderReturns(t)
        PROVE  BrokerStep
    BY <2>2 DEF ApiOrderReturns, BrokerStep, AllTasks
  <2>3. ASSUME NEW id \in Ids, ApiCancel(id)
        PROVE  BrokerStep
    BY <2>3 DEF ApiCancel, BrokerStep
  <2> QED  BY <1>3, <2>1, <2>2, <2>3 DEF Api, Ids
<1>4. ASSUME NEW l \in Loops, LoopStep(l)
      PROVE  BrokerStep
  <2>1. CASE Wake(l) \/ NoTrade(l)
    BY <1>1, <2>1 DEF Wake, NoTrade
  <2>2. CASE OrderReturns(l) \/ LoopEnds(l)
    BY <1>1, <2>2 DEF OrderReturns, LoopEnds, BrokerStep, AllTasks
  <2>3. CASE Trade(l)
    <3> DEFINE s == Watchlist[loop[l].at]
    <3>1. s \in Symbols
      BY SystemConstants DEF LoopInv, Control
    <3>2. PICK p \in Quotes, direction \in {"buy", "sell", "hold", "no_trade"} :
            LET tech == TechnicalSignal(direction)
                d == Decision(tech, RiskOpinion(tech), p)
            IN  /\ d.action # "NEUTRAL"
                /\ \E q \in PositionSizes(Account.equity, p) :
                     /\ Gate!Approves(OrderFor(s, d, q), Account)
                     /\ Broker!PlaceMarket(l, OrderFor(s, d, q))
      BY <2>3 DEF Trade
    <3> DEFINE tech == TechnicalSignal(direction)
               d == Decision(tech, RiskOpinion(tech), p)
    <3>3. PICK q \in PositionSizes(Account.equity, p) :
            Broker!PlaceMarket(l, OrderFor(s, d, q))
      BY <3>2
    <3>4. d.action # "NEUTRAL"
      BY <3>2
    <3>5. OrderFor(s, d, q) \in Broker!Request
      <4> HIDE DEF s, tech
      <4> QED  BY <3>1, <3>3, <3>4, EquityType, LoopOrderIsRequest
    <3> QED  BY <3>3, <3>5 DEF BrokerStep, AllTasks
  <2> QED  BY <1>4, <2>1, <2>2, <2>3 DEF LoopStep
<1> QED  BY <1>1, <1>2, <1>3, <1>4 DEF Next, vars

\* The broker's invariant holds in the process.
LEMMA ProcessNext ==
    ASSUME LoopInv, Process!IInv, [Next]_vars
    PROVE  Process!IInv' /\ [Process!Next]_(Process!vars)
<1>1. [Process!Next]_(Process!vars)
  BY StepsOfTheProcess, BrokerStepIsAllowed
<1>2. Process!IInv'
  BY <1>1, ProcessConstants, Process!NextLemma
<1> QED  BY <1>1, <1>2

\* The running process runs the broker: whatever lifecycle, loops and REST tasks
\* do to the account is a behaviour of PaperBroker.
THEOREM ProcessRunsTheBroker == Spec => Process!Spec
<1>1. Init => Process!IInv
  BY ProcessInit, ProcessConstants, Process!InitIInv
<1>2. LoopInv /\ Process!IInv /\ [Next]_vars
        => Process!IInv' /\ [Process!Next]_(Process!vars)
  BY ProcessNext
<1> QED  BY <1>1, <1>2, ProcessInit, LoopInit, LoopNext, PTL DEF Spec, Process!Spec

\* Hence whatever interleaving of loop, REST orders and cancellations never
\* overdraws the account, executes an order twice or loses one; cash, positions
\* and all reports of the account are what the records of the orders add up to.
THEOREM ProcessKeepsItsBooks ==
    Spec => [](/\ Process!CashNeverNegative
               /\ Process!ExecutedOnce
               /\ Process!OpenOrdersAreLive
               /\ Process!CashReconciles
               /\ Process!PositionsReconcile
               /\ Process!ReportsAddUp)
<1>1. Process!Spec => []Process!CashNeverNegative
  BY ProcessConstants, Process!NeverOverdrawn
<1>2. Process!Spec => []Process!ExecutedOnce
  BY ProcessConstants, Process!SingleExecution
<1>3. Process!Spec => []Process!OpenOrdersAreLive
  BY ProcessConstants, Process!NoOrderIsLost
<1>4. Process!Spec => []Process!CashReconciles
  BY ProcessConstants, Process!CashIsAccountedFor
<1>5. Process!Spec => []Process!PositionsReconcile
  BY ProcessConstants, Process!PositionsAreAccountedFor
<1>6. Process!Spec => []Process!ReportsAddUp
  BY ProcessConstants, Process!ReportsAgree
<1> QED  BY <1>1, <1>2, <1>3, <1>4, <1>5, <1>6, ProcessRunsTheBroker, PTL

\* And the running process implements the abstract ledger.
THEOREM ProcessImplementsLedger == Spec => Process!ImplementsLedger
<1>1. Process!Spec => Process!ImplementsLedger
  BY ProcessConstants, Process!Refinement
<1> QED  BY <1>1, ProcessRunsTheBroker, PTL

\* An order that is being executed has no record yet.
NoRecordYet ==
    \A t \in AllTasks : task[t].pc = "fetch" => order[task[t].id].status = "none"

\* Nothing in this process reports a price, so that no execution finds the order
\* it took from the book cancelled.
LEMMA CancelledStep ==
    ASSUME BookInv, Process!IInv, NoRecordYet, BrokerStep
    PROVE  /\ NoRecordYet'
           /\ \A id \in Ids : order[id].status = "cancelled" =>
                                order'[id].status = "cancelled"
<1>1. CASE UNCHANGED broker
  BY <1>1 DEF NoRecordYet, broker
<1>2. ASSUME NEW r, Broker!PlacePending(r)
      PROVE  /\ NoRecordYet'
             /\ \A id \in Ids : order[id].status = "cancelled" =>
                                  order'[id].status = "cancelled"
  <2>1. /\ placed' = placed + 1 /\ task' = task /\ placed + 1 \in Ids
        /\ order[placed + 1].status = "none"
        /\ \A id \in Ids \ {placed + 1} : order'[id] = order[id]
    <3>1. placed' = placed + 1 /\ task' = task /\ placed + 1 \in Ids
      BY <1>2, ProcessConstants DEF Broker!PlacePending, BookInv, Ids, Broker!OrderIds
    <3>2. order[placed + 1].status = "none"
      BY <3>1, SameTables DEF Process!IInv, Process!KnownIds, BookInv, Ids
    <3>3. \A id \in Ids \ {placed + 1} : order'[id] = order[id]
      BY <1>2 DEF Broker!PlacePending, BookInv
    <3> QED  BY <3>1, <3>2, <3>3
  <2>2. \A t \in AllTasks : task[t].pc = "fetch" => task[t].id \in Ids \ {placed + 1}
    BY FetchedIds
  <2> QED  BY <2>1, <2>2 DEF NoRecordYet
<1>3. ASSUME NEW r, NEW t \in AllTasks, Broker!PlaceMarket(t, r)
      PROVE  /\ NoRecordYet'
             /\ \A id \in Ids : order[id].status = "cancelled" =>
                                  order'[id].status = "cancelled"
  <2>1. /\ placed + 1 \in Ids
        /\ \A u \in AllTasks \ {t} : task'[u] = task[u]
        /\ \/ order' = order /\ task'[t].id = placed + 1
           \/ Settled(placed + 1) /\ task'[t].pc # "fetch"
    BY <1>3, PlaceMarketEffect
  <2>2. order[placed + 1].status = "none"
    BY <2>1, SameTables DEF Process!IInv, Process!KnownIds, BookInv, Ids
  <2>3. \A u \in AllTasks : task[u].pc = "fetch" => task[u].id \in Ids \ {placed + 1}
    BY FetchedIds
  <2>4. \A id \in Ids \ {placed + 1} : order'[id] = order[id]
    BY <2>1 DEF Settled
  <2>5. ASSUME NEW u \in AllTasks, task'[u].pc = "fetch"
        PROVE  order'[task'[u].id].status = "none"
    <3>1. CASE u = t
      BY <2>1, <2>2, <2>5, <3>1
    <3>2. CASE u # t
      BY <2>1, <2>3, <2>4, <2>5, <3>2 DEF NoRecordYet
    <3> QED  BY <3>1, <3>2
  <2> QED  BY <2>2, <2>4, <2>5 DEF NoRecordYet
<1>4. ASSUME NEW t \in AllTasks, Broker!QuoteArrives(t)
      PROVE  /\ NoRecordYet'
             /\ \A id \in Ids : order[id].status = "cancelled" =>
                                  order'[id].status = "cancelled"
  <2>1. /\ task[t].pc = "fetch" /\ Settled(task[t].id)
        /\ \A u \in AllTasks \ {t} : task'[u] = task[u]
        /\ task'[t].pc # "fetch"
    BY <1>4, QuoteEffect
  <2>2. \A u \in AllTasks \ {t} : task[u].pc = "fetch" =>
          task[u].id \in Ids \ {task[t].id}
    BY <2>1, FetchedIds DEF Process!IInv, Process!ExecutedOnce, AllTasks
  <2>3. order[task[t].id].status = "none"
    BY <2>1 DEF NoRecordYet
  <2> QED  BY <2>1, <2>2, <2>3 DEF NoRecordYet, Settled
<1>5. ASSUME NEW t \in AllTasks, Broker!AbandonPlace(t)
      PROVE  /\ NoRecordYet'
             /\ \A id \in Ids : order[id].status = "cancelled" =>
                                  order'[id].status = "cancelled"
  <2>1. /\ task' = [task EXCEPT ![t] = Broker!Idle] /\ Broker!Idle.pc # "fetch"
        /\ order' = order
    BY <1>5 DEF Broker!AbandonPlace, Broker!account, Broker!Idle
  <2>2. \A u \in AllTasks : task'[u].pc = "fetch" => task'[u] = task[u]
    BY <2>1 DEF BookInv
  <2> QED  BY <2>1, <2>2 DEF NoRecordYet
<1>6. ASSUME NEW id \in Ids, Broker!CancelOrder(id)
      PROVE  /\ NoRecordYet'
             /\ \A j \in Ids : order[j].status = "cancelled" =>
                                 order'[j].status = "cancelled"
  <2>1. /\ order[id].status = "submitted" /\ task' = task
        /\ \A j \in Ids \ {id} : order'[j] = order[j]
    BY <1>6 DEF Broker!CancelOrder, Broker!Open, BookInv
  <2>2. \A t \in AllTasks : task[t].pc = "fetch" => task[t].id \in Ids \ {id}
    BY <2>1, FetchedIds DEF NoRecordYet
  <2> QED  BY <2>1, <2>2 DEF NoRecordYet
<1> QED  BY <1>1, <1>2, <1>3, <1>4, <1>5, <1>6 DEF BrokerStep

\* In this process a cancelled order stays cancelled, as the documentation of
\* cancel_order promises and the broker alone does not guarantee: it takes a
\* caller of update_price to execute an order while it is being cancelled.
THEOREM CancelledStayCancelled == Spec => Broker!CancelledOrdersStayCancelled
<1> DEFINE Stay == \A id \in Ids : order[id].status = "cancelled" =>
                                     order'[id].status = "cancelled"
<1>1. Init => Process!IInv /\ NoRecordYet
  <2>1. Init => NoRecordYet
    BY DEF Init, Broker!Init, Broker!Idle, NoRecordYet, AllTasks
  <2> QED  BY <2>1, ProcessInit, ProcessConstants, Process!InitIInv
<1>2. LoopInv /\ Process!IInv /\ BookInv /\ NoRecordYet /\ [Next]_vars
        => Process!IInv' /\ NoRecordYet' /\ [Stay]_(Broker!vars)
  BY ProcessNext, StepsOfTheProcess, CancelledStep
<1>3. Broker!CancelledOrdersStayCancelled <=> [][Stay]_(Broker!vars)
  BY DEF Broker!CancelledOrdersStayCancelled, Ids
<1> HIDE DEF Stay
<1> QED  BY <1>1, <1>2, <1>3, LoopInit, LoopNext, BookInit, BookNext, PTL DEF Spec

-----------------------------------------------------------------------------
(* What the loop sells *)

\* Quantities are whole lots, never less than a share, and up to half a lot as
\* large as the size limit allows when the risk limit allows a larger one.
LEMMA SizeBounds ==
    ASSUME NEW E \in Int, E > 0, NEW p, NEW k \in Nat, p = 20 * k, k > 0,
           MaxPositionPct <= 20 * MaxLossPerTradePct,
           NEW q \in PositionSizes(E, p)
    PROVE  /\ q \in Int /\ q >= Share
           /\ MaxPositionPct * E <= 200000 * (k * q) + 100000 * k
<1>0. /\ MaxPositionPct \in Nat /\ MaxLossPerTradePct \in Nat /\ Share \in Nat
      /\ p \div 20 = k /\ p \in Int /\ p > 0
  BY SystemConstants
<1> DEFINE n == MaxLossPerTradePct * E  m == MaxPositionPct * E
           c == 10000 * k  d == 200000 * k
<1>1. n \in Int /\ m \in Int /\ c \in Int /\ d \in Int /\ c > 0 /\ d > 0
  BY <1>0
<1>2. m <= 20 * n
  <2>1. \A x, y \in Nat : x <= 20 * y => x * E <= 20 * (y * E)
    OBVIOUS
  <2> QED  BY <1>0, <2>1
<1>3. PICK a \in Nearest(n, c), b \in Nearest(m, d) : q = SizeWithin(a, b)
  <2>1. d = 10000 * p /\ c = 10000 * (p \div 20)
    BY <1>0
  <2>2. \E a \in Nearest(n, 10000 * (p \div 20)), b \in Nearest(m, 10000 * p) :
          q = SizeWithin(a, b)
    BY <1>0, SizeOfTwo
  <2> HIDE DEF n, m, c, d
  <2> QED  BY <2>1, <2>2
<1> HIDE DEF n, m, c, d
<1>4. a \in Int /\ 2 * (a * c) >= 2 * n - c /\ b \in Int /\ 2 * (b * d) >= 2 * m - d
  BY <1>1, <1>3, NearestBounds
<1>6. q \in Int /\ q >= Share /\ (q >= a \/ q >= b)
  BY <1>3, <1>4, SizeWithinBounds
<1>7. /\ \A x \in Int : q >= x => x * k <= k * q /\ x * k \in Int
      /\ k * q \in Int
  BY <1>6
<1>8. CASE q >= b
  <2>1. b * d = 200000 * (b * k) /\ b * k <= k * q
    BY <1>4, <1>7, <1>8 DEF d
  <2>2. b * k \in Int
    BY <1>4
  <2> QED  BY <1>1, <1>4, <1>6, <1>7, <2>1, <2>2 DEF m, d
<1>9. CASE q >= a
  <2>1. a * c = 10000 * (a * k) /\ a * k <= k * q
    BY <1>4, <1>7, <1>9 DEF c
  <2>2. a * k \in Int
    BY <1>4
  <2>3. 2 * m <= 400000 * (a * k) + 200000 * k
    BY <1>1, <1>2, <1>4, <2>1, <2>2 DEF c
  <2> QED  BY <1>1, <1>6, <1>7, <2>1, <2>2, <2>3 DEF m
<1> QED  BY <1>6, <1>8, <1>9

\* The gate refuses every SHORT decision that has a price.
LEMMA ShortsAreRefused ==
    ASSUME Account.equity \in Int, Share >= 8, MaxPositionPct <= 20 * MaxLossPerTradePct,
           NEW p \in Prices, NEW s, NEW q \in PositionSizes(Account.equity, p),
           Gate!Approves(OrderFor(s, Decision("SHORT", "SHORT", p), q), Account)
    PROVE  FALSE
<1> DEFINE k == p \div 20  E == Account.equity  P == 100 * SettingsCapital
           r == OrderFor(s, Decision("SHORT", "SHORT", p), q)
<1>1. k \in Nat /\ k > 0 /\ p = 20 * k
  BY SystemConstants
<1>2. E \in Int
  OBVIOUS
<1>3. Gate!DrawdownOK(Account) /\ Gate!PositionSizeOK(r, Account)
  BY DEF Gate!Approves
<1>4. E > 0
  <2>1. P > 0 /\ P \in Int /\ MaxDrawdownPct \in 0 .. 100
    BY SystemConstants
  <2>2. 100 * (P - E) < MaxDrawdownPct * P
    BY <1>3, <2>1 DEF Gate!DrawdownOK
  <2>3. MaxDrawdownPct * P <= 100 * P
    <3> HIDE DEF P
    <3>1. \A x, y, z \in Nat : x <= y => x * z <= y * z
      OBVIOUS
    <3>2. MaxDrawdownPct \in Nat /\ MaxDrawdownPct <= 100 /\ P \in Nat
      BY <2>1
    <3> QED  BY <3>1, <3>2
  <2> HIDE DEF P, E
  <2>4. MaxDrawdownPct * P \in Int
    BY <2>1
  <2> QED  BY <1>2, <2>1, <2>2, <2>3, <2>4
<1>5. /\ q \in Int /\ q >= Share /\ Share >= 8 /\ Share \in Nat
      /\ MaxPositionPct * E <= 200000 * (k * q) + 100000 * k
  <2>1. q \in PositionSizes(E, p)
    OBVIOUS
  <2> HIDE DEF k, E
  <2> QED  BY <1>1, <1>2, <1>4, <2>1, SizeBounds, SystemConstants
<1>6. Gate!Value(r) = 2142 * (k * q)
  <2>1. r.stopLoss = 21 * k /\ r.trigger = NoPrice /\ r.quantity = q
    <3>1. 20 * k + k = 21 * k
      BY <1>1
    <3>2. Decision("SHORT", "SHORT", p).stopLoss = 21 * k
      BY <1>1, <3>1 DEF Decision
    <3> QED  BY <3>2 DEF OrderFor
  <2>2. Gate!Entry(r) = 102 * (21 * k)
    BY <1>1, <2>1, SystemConstants DEF Gate!Entry, Gate!Given
  <2>3. Gate!Value(r) = q * (102 * (21 * k))
    BY <2>1, <2>2 DEF Gate!Value
  <2> HIDE DEF k, r
  <2> QED  BY <1>1, <1>5, <2>3
<1>7. /\ k * q \in Int /\ 8 * k <= k * q
  <2> HIDE DEF k
  <2>1. q >= 8
    BY <1>5
  <2> QED  BY <1>1, <1>5, <2>1
<1>8. 100 * Gate!Value(r) <= MaxPositionPct * E
  <2>1. Gate!Value(r) > 0
    <3> HIDE DEF k
    <3> QED  BY <1>1, <1>6, <1>7
  <2> QED  BY <1>3, <1>4, <2>1 DEF Gate!PositionSizeOK
<1>9. MaxPositionPct * E \in Int
  <2> HIDE DEF E
  <2> QED  BY <1>2, SystemConstants
<1> HIDE DEF k, r, E
<1> QED  BY <1>1, <1>5, <1>6, <1>7, <1>8, <1>9

\* The loop sells only where it is allowed to.
LEMMA LoopOrders ==
    ASSUME Account.equity \in Int, Share >= 8, MaxPositionPct <= 20 * MaxLossPerTradePct,
           NEW s, NEW p \in Quotes,
           NEW tech, NEW d, d = Decision(tech, RiskOpinion(tech), p),
           d.action # "NEUTRAL",
           NEW q \in PositionSizes(Account.equity, p),
           Gate!Approves(OrderFor(s, d, q), Account),
           OrderFor(s, d, q).side = "sell"
    PROVE  OrderFor(s, d, q).stopLoss = 0 /\ OrderFor(s, d, q).quantity = Share
<1>1. p = 0 => q = Share
  BY SizeType
<1>2. d.action # "LONG"
  BY DEF OrderFor
<1>3. tech = "SHORT" /\ d = Decision("SHORT", "SHORT", p)
  BY <1>2 DEF Decision, RiskOpinion
<1>4. p = 0
  <2>1. p \notin Prices
    BY <1>3, ShortsAreRefused
  <2> QED  BY <2>1 DEF Quotes
<1>5. d.stopLoss = 0
  BY <1>3, <1>4 DEF Decision
<1> QED  BY <1>1, <1>4, <1>5 DEF OrderFor

\* A new request under a new id, which the loop sells with only as allowed.
LEMMA NewRequest ==
    ASSUME SellsOnlyWithoutPrice, Process!IInv, BookInv, NEW r, NEW who,
           placed' \in Ids, request' = [request EXCEPT ![placed'] = r],
           author' = [author EXCEPT ![placed'] = who],
           who = "loop" /\ r.side = "sell" => r.stopLoss = 0 /\ r.quantity = Share
    PROVE  SellsOnlyWithoutPrice'
<1>1. /\ request'[placed'] = r /\ author'[placed'] = who
      /\ \A id \in Ids \ {placed'} : request'[id] = request[id] /\ author'[id] = author[id]
  BY SameTables DEF Process!IInv, Process!StateOK, BookInv, Ids
<1> QED  BY <1>1 DEF SellsOnlyWithoutPrice, Ids

\* No step makes the loop sell otherwise.
LEMMA SellsNext ==
    ASSUME SellsOnlyWithoutPrice, Process!IInv, LoopInv, BookInv, Share >= 8,
           MaxPositionPct <= 20 * MaxLossPerTradePct, [Next]_vars
    PROVE  SellsOnlyWithoutPrice'
<1>1. CASE UNCHANGED <<request, author>>
  BY <1>1 DEF SellsOnlyWithoutPrice
<1>2. CASE Lifecycle \/ UNCHANGED vars
  BY <1>1, <1>2 DEF Lifecycle, Startup, Launch, Start, Shutdown, Signal, Stop, Kill, Exit,
     vars, broker
<1>3. ASSUME NEW t \in ApiTasks, NEW r \in ApiRequests, ApiPlace(t, r)
      PROVE  SellsOnlyWithoutPrice'
  <2>1. author' = [author EXCEPT ![placed'] = "api"] /\ t \in AllTasks
    BY <1>3 DEF ApiPlace, AllTasks
  <2>2. request' = [request EXCEPT ![placed'] = r]
    BY <1>3 DEF ApiPlace, Broker!PlaceMarket, Broker!PlacePending
  <2>3. placed' \in Ids
    BY <1>3, <2>1, PlaceMarketEffect, PlacePendingBook DEF ApiPlace
  <2> QED  BY <2>1, <2>2, <2>3, NewRequest
<1>4. ASSUME NEW t \in ApiTasks, ApiOrderReturns(t)
      PROVE  SellsOnlyWithoutPrice'
  BY <1>1, <1>4 DEF ApiOrderReturns, Broker!QuoteArrives
<1>5. ASSUME NEW id \in Ids, ApiCancel(id)
      PROVE  SellsOnlyWithoutPrice'
  BY <1>1, <1>5 DEF ApiCancel, Broker!CancelOrder
<1>6. ASSUME NEW l \in Loops, LoopStep(l)
      PROVE  SellsOnlyWithoutPrice'
  <2>1. CASE Wake(l) \/ NoTrade(l)
    BY <1>1, <2>1 DEF Wake, NoTrade, broker
  <2>2. CASE OrderReturns(l) \/ LoopEnds(l)
    BY <1>1, <2>2 DEF OrderReturns, LoopEnds, Broker!QuoteArrives, Broker!AbandonPlace, broker
  <2>3. CASE Trade(l)
    <3> DEFINE s == Watchlist[loop[l].at]
    <3>1. PICK p \in Quotes, direction \in {"buy", "sell", "hold", "no_trade"} :
            LET tech == TechnicalSignal(direction)
                d == Decision(tech, RiskOpinion(tech), p)
            IN  /\ d.action # "NEUTRAL"
                /\ \E q \in PositionSizes(Account.equity, p) :
                     /\ Gate!Approves(OrderFor(s, d, q), Account)
                     /\ Broker!PlaceMarket(l, OrderFor(s, d, q))
      BY <2>3 DEF Trade
    <3> DEFINE tech == TechnicalSignal(direction)
               d == Decision(tech, RiskOpinion(tech), p)
    <3>2. PICK q \in PositionSizes(Account.equity, p) :
            /\ Gate!Approves(OrderFor(s, d, q), Account)
            /\ Broker!PlaceMarket(l, OrderFor(s, d, q))
      BY <3>1
    <3> DEFINE r == OrderFor(s, d, q)
    <3>3. d.action # "NEUTRAL"
      BY <3>1
    <3>4. r.side = "sell" => r.stopLoss = 0 /\ r.quantity = Share
      <4> HIDE DEF s, tech
      <4> QED  BY <3>2, <3>3, EquityType, LoopOrders
    <3>5. Broker!PlaceMarket(l, r) /\ author' = [author EXCEPT ![placed'] = "loop"]
      BY <2>3, <3>2 DEF Trade
    <3> HIDE DEF r
    <3>6. placed' \in Ids /\ request' = [request EXCEPT ![placed'] = r]
      BY <3>5, PlaceMarketEffect DEF Broker!PlaceMarket, AllTasks
    <3> QED  BY <3>4, <3>5, <3>6, NewRequest
  <2> QED  BY <1>6, <2>1, <2>2, <2>3 DEF LoopStep
<1> QED  BY <1>2, <1>3, <1>4, <1>5, <1>6 DEF Next, Api, Ids

\* The loop never acts on a SHORT decision: judged at 1.02 times its stop loss,
\* itself 5% above the price, an order as large as the position limit allows
\* exceeds that limit, whatever the account is worth.  Without a price the gate
\* is blind, and one share is sold.  It takes a risk limit per trade that is no
\* less than a twentieth of the position limit (settings: 1% and 5%), or the
\* smaller orders it causes pass, and lots fine enough for what rounding adds.
THEOREM LoopSellsOnlyWithoutPrice ==
    ASSUME Share >= 8, MaxPositionPct <= 20 * MaxLossPerTradePct
    PROVE  Spec => []SellsOnlyWithoutPrice
<1>1. Init => SellsOnlyWithoutPrice /\ Process!IInv
  <2>1. Init => SellsOnlyWithoutPrice
    BY DEF Init, SellsOnlyWithoutPrice
  <2> QED  BY <2>1, ProcessInit, ProcessConstants, Process!InitIInv
<1>2. LoopInv /\ BookInv /\ Process!IInv /\ SellsOnlyWithoutPrice /\ [Next]_vars
        => Process!IInv' /\ SellsOnlyWithoutPrice'
  BY ProcessNext, SellsNext
<1> QED  BY <1>1, <1>2, LoopInit, LoopNext, BookInit, BookNext, PTL DEF Spec
=============================================================================

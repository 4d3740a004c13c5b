------------------------------- MODULE TradeFlow -------------------------------
(***************************************************************************)
(* Orders from a strategy to a trade gateway and back: StrategyRunner      *)
(* (crates/nnxt-strategy/src/runner.rs) polled by the reactor of           *)
(* nnxt-actors, TradeGatewayRunner (crates/nnxt-gateway/src/runner.rs)     *)
(* around TradeSimulator (trade.rs), and the three queues between them.    *)
(*                                                                         *)
(* A queue is the sequence of messages its reader has not read; nothing    *)
(* is overwritten, because fewer messages are outstanding than its         *)
(* capacity (RapidRing says what happens otherwise).  A handler of the     *)
(* strategy is one step: it touches nothing another process writes.  The   *)
(* gateway publishes one event per step.                                   *)
(***************************************************************************)
EXTENDS OrderState

CONSTANTS
  Strategies,    \* strategy actors
  StartBatches,  \* intents on_start may submit: a set of sequences
  BookBatches,   \* intents on_order_book may submit
  ReplyBatches,  \* intents on_order and on_trade may submit
  TimerBatches,  \* intents on_timer and on_stop may submit
  MaxBooks,      \* bound: order books a strategy receives
  MaxActions,    \* bound: actions a strategy generates
  MaxOutages     \* bound: how often the gateway goes down

ASSUME TradeFlowAssumption ==
  /\ MaxBooks \in Nat
  /\ MaxActions \in Nat
  /\ MaxOutages \in Nat
  /\ StartBatches \cup BookBatches \cup ReplyBatches \cup TimerBatches \subseteq Seq(Intents)

VARIABLES
  stage,      \* how far each runner is: new, opening, joining, running, stopped
  st,         \* its RunnerState and engine counter
  scan,       \* the source its reactor polls next
  books,      \* order books it has yet to receive
  budget,     \* actions it may still generate
  actionQ,    \* its action queue, as far as the gateway has not read it
  link,       \* what the gateway knows of that queue: none, announced, reading
  hears,      \* which of the gateway's current queues it reads
  orderQ,     \* order events it has not read
  tradeQ,     \* trade events it has not read
  gateway,    \* down, registered or running
  outbox,     \* TradeSimulator.events: what the gateway has yet to publish
  nextTrade,  \* TradeSimulator.next_trade_id
  outages,    \* how often the gateway went down
  executed    \* history: the orders the gateway has executed

strategyVars == <<stage, st, scan, books, budget>>
gatewayVars  == <<gateway, outbox, nextTrade, outages, executed>>
queueVars    == <<actionQ, link, hears, orderQ, tradeQ>>
vars == <<strategyVars, queueVars, gatewayVars>>

Init ==
  /\ stage = [s \in Strategies |-> "new"]
  /\ st = [s \in Strategies |-> NewState]
  /\ scan = [s \in Strategies |-> "market"]
  /\ books = [s \in Strategies |-> MaxBooks]
  /\ budget = [s \in Strategies |-> MaxActions]
  /\ actionQ = [s \in Strategies |-> << >>]
  /\ link = [s \in Strategies |-> "none"]
  /\ hears = [s \in Strategies |-> {}]
  /\ orderQ = [s \in Strategies |-> << >>]
  /\ tradeQ = [s \in Strategies |-> << >>]
  /\ gateway = "down"
  /\ outbox = << >>
  /\ nextTrade = 1
  /\ outages = 0
  /\ executed = {}

--------------------------------------------------------------------------------
(* The strategy runner.                                                    *)

\* One callback: its batch is executed, and the actions are recorded.
AfterCallback(pair, intents) ==
  LET actions == Execute(pair.state, intents)
  IN [state |-> Recorded(pair.state, actions), actions |-> pair.actions \o actions]

\* A handler that starts from state and runs these callbacks one after the other.
Callbacks(state, batches) ==
  FoldLeft(AfterCallback, [state |-> state, actions |-> << >>], batches)

\* Its effect.  write_actions publishes the actions in order; what is written while
\* the gateway does not read the queue is lost on it, since it connects at the end.
Write(s, outcome) ==
  /\ Len(outcome.actions) <= budget[s]
  /\ st' = [st EXCEPT ![s] = outcome.state]
  /\ budget' = [budget EXCEPT ![s] = @ - Len(outcome.actions)]
  /\ actionQ' = [actionQ EXCEPT
       ![s] = IF link[s] = "reading" THEN @ \o outcome.actions ELSE @]

\* tick_timers after an event: no timer is due, or one is.
Ticks == {<< >>} \cup {<<batch>> : batch \in TimerBatches}

\* The master knows the gateway: it never forgets one that went down.
GatewayKnown == gateway # "down" \/ outages > 0

\* on_start and handle_pending up to register_queue.  The batch is executed and
\* recorded before the runner has an action queue, so none of it is written; the
\* master then tells the gateway of the new queue, if it can be reached.
Start(s, batch) ==
  /\ stage[s] = "new"
  /\ GatewayKnown
  /\ LET outcome == Callbacks(st[s], <<batch>>)
     IN /\ Len(outcome.actions) <= budget[s]
        /\ st' = [st EXCEPT ![s] = outcome.state]
        /\ budget' = [budget EXCEPT ![s] = @ - Len(outcome.actions)]
  /\ stage' = [stage EXCEPT ![s] = "opening"]
  /\ link' = [link EXCEPT ![s] = IF gateway = "down" THEN "none" ELSE "announced"]
  /\ UNCHANGED <<scan, books, actionQ, hears, orderQ, tradeQ, gatewayVars>>

\* An event queue can be opened once there is one of its name; until the gateway
\* runs, that is one a former gateway left, to which nothing will be written.
CanOpen == gateway = "running" \/ outages > 0

Opened(s, queue) ==
  hears' = [hears EXCEPT ![s] = IF gateway = "running" THEN @ \cup {queue} ELSE @]

\* connect_trade goes on: the order-event queue ...
OpenOrderEvents(s) ==
  /\ stage[s] = "opening"
  /\ CanOpen
  /\ stage' = [stage EXCEPT ![s] = "joining"]
  /\ Opened(s, "order")
  /\ UNCHANGED <<st, scan, books, budget, actionQ, link, orderQ, tradeQ, gatewayVars>>

\* ... then the trade-event queue, and the runner begins to poll.
OpenTradeEvents(s) ==
  /\ stage[s] = "joining"
  /\ CanOpen
  /\ stage' = [stage EXCEPT ![s] = "running"]
  /\ Opened(s, "trade")
  /\ UNCHANGED <<st, scan, books, budget, actionQ, link, orderQ, tradeQ, gatewayVars>>

\* The reactor polls the sources in the order they were connected, from the first
\* one again after each event.
Polls(s, source) == stage[s] = "running" /\ scan[s] = source

Rescan(s) == scan' = [scan EXCEPT ![s] = "market"]

\* on_order_book and the timers.
OnOrderBook(s, batch, ticks) ==
  /\ Polls(s, "market")
  /\ books[s] > 0
  /\ books' = [books EXCEPT ![s] = @ - 1]
  /\ Write(s, Callbacks(st[s], <<batch>> \o ticks))
  /\ UNCHANGED <<stage, scan, link, hears, orderQ, tradeQ, gatewayVars>>

\* on_order_event and the timers; a repeated event reaches no callback.
OnOrderEvent(s, batch, ticks) ==
  /\ Polls(s, "order")
  /\ orderQ[s] # << >>
  /\ orderQ' = [orderQ EXCEPT ![s] = Tail(@)]
  /\ LET event == Head(orderQ[s])
     IN IF IsNewOrderEvent(st[s], event)
        THEN Write(s, Callbacks(ApplyOrderEvent(st[s], event), <<batch>> \o ticks))
        ELSE batch = << >> /\ Write(s, Callbacks(st[s], ticks))
  /\ Rescan(s)
  /\ UNCHANGED <<stage, books, link, hears, tradeQ, gatewayVars>>

\* on_trade_event and the timers.
OnTradeEvent(s, batch, ticks) ==
  /\ Polls(s, "trade")
  /\ tradeQ[s] # << >>
  /\ tradeQ' = [tradeQ EXCEPT ![s] = Tail(@)]
  /\ LET event == Head(tradeQ[s])
     IN IF IsNewTrade(st[s], event)
        THEN Write(s, Callbacks(ApplyTradeEvent(st[s], event), <<batch>> \o ticks))
        ELSE batch = << >> /\ Write(s, Callbacks(st[s], ticks))
  /\ Rescan(s)
  /\ UNCHANGED <<stage, books, link, hears, orderQ, gatewayVars>>

\* A source has nothing: the reactor goes on to the next (the market source may be
\* empty at any time).
PollEmpty(s) ==
  /\ \/ Polls(s, "market") /\ scan' = [scan EXCEPT ![s] = "order"]
     \/ Polls(s, "order") /\ orderQ[s] = << >> /\ scan' = [scan EXCEPT ![s] = "trade"]
     \/ Polls(s, "trade") /\ tradeQ[s] = << >> /\ Rescan(s)
  /\ UNCHANGED <<stage, st, books, budget, queueVars, gatewayVars>>

\* The shutdown flag, looked at when a poll begins: on_stop's intents are executed
\* and written, and the runner ends.
Shutdown(s, batch) ==
  /\ Polls(s, "market")
  /\ Write(s, Callbacks(st[s], <<batch>>))
  /\ stage' = [stage EXCEPT ![s] = "stopped"]
  /\ hears' = [hears EXCEPT ![s] = {}]
  /\ orderQ' = [orderQ EXCEPT ![s] = << >>]
  /\ tradeQ' = [tradeQ EXCEPT ![s] = << >>]
  /\ UNCHANGED <<scan, books, link, gatewayVars>>

--------------------------------------------------------------------------------
(* The trade gateway.                                                      *)

\* setup_control_socket and register_with_master, in this order ...
GatewayRegister ==
  /\ gateway = "down"
  /\ gateway' = "registered"
  /\ UNCHANGED <<strategyVars, queueVars, outbox, nextTrade, outages, executed>>

\* ... then the gateway's on_start creates the two event queues.
GatewayStart ==
  /\ gateway = "registered"
  /\ gateway' = "running"
  /\ UNCHANGED <<strategyVars, queueVars, outbox, nextTrade, outages, executed>>

\* The runner is between two events: the last one has been dealt with.
Waiting == gateway = "running" /\ outbox = << >>

\* Fault: the gateway gives up on a queue whose strategy does not poll yet.
AddActionQueueImpatient(s) ==
  /\ Waiting
  /\ link[s] = "announced"
  /\ link' = [link EXCEPT ![s] = IF stage[s] # "running" THEN "none" ELSE "reading"]
  /\ UNCHANGED <<strategyVars, actionQ, hears, orderQ, tradeQ, gatewayVars>>

\* add_action_queue: connects at the end of the queue; after its retries it gives
\* up on a queue whose strategy has gone.
AddActionQueue(s) ==
  /\ Waiting
  /\ link[s] = "announced"
  /\ link' = [link EXCEPT ![s] = IF stage[s] = "stopped" THEN "none" ELSE "reading"]
  /\ UNCHANGED <<strategyVars, actionQ, hears, orderQ, tradeQ, gatewayVars>>

OrderEvent(id, status, filled, remaining) ==
  [queue |-> "order", id |-> id, status |-> status, filled |-> filled, remaining |-> remaining]

TradeEvent(a) ==
  [queue |-> "trade", trade |-> nextTrade, id |-> a.id, side |-> a.side,
   quantity |-> a.quantity]

\* Fault: a filled order is never reported as filled.
EventsOfUnreported(a) ==
  IF a.kind = "new"
  THEN <<OrderEvent(a.id, "Active", 0, a.quantity), TradeEvent(a)>>
  ELSE <<OrderEvent(a.id, "Cancelled", 0, 0)>>

\* send_order: a new order is accepted, traded and filled at once; a cancel is
\* always confirmed.
EventsOf(a) ==
  IF a.kind = "new"
  THEN <<OrderEvent(a.id, "Active", 0, a.quantity), TradeEvent(a),
         OrderEvent(a.id, "Filled", a.quantity, 0)>>
  ELSE <<OrderEvent(a.id, "Cancelled", 0, 0)>>

\* The next action of a queue the gateway reads.
OnAction(s) ==
  /\ Waiting
  /\ link[s] = "reading"
  /\ actionQ[s] # << >>
  /\ LET a == Head(actionQ[s])
     IN /\ outbox' = EventsOf(a)
        /\ nextTrade' = IF a.kind = "new" THEN nextTrade + 1 ELSE nextTrade
        /\ executed' = IF a.kind = "new"
                       THEN executed \cup {[strategy |-> s, id |-> a.id, side |-> a.side,
                                            quantity |-> a.quantity]}
                       ELSE executed
  /\ actionQ' = [actionQ EXCEPT ![s] = Tail(@)]
  /\ UNCHANGED <<strategyVars, link, hears, orderQ, tradeQ, gateway, outages>>

\* One event of poll_events is published to whoever reads its queue.
Publish ==
  /\ gateway = "running"
  /\ outbox # << >>
  /\ outbox' = Tail(outbox)
  /\ LET event == Head(outbox)
         Delivered(q) == [s \in Strategies |->
           IF event.queue \in hears[s] THEN Append(q[s], event) ELSE q[s]]
     IN IF event.queue = "order"
        THEN orderQ' = Delivered(orderQ) /\ UNCHANGED tradeQ
        ELSE tradeQ' = Delivered(tradeQ) /\ UNCHANGED orderQ
  /\ UNCHANGED <<strategyVars, actionQ, link, hears, gateway, nextTrade, outages, executed>>

\* The gateway's process ends.  Its successor starts from nothing and creates new
\* queues under the old names; who read the old ones keeps reading those.
GatewayDown ==
  /\ gateway # "down"
  /\ outages < MaxOutages
  /\ outages' = outages + 1
  /\ gateway' = "down"
  /\ outbox' = << >>
  /\ nextTrade' = 1
  /\ link' = [s \in Strategies |-> "none"]
  /\ actionQ' = [s \in Strategies |-> << >>]
  /\ hears' = [s \in Strategies |-> {}]
  /\ UNCHANGED <<strategyVars, orderQ, tradeQ, executed>>

--------------------------------------------------------------------------------
Connect(s) == OpenOrderEvents(s) \/ OpenTradeEvents(s)

Poll(s) ==
  \/ \E ticks \in Ticks :
       \/ \E batch \in BookBatches : OnOrderBook(s, batch, ticks)
       \/ \E batch \in ReplyBatches :
            OnOrderEvent(s, batch, ticks) \/ OnTradeEvent(s, batch, ticks)
  \/ PollEmpty(s)

GatewayStep ==
  \/ GatewayRegister
  \/ GatewayStart
  \/ Publish
  \/ \E s \in Strategies : AddActionQueue(s) \/ OnAction(s)

Next ==
  \/ GatewayStep
  \/ GatewayDown
  \/ \E s \in Strategies :
       \/ \E batch \in StartBatches : Start(s, batch)
       \/ Connect(s)
       \/ Poll(s)
       \/ \E batch \in TimerBatches : Shutdown(s, batch)

Spec == Init /\ [][Next]_vars

\* Both event loops keep running.
Fairness ==
  /\ WF_vars(GatewayStep)
  /\ \A s \in Strategies : WF_vars(Connect(s) \/ Poll(s))

FairSpec == Spec /\ Fairness

--------------------------------------------------------------------------------
(* Properties.                                                             *)

Order == [side : Sides, quantity : Nat, filled : Nat, status : Statuses]

TypeOK ==
  /\ stage \in [Strategies -> {"new", "opening", "joining", "running", "stopped"}]
  /\ \A s \in Strategies :
       /\ \A id \in DOMAIN st[s].orders : id \in Nat /\ st[s].orders[id] \in Order
       /\ st[s].position \in Int
       /\ Len(st[s].fills) <= FillWindow
       /\ \A i, j \in DOMAIN st[s].fills : st[s].fills[i] = st[s].fills[j] => i = j
       /\ st[s].nextId \in Nat
  /\ scan \in [Strategies -> {"market", "order", "trade"}]
  /\ books \in [Strategies -> 0..MaxBooks]
  /\ budget \in [Strategies -> 0..MaxActions]
  /\ link \in [Strategies -> {"none", "announced", "reading"}]
  /\ hears \in [Strategies -> SUBSET {"order", "trade"}]
  /\ gateway \in {"down", "registered", "running"}
  /\ nextTrade \in Nat

Total(items) ==
  FoldSet(LAMBDA x, sum : Signed(x.side, x.quantity) + sum, 0, items)

TradesIn(queue) == {e \in ToSet(queue) : e.queue = "trade"}

\* Nothing traded is lost, repeated or booked on the wrong side: at every moment
\* the ledger's position and the trades on their way to it make up what the
\* gateway has executed.  (For one strategy, until the gateway first goes down.)
PositionAccounted ==
  \A s \in Strategies : stage[s] # "stopped" /\ outages = 0 =>
    st[s].position + Total(TradesIn(tradeQ[s])) + Total(TradesIn(outbox)) = Total(executed)

\* Nothing is on its way between the gateway and the strategy.
Quiet(s) ==
  /\ stage[s] = "running"
  /\ actionQ[s] = << >>
  /\ outbox = << >>
  /\ orderQ[s] = << >>
  /\ tradeQ[s] = << >>

\* An order is finished in the books of its strategy.
Settled(s, id) ==
  id \in DOMAIN st[s].orders /\ st[s].orders[id].status \in Terminal

\* However order and trade events overtook each other, and whatever was cancelled
\* meanwhile: once nothing is on its way, every order the gateway executed is
\* finished in the strategy's books and none of it counts as exposure, so that
\* the next target is measured from the true position.  (Until the gateway first
\* goes down, and what it had yet to publish with it.)
SettledWhenQuiet ==
  \A s \in Strategies : Quiet(s) /\ outages = 0 =>
    \A x \in executed : x.strategy = s =>
      Settled(s, x.id) /\ Exposure(st[s].orders[x.id]) = 0

\* An order the gateway has executed is eventually finished in the books of its
\* strategy, unless that stops or the gateway goes down, as long as order books
\* leave the reactor time.
OrderSettles ==
  \A s \in Strategies : \A id \in 1..MaxActions :
    ((\E x \in executed : x.strategy = s /\ x.id = id) ~>
       (stage[s] = "stopped" \/ outages > 0 \/ Settled(s, id)))

\* A strategy that finds the gateway running is eventually connected to it in both
\* directions - also when that gateway is the successor of one that went down.
ConnectsToRunningGateway ==
  \A s \in Strategies :
    (/\ stage[s] = "opening"
     /\ link[s] = "announced"
     /\ gateway = "running"
     /\ outages = MaxOutages)
    ~> \/ stage[s] = "stopped"
       \/ stage[s] = "running" /\ link[s] = "reading" /\ hears[s] = {"order", "trade"}

\* An action is written to the queue and executed by the gateway, as the execution
\* model page says: an order that the books call pending is on its way.
NoOrderForgotten ==
  \A s \in Strategies : \A id \in DOMAIN st[s].orders :
    stage[s] = "running" /\ st[s].orders[id].status = "PendingNew" =>
      \/ \E i \in DOMAIN actionQ[s] : actionQ[s][i].kind = "new" /\ actionQ[s][i].id = id
      \/ \E x \in executed : x.strategy = s /\ x.id = id

\* A strategy that only ever asks for the target position 1 keeps it: the gateway
\* never trades more for it than that.
TargetMaintained == Total(executed) \in 0..1

================================================================================

------------------------------ MODULE OrderState ------------------------------
(***************************************************************************)
(* What a strategy runner knows about its orders and its position, as      *)
(* operators on one record: OrderManager, Ledger, RunnerState and          *)
(* ExecutionEngine of crates/nnxt-strategy/src.  There is one instrument;  *)
(* prices and timestamps are left out, since nothing here branches on      *)
(* them.                                                                   *)
(***************************************************************************)
EXTENDS Integers, FiniteSets, Sequences, SequencesExt

CONSTANT FillWindow   \* how many trade ids FillLedger remembers

ASSUME FillWindowAssumption == FillWindow \in Nat \ {0}

Sides    == {"Buy", "Sell"}
Terminal == {"Filled", "Cancelled", "Rejected"}          \* is_terminal
Statuses == {"PendingNew", "Active", "PendingCancel"} \cup Terminal

NewState ==
  [orders   |-> << >>,   \* OrderManager.orders: id -> order
   seen     |-> {},      \* OrderManager.order_event_seen
   position |-> 0,       \* Ledger.positions, the quantity
   fills    |-> << >>,   \* FillLedger.deque
   nextId   |-> 1]       \* ExecutionEngine.counter

Signed(side, quantity) == IF side = "Buy" THEN quantity ELSE -quantity

--------------------------------------------------------------------------------
(* Orders.                                                                 *)

\* HashMap::insert.
Insert(orders, id, order) ==
  [i \in DOMAIN orders \cup {id} |-> IF i = id THEN order ELSE orders[i]]

\* An order that is recorded before it is sent.
Sent(a) == [side |-> a.side, quantity |-> a.quantity, filled |-> 0, status |-> "PendingNew"]

\* Fault: a cancel marks a finished order too.
OnActionSentUnguarded(st, a) ==
  CASE a.kind = "new" -> [st EXCEPT !.orders = Insert(@, a.id, Sent(a))]
    [] a.kind = "cancel" /\ a.id \in DOMAIN st.orders ->
         [st EXCEPT !.orders[a.id].status = "PendingCancel"]
    [] OTHER -> st

\* on_action_sent: a new order is recorded, a cancel marks an order that is not
\* finished; a cancel of an unknown order changes nothing.
OnActionSent(st, a) ==
  CASE a.kind = "new" -> [st EXCEPT !.orders = Insert(@, a.id, Sent(a))]
    [] a.kind = "cancel" /\ a.id \in DOMAIN st.orders
                         /\ st.orders[a.id].status \notin Terminal ->
         [st EXCEPT !.orders[a.id].status = "PendingCancel"]
    [] OTHER -> st

EventKey(e) == <<e.id, e.status, e.filled, e.remaining>>

IsNewOrderEvent(st, e) == EventKey(e) \notin st.seen

\* apply_order_event of an event not seen before: an order nobody recorded is
\* inserted as a buy of what the event reports; the event's figures replace the
\* order's.
ApplyOrderEvent(st, e) ==
  LET reported == e.filled + e.remaining
      order == IF e.id \in DOMAIN st.orders THEN st.orders[e.id]
               ELSE [side |-> "Buy", quantity |-> reported, filled |-> 0, status |-> e.status]
  IN [st EXCEPT
        !.seen = @ \cup {EventKey(e)},
        !.orders = Insert(@, e.id,
          [order EXCEPT !.status = e.status,
                        !.filled = e.filled,
                        !.quantity = IF reported > @ THEN reported ELSE @])]

--------------------------------------------------------------------------------
(* Trades.                                                                 *)

\* check_and_insert looks the trade id up in the window ...
IsNewTrade(st, t) == t.trade \notin ToSet(st.fills)

\* Fault: nothing is ever forgotten.
RememberedForever(fills, trade) == Append(fills, trade)

\* ... and remembers it, forgetting the oldest when the window is full.
Remembered(fills, trade) ==
  LET all == Append(fills, trade) IN IF Len(all) > FillWindow THEN Tail(all) ELSE all

\* OrderManager::apply_trade_event: the trade's quantity is added to the order's.
Filled(order, quantity) ==
  LET filled == order.filled + quantity
  IN [order EXCEPT !.filled = filled,
                   !.status = IF filled >= order.quantity THEN "Filled"
                              ELSE IF @ = "PendingNew" THEN "Active" ELSE @]

\* Fault: a sale is booked like a purchase.
ApplyTradeEventUnsigned(st, t) ==
  [st EXCEPT
     !.fills = Remembered(@, t.trade),
     !.position = @ + t.quantity,
     !.orders = [id \in DOMAIN @ |-> IF id = t.id THEN Filled(@[id], t.quantity) ELSE @[id]]]

\* RunnerState::apply_trade_event of a trade not seen before: the ledger, then the
\* order, if it is known.
ApplyTradeEvent(st, t) ==
  [st EXCEPT
     !.fills = Remembered(@, t.trade),
     !.position = @ + Signed(t.side, t.quantity),
     !.orders = [id \in DOMAIN @ |-> IF id = t.id THEN Filled(@[id], t.quantity) ELSE @[id]]]

--------------------------------------------------------------------------------
(* Intents.                                                                *)

\* What a callback may submit.
Intents ==
  [kind : {"target"}, target : Int]
  \cup [kind : {"orders"}, orders : Seq([side : Sides, quantity : Nat])]
  \cup [kind : {"cancel"}, id : Nat]
  \cup [kind : {"cancel_all"}]

\* What an order may still add to the position.
Exposure(order) ==
  IF order.status \in Terminal \/ order.filled >= order.quantity THEN 0
  ELSE Signed(order.side, order.quantity - order.filled)

\* effective_position: the ledger's quantity and the exposure of every live order.
EffectivePosition(st) ==
  st.position + FoldFunction(LAMBDA order, sum : Exposure(order) + sum, 0, st.orders)

NewOrder(id, side, quantity) ==
  [kind |-> "new", id |-> id, side |-> side, quantity |-> quantity]

\* How many order ids execute has drawn while it built these actions.
Drawn(actions) == Cardinality({i \in DOMAIN actions : actions[i].kind = "new"})

\* What one intent becomes: target_position_actions, target_orders_actions or a
\* cancel; cancel_all stands for one cancel intent per order of the instrument,
\* finished ones included, in the order in which the hash map lists them.
ActionsOf(intent, st, id) ==
  LET delta == intent.target - EffectivePosition(st)
  IN CASE intent.kind = "target" /\ delta = 0 -> << >>
       [] intent.kind = "target" /\ delta > 0 -> <<NewOrder(id, "Buy", delta)>>
       [] intent.kind = "target" /\ delta < 0 -> <<NewOrder(id, "Sell", -delta)>>
       [] intent.kind = "orders" ->
            [i \in 1..Len(intent.orders) |->
               NewOrder(id + i - 1, intent.orders[i].side, intent.orders[i].quantity)]
       [] intent.kind = "cancel" -> <<[kind |-> "cancel", id |-> intent.id]>>
       [] intent.kind = "cancel_all" ->
            LET ids == SetToSeq(DOMAIN st.orders)
            IN [i \in 1..Len(ids) |-> [kind |-> "cancel", id |-> ids[i]]]

\* execute: every intent of the batch is measured against the same state, that
\* from before the batch.
Execute(st, intents) ==
  FoldLeft(LAMBDA actions, intent :
             actions \o ActionsOf(intent, st, st.nextId + Drawn(actions)),
           << >>, intents)

\* apply_actions, after execute has drawn its ids.
Recorded(st, actions) ==
  FoldLeft(OnActionSent, [st EXCEPT !.nextId = @ + Drawn(actions)], actions)

================================================================================

------------------------------ MODULE MCTradeFlow ------------------------------
(* Instances of TradeFlow for TLC: what the callbacks of a strategy submit. *)
EXTENDS TradeFlow

Target(n) == [kind |-> "target", target |-> n]
CancelAll == [kind |-> "cancel_all"]
Orders(orders) == [kind |-> "orders", orders |-> orders]

Nothing == {<< >>}

\* A position held by a target, an order placed by hand, everything cancelled.
MixedBooks == {<< >>, <<Target(1)>>, <<CancelAll>>,
               <<Orders(<<[side |-> "Sell", quantity |-> 2]>>), Target(1)>>}

MixedReplies == {<< >>, <<Target(0)>>, <<[kind |-> "cancel", id |-> 1]>>}

CancelTimer == {<< >>, <<CancelAll>>}

\* The strategy of the quickstart: every order book asks for the target.
HoldOne == {<<Target(1)>>}

================================================================================

---------------------------- MODULE EngineRequests ----------------------------
(* A few requests to the engine whose answers depend on their order.         *)

CONSTANTS o1, o2

Buy  == [id |-> o1, side |-> "BUY",  price |-> 1, quantity |-> 1, type |-> "LIMIT"]
Sell == [id |-> o2, side |-> "SELL", price |-> 1, quantity |-> 1, type |-> "LIMIT"]

SubmitBuy  == [op |-> "submit", order |-> Buy]
SubmitSell == [op |-> "submit", order |-> Sell]
CancelBuy  == [op |-> "cancel", id |-> o1]
AddSell    == [op |-> "add", order |-> [Sell EXCEPT !.quantity = 2]]
ModifyBuy  == [op |-> "modify", id |-> o1, price |-> 1, quantity |-> 2]

AllRequests  == {SubmitBuy, AddSell, CancelBuy, ModifyBuy}
                  \cup {[op |-> r] : r \in {"bestBid", "bestAsk", "totalOrderCount"}}
FewRequests  == {SubmitBuy, SubmitSell, ModifyBuy, [op |-> "bestBid"]}
LateRequests == {SubmitBuy, [op |-> "bestBid"]}
=============================================================================

------------------------- MODULE OrderBookRefinement -------------------------
(***************************************************************************)
(* The order book of the code implements PriceTimePriority.  Two history   *)
(* variables carry what the mapping needs: the book as it was when the     *)
(* operation in progress started, and the call itself.  A call counts as   *)
(* served in the step that produces its answer; until then the abstract    *)
(* book is the book before the call.                                       *)
(***************************************************************************)
EXTENDS OrderBook

VARIABLES
  before,       \* levels when the matching loop was entered
  request       \* the call in progress or being answered

allVars == <<vars, before, request>>

Noted(r) ==
  /\ request' = r
  /\ before' = IF pc' = "match" THEN levels ELSE <<>>

RefInit == Init /\ before = <<>> /\ request = NoOrder

RefNext ==
  \/ \E o \in NewOrders :
       (AddOrder(o) \/ SubmitOrder(o)) /\ Noted([op |-> "place", order |-> o])
  \/ \E id \in Ids :
       CancelOrder(id) /\ Noted([op |-> "cancel", id |-> id])
  \/ \E id \in Ids, p \in Prices, q \in Quantities :
       ModifyOrder(id, p, q)
         /\ Noted([op |-> "modify", id |-> id, price |-> p, quantity |-> q])
  \/ (ConsumeMaker \/ ReduceMaker) /\ UNCHANGED <<before, request>>
  \/ (RestRemainder \/ DropRemainder) /\ before' = <<>> /\ UNCHANGED request
  \/ Return /\ request' = NoOrder /\ UNCHANGED before

RefSpec == RefInit /\ [][RefNext]_allVars

-----------------------------------------------------------------------------
(* The mapping.                                                            *)

SettledLevels == IF pc = "match" THEN before ELSE levels

Abstract == INSTANCE PriceTimePriority WITH
  Nothing  <- NoOrder,
  priority <- [s \in Side |-> InPriority(SettledLevels[s], s)],
  request  <- IF pc = "match" THEN NoOrder ELSE request,
  answer   <- IF pc = "return"
              THEN [result |-> result, trades |-> trades] ELSE NoOrder

\* The code keeps the promise: every call has the effect and the answer that
\* price-time priority gives it, for each order type, and an amended order keeps
\* its place only when the amendment does not improve it.
ImplementsPriceTimePriority == Abstract!Spec
=============================================================================

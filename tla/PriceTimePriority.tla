-------------------------- MODULE PriceTimePriority --------------------------
(***************************************************************************)
(* The book that serves every call in one step, by PriceTimeRules.         *)
(***************************************************************************)
EXTENDS PriceTimeRules

CONSTANTS
  Ids, Prices, Quantities,
  Nothing       \* no call is being answered

Orders == [id : Ids, side : Side, price : Prices, quantity : Quantities, type : OrderType]

VARIABLES
  priority,     \* the lists of resting orders
  request,      \* the call served last, until its answer is taken
  answer        \* [result, trades], or Nothing

vars == <<priority, request, answer>>

-----------------------------------------------------------------------------
Serve(r, outcome) ==
  /\ answer = Nothing
  /\ request' = r
  /\ priority' = outcome.lists
  /\ answer' = [result |-> outcome.result, trades |-> outcome.trades]

Take ==
  /\ answer # Nothing
  /\ request' = Nothing /\ answer' = Nothing
  /\ UNCHANGED priority

Init == priority = [s \in Side |-> <<>>] /\ request = Nothing /\ answer = Nothing

Next ==
  \/ \E o \in Orders :
       /\ Serve([op |-> "place", order |-> o], Placed(priority, o))
       /\ ~IsResting(priority, o.id)
  \/ \E id \in Ids :
       Serve([op |-> "cancel", id |-> id], Cancelled(priority, id))
  \/ \E id \in Ids, p \in Prices, q \in Quantities :
       Serve([op |-> "modify", id |-> id, price |-> p, quantity |-> q],
             Modified(priority, id, p, q))
  \/ Take

Spec == Init /\ [][Next]_vars
=============================================================================

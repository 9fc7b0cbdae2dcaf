------------------------------ MODULE OrderClock ------------------------------
(***************************************************************************)
(* The timestamps of src/include/order.hpp around the book: an order gets  *)
(* the next value of a process-wide counter when its caller constructs it, *)
(* which may be well before the book is given it, and modifyOrder          *)
(* constructs the order it resubmits.                                      *)
(*                                                                         *)
(* The counter only grows and only comparisons of its values mean          *)
(* anything, so the model keeps the comparisons and not the values: older  *)
(* has the pairs of ids of which the first has the older stamp.            *)
(* Whatever else the caller puts in an order is chosen when the book gets  *)
(* it, for nothing reads it before.                                        *)
(***************************************************************************)
EXTENDS OrderBook

CONSTANT MaxHeld    \* bound: orders constructed and not yet handed over

VARIABLES
  older,     \* pairs of ids in use: the first has the older timestamp
  held,      \* ids of the orders their callers have constructed and keep
  late       \* history: ids whose order was kept before the book got it

clockVars == <<older, held, late>>

-----------------------------------------------------------------------------
InBook == RestingIds \cup (IF incoming = NoOrder THEN {} ELSE {incoming.id})
InUse == InBook \cup held

\* Mutant: a modified order keeps the timestamp it had.
Restamped_NewIdsOnly(id) ==
  IF id \in InUse THEN older ELSE older \cup (InUse \X {id})

\* nextTimestamp, in the constructor: later than all the others.
Restamped(id) ==
  {x \in older : id \notin {x[1], x[2]}} \cup ((InUse \ {id}) \X {id})

\* The timestamps and the late arrivals after a step, without the ids that are
\* of no order any more.
Note(stamps, lates) ==
  /\ older' = stamps \cap (InUse' \X InUse')
  /\ late' = lates \cap InUse'

Construct(id) ==
  /\ Cardinality(held) < MaxHeld /\ id \notin InUse
  /\ held' = held \cup {id}
  /\ UNCHANGED vars
  /\ Note(Restamped(id), late)

\* The order is passed on: one that was kept, or a temporary of the call.
Place(o) ==
  /\ AddOrder(o) \/ SubmitOrder(o)
  /\ held' = held \ {o.id}
  /\ IF o.id \in held THEN Note(older, late \cup {o.id})
                      ELSE Note(Restamped(o.id), late)

Cancel(id) == CancelOrder(id) /\ UNCHANGED held /\ Note(older, late)

\* Case 2 of modifyOrder constructs a fresh order.
Modify(id, newPrice, newQuantity) ==
  /\ ModifyOrder(id, newPrice, newQuantity)
  /\ UNCHANGED held
  /\ IF pc' = "match" THEN Note(Restamped(id), late \ {id}) ELSE Note(older, late)

Proceed == Run /\ UNCHANGED held /\ Note(older, late)

-----------------------------------------------------------------------------
ClockInit == Init /\ older = {} /\ held = {} /\ late = {}

ClockNext ==
  \/ \E id \in Ids : Construct(id) \/ Cancel(id)
  \/ \E o \in NewOrders : Place(o)
  \/ \E id \in Ids, p \in Prices, q \in Quantities : Modify(id, p, q)
  \/ Proceed

ClockSpec == ClockInit /\ [][ClockNext]_<<vars, clockVars>>

-----------------------------------------------------------------------------
(* Properties.                                                             *)

\* An order stands behind a younger one only if its caller kept it: fills,
\* cancellations and both kinds of modification, with the timestamp that the
\* second one takes, leave a level in the order of its timestamps.
OnlyLateOrdersMisplaced ==
  \A s \in Side : \A x, y \in Slots(s) :
    x[1] = y[1] /\ x[2] < y[2] =>
      <<At(s, x).id, At(s, y).id>> \in older \/ At(s, y).id \in late
=============================================================================

--------------------------- MODULE EngineRefinement ---------------------------
(***************************************************************************)
(* The engine implements EngineService: whatever its threads do, a client  *)
(* sees requests that take effect at once and one at a time.  A request    *)
(* counts as accepted when it enters the queue and as served when its      *)
(* promise is fulfilled; until then the abstract book is the one before    *)
(* it, which a history variable keeps.                                     *)
(*                                                                         *)
(* Clients follow the conventions of the book: no id names two orders, and *)
(* Requests has no addOrder that would cross.                              *)
(***************************************************************************)
EXTENDS MatchingEngine

VARIABLE before     \* levels when the book's operation in progress began

Places(r) == r.op \in {"add", "submit"}

OrderIdsDiffer ==
  \A c, d \in Clients : \A m \in DOMAIN calls[c], n \in DOMAIN calls[d] :
    Places(calls[c][m]) /\ Places(calls[d][n]) /\ calls[c][m].order.id = calls[d][n].order.id
      => <<c, m>> = <<d, n>>

RefInit == Init /\ before = <<>>

RefNext ==
  /\ Next
  /\ OrderIdsDiffer'
  /\ before' = IF pc' = "idle" THEN <<>> ELSE IF pc = "idle" THEN levels ELSE before

RefSpec == RefInit /\ [][RefNext]_<<vars, before>>

-----------------------------------------------------------------------------
SettledLevels == IF pc = "idle" THEN levels ELSE before

Service == INSTANCE EngineService WITH
  lists    <- [s \in Book!Side |-> Book!InPriority(SettledLevels[s], s)],
  doing    <- [c \in Clients |-> IF doing[c] = "idle" THEN "idle" ELSE "called"],
  accepted <- sent,
  open     <- owner # "destroyed"

\* Every client sees what the single-step service would show it: requests take
\* effect inside their calls, in the order they were accepted, whole, and a
\* read never sees a book in the middle of an operation.
ImplementsService == Service!Spec
=============================================================================

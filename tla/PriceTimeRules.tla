---------------------------- MODULE PriceTimeRules ----------------------------
(***************************************************************************)
(* What an order book promises its callers, whatever its data structures.  *)
(* A side is one list of resting orders, best price first and, at a price, *)
(* earliest first; lists is a function from the two sides to their lists.  *)
(* A call has one outcome, and how a taker is filled is said by a formula: *)
(* a maker gets what the makers ahead of it leave of the taker's quantity. *)
(*                                                                         *)
(* There is no addOrder here: adding an order that does not cross is       *)
(* placing it.                                                             *)
(***************************************************************************)
EXTENDS Integers, Sequences, FiniteSets, FiniteSetsExt

Side      == {"BUY", "SELL"}
OrderType == {"LIMIT", "MARKET", "IOC", "FOK"}

Opposite(s)          == IF s = "BUY" THEN "SELL" ELSE "BUY"
Better(s, p, q)      == IF s = "BUY" THEN p > q ELSE p < q
Accepts(taker, p)    == \/ taker.type = "MARKET"
                        \/ p = taker.price
                        \/ Better(Opposite(taker.side), p, taker.price)

Quantity(list, S) == MapThenSumSet(LAMBDA i : list[i].quantity, S)
Eligible(list, taker) == {i \in DOMAIN list : Accepts(taker, list[i].price)}
Available(list, taker) == Quantity(list, Eligible(list, taker))

\* What maker i gets of the taker.
Share(list, taker, i) ==
  IF i \notin Eligible(list, taker) THEN 0
  ELSE Max({0, Min({list[i].quantity, taker.quantity - Quantity(list, 1 .. i-1)})})

\* The makers that get something come first, those that get all of theirs
\* before the one that may get a part.
Hits(list, taker) == Cardinality({i \in DOMAIN list : Share(list, taker, i) > 0})
Gone(list, taker) ==
  Cardinality({i \in DOMAIN list : Share(list, taker, i) = list[i].quantity})

TradeWith(maker, taker, quantity) ==
  [buy   |-> IF taker.side = "BUY" THEN taker.id ELSE maker.id,
   sell  |-> IF taker.side = "BUY" THEN maker.id ELSE taker.id,
   price |-> maker.price, quantity |-> quantity]

TradesOf(list, taker) ==
  [i \in 1 .. Hits(list, taker) |-> TradeWith(list[i], taker, Share(list, taker, i))]

Remaining(list, taker) ==
  LET g == Gone(list, taker)
  IN  [i \in 1 .. Len(list) - g |->
         [list[i + g] EXCEPT !.quantity = @ - Share(list, taker, i + g)]]

Left(list, taker) == taker.quantity - Min({taker.quantity, Available(list, taker)})

\* Behind every order of a price at least as good.
Insert(list, o) ==
  LET k == Cardinality({i \in DOMAIN list : ~Better(o.side, o.price, list[i].price)})
  IN  SubSeq(list, 1, k) \o <<o>> \o SubSeq(list, k + 1, Len(list))

Killed(list, taker) ==
  \/ taker.quantity = 0
  \/ taker.type = "FOK" /\ Available(list, taker) < taker.quantity

-----------------------------------------------------------------------------
(* The outcome of a call: the lists after it and what it answers.          *)

Outcome(lists, result, trades) == [lists |-> lists, result |-> result, trades |-> trades]

\* The taker is matched with the makers of a book, and its rest is entered.
Placed(lists, taker) ==
  LET makers  == lists[Opposite(taker.side)]
      rest    == [taker EXCEPT !.quantity = Left(makers, taker)]
      matched == [lists EXCEPT
                    ![Opposite(taker.side)] = Remaining(@, taker),
                    ![taker.side] = IF rest.quantity > 0 /\ taker.type = "LIMIT"
                                    THEN Insert(@, rest) ELSE @]
  IN  IF Killed(makers, taker) THEN Outcome(lists, "ok", <<>>)
                               ELSE Outcome(matched, "ok", TradesOf(makers, taker))

Resting(lists) == UNION {{lists[s][i] : i \in DOMAIN lists[s]} : s \in Side}
IsResting(lists, id) == \E o \in Resting(lists) : o.id = id
RestingOrder(lists, id) == CHOOSE o \in Resting(lists) : o.id = id
Without(lists, id) == [s \in Side |-> SelectSeq(lists[s], LAMBDA o : o.id # id)]

Unknown(lists) == Outcome(lists, "absent", <<>>)

Cancelled(lists, id) ==
  IF IsResting(lists, id) THEN Outcome(Without(lists, id), "ok", <<>>) ELSE Unknown(lists)

Amended(lists, id, quantity) ==
  [s \in Side |-> [i \in DOMAIN lists[s] |->
     IF lists[s][i].id = id THEN [lists[s][i] EXCEPT !.quantity = quantity]
                            ELSE lists[s][i]]]

Modified(lists, id, price, quantity) ==
  LET old == RestingOrder(lists, id)
  IN  CASE ~IsResting(lists, id) -> Unknown(lists)
        [] IsResting(lists, id) /\ quantity = 0 -> Cancelled(lists, id)
        [] IsResting(lists, id) /\ quantity > 0
             /\ price = old.price /\ quantity <= old.quantity ->
               Outcome(Amended(lists, id, quantity), "ok", <<>>)
        [] OTHER ->
               Placed(Without(lists, id), [old EXCEPT !.price = price, !.quantity = quantity])

BestOf(lists, s) == IF lists[s] = <<>> THEN {} ELSE {Head(lists[s]).price}
Count(lists)     == Len(lists["BUY"]) + Len(lists["SELL"])
=============================================================================

-------------------------- MODULE MCRecordAndReplay --------------------------
(* RecordAndReplay with the requests of its runs.  Ids and quantities are    *)
(* numbers, for a line that is torn keeps the first digits of its last one.  *)
EXTENDS RecordAndReplay

Limit(id, side, price, quantity) ==
  [id |-> id, side |-> side, price |-> price, quantity |-> quantity, type |-> "LIMIT"]

\* Resting orders, and takers of each type that trade with one or two of them.
MCRequests ==
  {[tag |-> "ADD", order |-> o] :
     o \in {Limit(1, "BUY", 2, 112), Limit(12, "BUY", 2, 1), Limit(2, "SELL", 1, 1)}}
  \cup
  {[tag |-> "SUBMIT", order |-> o] :
     o \in {Limit(1, "SELL", 1, 113),
            [Limit(2, "SELL", 2, 2) EXCEPT !.type = "FOK"],
            [Limit(2, "BUY", 1, 2)  EXCEPT !.type = "MARKET"]}}
  \cup {[tag |-> "CANCEL", id |-> 12]}
  \cup {[tag |-> "MODIFY", id |-> 1, price |-> 2, quantity |-> q] : q \in {1, 113}}

\* Two prices that six decimals do not tell apart when Grid = 4, and one that
\* is printed as it is.
OffGridRequests ==
  {[tag |-> "ADD", order |-> Limit(1, "BUY", 8, 1)],
   [tag |-> "ADD", order |-> Limit(12, "BUY", 9, 1)],
   [tag |-> "SUBMIT", order |-> Limit(2, "SELL", 4, 1)]}
=============================================================================

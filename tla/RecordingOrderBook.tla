------------------------- MODULE RecordingOrderBook -------------------------
(***************************************************************************)
(* The recorder of src/src/recording_order_book.cpp: an OrderBook whose    *)
(* calls are written to a log.  The request is written and flushed before  *)
(* the call, the trades one line each after it, and flushed together.      *)
(*                                                                         *)
(* A line is a record.  Its sequence number is its place in the log and is *)
(* left out; its price is written with six decimals, see Printed.          *)
(***************************************************************************)
EXTENDS Integers, Sequences

CONSTANTS
  Requests,                                     \* what callers may ask for
  MaxCalls,                                     \* bound: calls recorded
  Grid,                                         \* prices that six decimals can tell apart
  Ids, Prices, Quantities, MaxUint, NoOrder     \* of OrderBook

ASSUME GridAssumption == Grid \in Nat \ {0}

VARIABLES
  levels, orderIndex, pc, incoming, trades, result,   \* book_
  log,          \* what was written to log_
  flushed,      \* how many lines of it are flushed
  stage,        \* "idle", "writing", "logged" (not yet called), "calling", "trades"
  request,      \* the parameters of the call in progress
  unlogged,     \* the trades logTrades has not written yet
  completed     \* history: book_ after each call

Book == INSTANCE OrderBook WITH Discipline <- {}

ASSUME BookAssumption ==
  Book!PricesAssumption /\ Book!QuantitiesAssumption /\ Book!NoOrderAssumption
ASSUME RequestsAssumption ==
  \A r \in Requests :
    \/ r \in [tag : {"ADD", "SUBMIT"}, order : Book!NewOrders]
    \/ r \in [tag : {"CANCEL"}, id : Ids]
    \/ r \in [tag : {"MODIFY"}, id : Ids, price : Prices, quantity : Quantities]

bookVars == <<levels, orderIndex, pc, incoming, trades, result>>
recorderVars == <<bookVars, log, flushed, stage, request, unlogged, completed>>

-----------------------------------------------------------------------------
\* std::fixed and setprecision(6): the nearest multiple of 0.000001.
Printed(price) == ((price + Grid \div 2) \div Grid) * Grid

\* The line of a request.  CANCEL has no price.
Line(r) ==
  CASE r.tag \in {"ADD", "SUBMIT"} -> [r EXCEPT !.order.price = Printed(@)]
    [] r.tag = "MODIFY"            -> [r EXCEPT !.price = Printed(@)]
    [] r.tag = "CANCEL"            -> r

TradeLine(t) == [tag |-> "TRADE", trade |-> [t EXCEPT !.price = Printed(@)]]

WriteRequest(r) ==
  /\ stage = "idle" /\ Len(completed) < MaxCalls
  /\ log' = Append(log, Line(r))
  /\ stage' = "writing" /\ request' = r
  /\ UNCHANGED <<bookVars, flushed, unlogged, completed>>

\* Mutant: the request is left in the stream's buffer.
FlushRequest_Buffered ==
  /\ stage = "writing" /\ stage' = "logged"
  /\ UNCHANGED <<bookVars, log, flushed, request, unlogged, completed>>

FlushRequest ==
  /\ stage = "writing" /\ stage' = "logged"
  /\ flushed' = Len(log)
  /\ UNCHANGED <<bookVars, log, request, unlogged, completed>>

\* The call of book_ named by a request.
Perform(r) ==
  \/ r.tag = "ADD"    /\ Book!AddOrder(r.order)
  \/ r.tag = "CANCEL" /\ Book!CancelOrder(r.id)
  \/ r.tag = "SUBMIT" /\ Book!SubmitOrder(r.order)
  \/ r.tag = "MODIFY" /\ Book!ModifyOrder(r.id, r.price, r.quantity)

Delegate ==
  /\ stage = "logged" /\ stage' = "calling"
  /\ Perform(request)
  /\ UNCHANGED <<log, flushed, request, unlogged, completed>>

Match ==
  /\ \/ Book!ConsumeMaker \/ Book!ReduceMaker
     \/ Book!RestRemainder \/ Book!DropRemainder
  /\ UNCHANGED <<log, flushed, stage, request, unlogged, completed>>

CallReturns ==
  /\ Book!Return
  /\ unlogged' = trades
  /\ stage' = IF trades = <<>> THEN "idle" ELSE "trades"
  /\ completed' = Append(completed, [levels |-> levels, orderIndex |-> orderIndex])
  /\ UNCHANGED <<log, flushed, request>>

LogTrade ==
  /\ stage = "trades" /\ unlogged # <<>>
  /\ log' = Append(log, TradeLine(Head(unlogged)))
  /\ unlogged' = Tail(unlogged)
  /\ UNCHANGED <<bookVars, flushed, stage, request, completed>>

FlushTrades ==
  /\ stage = "trades" /\ unlogged = <<>>
  /\ flushed' = Len(log) /\ stage' = "idle"
  /\ UNCHANGED <<bookVars, log, request, unlogged, completed>>

-----------------------------------------------------------------------------
RecorderInit ==
  /\ Book!Init
  /\ log = <<>> /\ flushed = 0 /\ stage = "idle" /\ request = NoOrder
  /\ unlogged = <<>> /\ completed = <<>>

FinishCall == Delegate \/ Match \/ CallReturns \/ LogTrade \/ FlushTrades
=============================================================================

------------------------------ MODULE OrderBook ------------------------------
(***************************************************************************)
(* The limit order book of src/src/order_book.cpp: two price-sorted maps   *)
(* of FIFO deques, the id index, and the four mutating operations.         *)
(*                                                                         *)
(* The book is single-threaded, so at most one operation is in progress.   *)
(* An operation starts when pc = "idle", runs the matching loop of         *)
(* submitOrder one iteration per step while pc = "match", and hands its    *)
(* value to the caller when pc = "return".  The two mirrored halves of the *)
(* code (bids_/asks_, BUY/SELL) are one definition with a side parameter.  *)
(*                                                                         *)
(* Prices are integers (only their order matters to the code), and the     *)
(* timestamp of an order is left out: the book copies it into trades and   *)
(* never reads it.                                                         *)
(***************************************************************************)
EXTENDS Integers, Sequences, FiniteSets, FiniteSetsExt, SequencesExt

CONSTANTS
  Ids,         \* order ids
  Prices,      \* limit prices
  Quantities,  \* quantities a caller may pass
  MaxUint,     \* the largest value of uint64_t: sums wrap modulo MaxUint + 1
  Discipline,  \* the conventions the callers follow, see Conventions
  NoOrder      \* stands for "no operation in progress"

(***************************************************************************)
(* What the code does not enforce and its callers may or may not respect:  *)
(*   fresh_ids     an order is only sent with an id that no resting order  *)
(*                 has                                                     *)
(*   limit_adds    addOrder is called with LIMIT orders only               *)
(*   positive_adds addOrder is not called with quantity 0                  *)
(*   passive_adds  addOrder is not called with a price that crosses        *)
(***************************************************************************)
Conventions == {"fresh_ids", "limit_adds", "positive_adds", "passive_adds"}

Side      == {"BUY", "SELL"}
OrderType == {"LIMIT", "MARKET", "IOC", "FOK"}
Uint64    == 0 .. MaxUint
Order     == [id : Ids, side : Side, price : Prices, quantity : Uint64,
              type : OrderType]
Trade     == [buy : Ids, sell : Ids, price : Prices, quantity : Uint64]
Location  == [side : Side, price : Prices]

\* A non-empty set of map keys has a first one under std::less and under
\* std::greater.  Every finite set of integers satisfies this.
ASSUME PricesAssumption ==
  /\ Prices \subseteq Int
  /\ \A P \in (SUBSET Prices) \ {{}} :
       /\ \E p \in P : \A q \in P : p <= q
       /\ \E p \in P : \A q \in P : q <= p
ASSUME QuantitiesAssumption == MaxUint \in Nat /\ Quantities \subseteq Uint64
ASSUME NoOrderAssumption == NoOrder \notin Order
ASSUME DisciplineAssumption == Discipline \subseteq Conventions

VARIABLES
  levels,      \* levels["BUY"] is bids_, levels["SELL"] is asks_: price -> deque
  orderIndex,  \* order_index_: id -> location
  pc,          \* "idle", "match" (inside the while loop), "return"
  incoming,    \* submitOrder's by-value parameter, its quantity counting down
  trades,      \* submitOrder's result vector
  result       \* "ok", or "absent" for cancelOrder's false, modifyOrder's nullopt

book == <<levels, orderIndex>>
vars == <<levels, orderIndex, pc, incoming, trades, result>>

-----------------------------------------------------------------------------
(* The containers.                                                         *)

Opposite(s) == IF s = "BUY" THEN "SELL" ELSE "BUY"

\* The maps' comparators: std::greater for bids, std::less for asks.
Better(s, p, q) == IF s = "BUY" THEN p > q ELSE p < q

\* Mutant: the worst level is taken, rbegin() for begin().
Best_Worst(s) ==
  CHOOSE p \in DOMAIN levels[s] : \A q \in DOMAIN levels[s] : q = p \/ Better(s, q, p)

\* begin()->first of the map of side s.
Best(s) ==
  CHOOSE p \in DOMAIN levels[s] : \A q \in DOMAIN levels[s] : q = p \/ Better(s, p, q)

\* operator[]: a missing level is default-constructed empty.
Level(map, p) == IF p \in DOMAIN map THEN map[p] ELSE <<>>

\* A level's deque is replaced; the map entry goes when the deque is empty.
SetLevel(map, p, q) ==
  [x \in IF q = <<>> THEN DOMAIN map \ {p} ELSE DOMAIN map \cup {p} |->
     IF x = p THEN q ELSE map[x]]

\* std::find_if by id in a deque, and erase of the element found.
HasId(q, id)  == \E i \in DOMAIN q : q[i].id = id
FindId(q, id) == CHOOSE i \in DOMAIN q : q[i].id = id /\ \A j \in 1 .. i-1 : q[j].id # id
EraseId(q, id) ==
  SubSeq(q, 1, FindId(q, id) - 1) \o SubSeq(q, FindId(q, id) + 1, Len(q))

\* The index has the id, and the level it points to holds an order of that id.
Located(id) ==
  /\ id \in DOMAIN orderIndex
  /\ HasId(Level(levels[orderIndex[id].side], orderIndex[id].price), id)

\* Mutant: the index entry is left behind.
WithoutId_Kept(id) == orderIndex

WithoutId(id) == [x \in DOMAIN orderIndex \ {id} |-> orderIndex[x]]

\* The positions <<price, place in the deque>> of a side, and price-time order.
Slots(s) == UNION {{p} \X DOMAIN levels[s][p] : p \in DOMAIN levels[s]}
At(s, slot) == levels[s][slot[1]][slot[2]]
UpTo(s, slot) ==
  {x \in Slots(s) : \/ Better(s, x[1], slot[1])
                    \/ x[1] = slot[1] /\ x[2] <= slot[2]}
Total(s, S) == MapThenSumSet(LAMBDA x : At(s, x).quantity, S)

\* The orders of a side in priority: level after level, front to back.
InPriority(map, s) ==
  LET prices == SetToSortSeq(DOMAIN map, LAMBDA p, q : Better(s, p, q))
  IN  FlattenSeq([i \in DOMAIN prices |-> map[prices[i]]])

-----------------------------------------------------------------------------
(* The queries.                                                            *)

\* An optional is the set of the values it holds.
BestBid == IF DOMAIN levels["BUY"]  = {} THEN {} ELSE {Best("BUY")}
BestAsk == IF DOMAIN levels["SELL"] = {} THEN {} ELSE {Best("SELL")}
TotalOrderCount == Cardinality(DOMAIN orderIndex)

\* Mutant: the map is walked from its other end.
Ranked_Worst(s, n) ==
  CHOOSE p \in DOMAIN levels[s] :
    Cardinality({q \in DOMAIN levels[s] : Better(s, p, q)}) = n - 1

\* The n-th price of a side in the order of its map.
Ranked(s, n) ==
  CHOOSE p \in DOMAIN levels[s] :
    Cardinality({q \in DOMAIN levels[s] : Better(s, q, p)}) = n - 1

\* The first maxLevels levels of a side, with their aggregates.
GetDepth(s, maxLevels) ==
  LET Row(p) == [price |-> p, order_count |-> Len(levels[s][p]),
                 aggregate_quantity |->
                   Total(s, {p} \X DOMAIN levels[s][p]) % (MaxUint + 1)]
  IN  [i \in 1 .. Min({maxLevels, Cardinality(DOMAIN levels[s])}) |-> Row(Ranked(s, i))]

-----------------------------------------------------------------------------
(* Order types and the fill-or-kill preview.                               *)

\* Mutant: the limit price itself does not cross.
Crosses_Strict(s, limit, p) == IF s = "BUY" THEN p < limit ELSE p > limit

Crosses(s, limit, p) == IF s = "BUY" THEN p <= limit ELSE p >= limit
SkipsPriceCheck(type) == type = "MARKET"

\* Mutant: the remainder of an IOC order rests.
NeverRests_NotIoc(type) == type \in {"MARKET", "FOK"}

NeverRests(type) == type # "LIMIT"

\* Mutant: the preview counts every level of the opposite side.
CanFullyFill_AnyPrice(o) ==
  LET s == Opposite(o.side)
  IN  \E x \in Slots(s) : Total(s, UpTo(s, x)) % (MaxUint + 1) >= o.quantity

\* Mutant: the preview wants more than the quantity.
CanFullyFill_More(o) ==
  LET s == Opposite(o.side)
  IN  \E x \in Slots(s) :
        /\ Crosses(o.side, o.price, x[1])
        /\ Total(s, UpTo(s, x)) % (MaxUint + 1) > o.quantity

\* canFullyFill_: the running uint64_t sum over the crossing orders, best first,
\* reaches the quantity at one of them.
CanFullyFill(o) ==
  LET s == Opposite(o.side)
  IN  \E x \in Slots(s) :
        /\ Crosses(o.side, o.price, x[1])
        /\ Total(s, UpTo(s, x)) % (MaxUint + 1) >= o.quantity

\* submitOrder's early returns.
Refused(o) == o.quantity = 0 \/ (o.type = "FOK" /\ ~CanFullyFill(o))

-----------------------------------------------------------------------------
(* Effects on the containers.                                              *)

PushBack(o) ==
  /\ levels' = [levels EXCEPT ![o.side] =
                  SetLevel(@, o.price, Append(Level(@, o.price), o))]
  /\ orderIndex' = [x \in DOMAIN orderIndex \cup {o.id} |->
                      IF x = o.id THEN [side |-> o.side, price |-> o.price]
                                  ELSE orderIndex[x]]

Erase(id) ==
  LET at == orderIndex[id]
  IN  /\ levels' = [levels EXCEPT ![at.side] =
                      SetLevel(@, at.price, EraseId(@[at.price], id))]
      /\ orderIndex' = WithoutId(id)

\* The value handed to the caller by an operation that ends in this step.
Answer(value) == pc' = "return" /\ result' = value

NoMatching == UNCHANGED <<incoming, trades>>

-----------------------------------------------------------------------------
(* What callers send.                                                      *)

NewOrders == [id : Ids, side : Side, price : Prices, quantity : Quantities,
              type : OrderType]

RestingIds == UNION {{At(s, x).id : x \in Slots(s)} : s \in Side}

Fresh(id) == "fresh_ids" \in Discipline => id \notin RestingIds

Addable(o) ==
  /\ Fresh(o.id)
  /\ "limit_adds"    \in Discipline => o.type = "LIMIT"
  /\ "positive_adds" \in Discipline => o.quantity > 0
  /\ "passive_adds"  \in Discipline =>
       \A p \in DOMAIN levels[Opposite(o.side)] : ~Crosses(o.side, o.price, p)

-----------------------------------------------------------------------------
(* The operations.                                                         *)

AddOrder(o) ==
  /\ pc = "idle" /\ Addable(o)
  /\ PushBack(o)
  /\ Answer("ok") /\ NoMatching

CancelOrder(id) ==
  /\ pc = "idle"
  /\ \/ Located(id)  /\ Erase(id)      /\ Answer("ok")
     \/ ~Located(id) /\ UNCHANGED book /\ Answer("absent")
  /\ NoMatching

SubmitOrder(o) ==
  /\ pc = "idle" /\ Fresh(o.id)
  /\ incoming' = o
  /\ \/ Refused(o)  /\ Answer("ok")
     \/ ~Refused(o) /\ pc' = "match" /\ UNCHANGED result
  /\ UNCHANGED <<levels, orderIndex, trades>>

\* Mutant: a larger quantity is also written in place.
KeepsPlace_AnyQuantity(old, newPrice, newQuantity) == newPrice = old.price

\* modifyOrder, case 1: the quantity is overwritten where the order stands.
KeepsPlace(old, newPrice, newQuantity) ==
  newPrice = old.price /\ newQuantity <= old.quantity

ModifyInPlace(id, newQuantity) ==
  LET at == orderIndex[id]
      k  == FindId(levels[at.side][at.price], id)
  IN  levels' = [levels EXCEPT ![at.side][at.price][k].quantity = newQuantity]

ModifyOrder(id, newPrice, newQuantity) ==
  LET at    == orderIndex[id]
      deque == levels[at.side][at.price]
      old   == deque[FindId(deque, id)]
  IN  /\ pc = "idle"
      /\ \/ /\ ~Located(id)
            /\ UNCHANGED book /\ Answer("absent") /\ NoMatching
         \/ /\ Located(id) /\ newQuantity = 0
            /\ Erase(id) /\ Answer("ok") /\ NoMatching
         \/ /\ Located(id) /\ newQuantity > 0
            /\ KeepsPlace(old, newPrice, newQuantity)
            /\ ModifyInPlace(id, newQuantity)
            /\ Answer("ok") /\ NoMatching /\ UNCHANGED orderIndex
         \/ /\ Located(id) /\ newQuantity > 0
            /\ ~KeepsPlace(old, newPrice, newQuantity)
            /\ Erase(id)
            /\ incoming' = [id |-> id, side |-> at.side, price |-> newPrice,
                            quantity |-> newQuantity, type |-> "LIMIT"]
            /\ pc' = "match"
            /\ UNCHANGED <<trades, result>>

-----------------------------------------------------------------------------
(* One iteration of submitOrder's matching loop, and what follows it.      *)

MakerSide == Opposite(incoming.side)
Maker     == Head(levels[MakerSide][Best(MakerSide)])

\* fill_qty is the maker's whole quantity.
\* Mutant: whatever the taker wants.
MakerFilled_Always == TRUE

MakerFilled == Maker.quantity <= incoming.quantity

LoopCondition ==
  /\ incoming.quantity > 0
  /\ DOMAIN levels[MakerSide] # {}
  /\ \/ SkipsPriceCheck(incoming.type)
     \/ Crosses(incoming.side, incoming.price, Best(MakerSide))

\* Mutant: the trade is at the taker's price.
Fill_TakerPrice(quantity) ==
  /\ trades' = Append(trades,
       [buy   |-> IF incoming.side = "BUY" THEN incoming.id ELSE Maker.id,
        sell  |-> IF incoming.side = "BUY" THEN Maker.id ELSE incoming.id,
        price |-> incoming.price, quantity |-> quantity])
  /\ incoming' = [incoming EXCEPT !.quantity = @ - quantity]
  /\ UNCHANGED <<pc, result>>

\* A trade at the maker's price, and the taker's remaining quantity.
Fill(quantity) ==
  /\ trades' = Append(trades,
       [buy   |-> IF incoming.side = "BUY" THEN incoming.id ELSE Maker.id,
        sell  |-> IF incoming.side = "BUY" THEN Maker.id ELSE incoming.id,
        price |-> Maker.price, quantity |-> quantity])
  /\ incoming' = [incoming EXCEPT !.quantity = @ - quantity]
  /\ UNCHANGED <<pc, result>>

\* Mutant: a maker without quantity is skipped and stays at the front.
ConsumeMaker_SkipsEmpty ==
  /\ pc = "match" /\ LoopCondition
  /\ MakerFilled
  /\ IF Maker.quantity = 0 THEN UNCHANGED vars
     ELSE /\ Fill(Maker.quantity)
          /\ levels' = [levels EXCEPT ![MakerSide] =
                          SetLevel(@, Best(MakerSide), Tail(@[Best(MakerSide)]))]
          /\ orderIndex' = WithoutId(Maker.id)

\* The maker is filled: removeFrontOrder_ pops it and drops it from the index.
ConsumeMaker ==
  /\ pc = "match" /\ LoopCondition
  /\ MakerFilled
  /\ Fill(Maker.quantity)
  /\ levels' = [levels EXCEPT ![MakerSide] =
                  SetLevel(@, Best(MakerSide), Tail(@[Best(MakerSide)]))]
  /\ orderIndex' = WithoutId(Maker.id)

\* The taker is filled: the maker stays at the front with what is left of it.
ReduceMaker ==
  /\ pc = "match" /\ LoopCondition
  /\ ~MakerFilled
  /\ Fill(incoming.quantity)
  /\ levels' = [levels EXCEPT ![MakerSide][Best(MakerSide)][1].quantity =
                  @ - incoming.quantity]
  /\ UNCHANGED orderIndex

RestRemainder ==
  /\ pc = "match" /\ ~LoopCondition
  /\ incoming.quantity > 0 /\ ~NeverRests(incoming.type)
  /\ PushBack(incoming)
  /\ Answer("ok") /\ NoMatching

DropRemainder ==
  /\ pc = "match" /\ ~LoopCondition
  /\ incoming.quantity = 0 \/ NeverRests(incoming.type)
  /\ UNCHANGED book
  /\ Answer("ok") /\ NoMatching

\* The caller takes the value; the frame of the operation is gone.
Return ==
  /\ pc = "return"
  /\ pc' = "idle" /\ incoming' = NoOrder /\ trades' = <<>> /\ result' = "none"
  /\ UNCHANGED book

-----------------------------------------------------------------------------
Init ==
  /\ levels = [s \in Side |-> <<>>]
  /\ orderIndex = <<>>
  /\ pc = "idle" /\ incoming = NoOrder /\ trades = <<>> /\ result = "none"

\* A call in progress runs on: nothing in the book blocks.
Run == ConsumeMaker \/ ReduceMaker \/ RestRemainder \/ DropRemainder \/ Return

Call ==
  \/ \E o \in NewOrders : AddOrder(o) \/ SubmitOrder(o)
  \/ \E id \in Ids : CancelOrder(id)
  \/ \E id \in Ids, p \in Prices, q \in Quantities : ModifyOrder(id, p, q)

Next == Call \/ Run

Spec     == Init /\ [][Next]_vars
FairSpec == Spec /\ WF_vars(Run)

-----------------------------------------------------------------------------
(* Properties.                                                             *)

\* A map from prices to deques of orders.
IsBookMap(map) ==
  /\ map = [p \in DOMAIN map |-> map[p]]
  /\ DOMAIN map \subseteq Prices
  /\ \A p \in DOMAIN map : map[p] \in Seq(Order)

IsIndex(index) ==
  /\ index = [id \in DOMAIN index |-> index[id]]
  /\ DOMAIN index \subseteq Ids
  /\ \A id \in DOMAIN index : index[id] \in Location

BookTypeOK ==
  /\ levels = [s \in Side |-> levels[s]] /\ \A s \in Side : IsBookMap(levels[s])
  /\ IsIndex(orderIndex)

\* The types of the variables, a taker in hand whenever the loop runs.
TypeOK ==
  /\ BookTypeOK
  /\ pc \in {"idle", "match", "return"}
  /\ incoming \in Order \cup {NoOrder}
  /\ pc = "match" => incoming # NoOrder
  /\ trades \in Seq(Trade)
  /\ result \in {"none", "ok", "absent"}

\* Each order of a deque stands there once and is indexed there.
LevelIndexed(index, q, s, p) ==
  \A k \in DOMAIN q :
    /\ q[k].side = s /\ q[k].price = p
    /\ q[k].id \in DOMAIN index
    /\ index[q[k].id] = [side |-> s, price |-> p]
    /\ \A j \in DOMAIN q : q[j].id = q[k].id => j = k

\* order_index_ and the two maps describe the same orders at every point of
\* every operation: each indexed id is in the deque the index points to, each
\* resting order is indexed where it rests and rests once, and no empty level
\* stays behind.  cancelOrder, modifyOrder, totalOrderCount and the loop's
\* front() rely on it.
IndexTracksBook ==
  /\ \A s \in Side : \A p \in DOMAIN levels[s] :
       levels[s][p] # <<>> /\ LevelIndexed(orderIndex, levels[s][p], s, p)
  /\ \A id \in DOMAIN orderIndex : Located(id)

\* No bid reaches an ask: whatever could trade has traded by the time the
\* remainder rests, in submitOrder and in modifyOrder's cancel and resubmit.
BookUncrossed ==
  \A b \in DOMAIN levels["BUY"], a \in DOMAIN levels["SELL"] : b < a

\* Only LIMIT orders with something left to fill ever rest.
OnlyLiveLimitsRest ==
  \A s \in Side : \A x \in Slots(s) : At(s, x).type = "LIMIT" /\ At(s, x).quantity > 0

\* The fills of one operation walk the opposite side best price first, inside
\* the taker's limit, and leave nothing better than their last price behind.
NoTradeThrough ==
  incoming # NoOrder =>
    \A i \in DOMAIN trades :
      /\ \/ SkipsPriceCheck(incoming.type)
         \/ Crosses(incoming.side, incoming.price, trades[i].price)
      /\ \A j \in 1 .. i : ~Better(MakerSide, trades[i].price, trades[j].price)
      /\ \A p \in DOMAIN levels[MakerSide] : ~Better(MakerSide, p, trades[i].price)

\* The makers the preview of a FOK order counts.
Liquidity(o) ==
  LET s == Opposite(o.side)
  IN  Total(s, {x \in Slots(s) : Crosses(o.side, o.price, x[1])})

\* A FOK order fills completely or not at all: the preview and the loop agree
\* from the first iteration to the last.
FokAllOrNothing ==
  incoming # NoOrder /\ incoming.type = "FOK" =>
    /\ pc = "match"  => incoming.quantity <= Liquidity(incoming)
    /\ pc = "return" => incoming.quantity = 0 \/ trades = <<>>

\* A FOK order is refused only if the crossing makers cannot fill it.
FokRefusedOnlyIfShort ==
  pc = "return" /\ incoming # NoOrder /\ incoming.type = "FOK" /\ incoming.quantity > 0
    => Liquidity(incoming) < incoming.quantity

\* Time priority: in one step, the orders of a level that stay keep their order
\* and do not grow, and an order that joins the level stands behind them.
QueuePositionsKept ==
  [][\A s \in Side : \A p \in DOMAIN levels[s] \cap DOMAIN levels'[s] :
       LET old == levels[s][p]
           new == levels'[s][p]
       IN  \A i \in DOMAIN old, j, k \in DOMAIN new :
             old[i].id = new[j].id =>
               /\ new[j].quantity <= old[i].quantity
               /\ k < j => \E h \in 1 .. i-1 : old[h].id = new[k].id]_vars

\* How many orders a depth shows.
Shown(depth) == SumFunction([i \in DOMAIN depth |-> depth[i].order_count])

\* totalOrderCount reads the index and getDepth, bestBid and bestAsk the maps;
\* the replay tool prints them side by side.  The counts of the full depth add
\* up to totalOrderCount, each level shown has orders, and the first level of a
\* depth cut to one is the best price.
QueriesAgree ==
  LET Full(s)  == GetDepth(s, Cardinality(Prices))
      First(s) == GetDepth(s, 1)
      Best1(s) == {First(s)[i].price : i \in DOMAIN First(s)}
  IN  /\ Shown(Full("BUY")) + Shown(Full("SELL")) = TotalOrderCount
      /\ \A s \in Side : \A i \in DOMAIN Full(s) : Full(s)[i].order_count > 0
      /\ Best1("BUY") = BestBid /\ Best1("SELL") = BestAsk

\* What the comment on totalOrderCount says: the index tracks every live order.
LiveOrdersCounted ==
  TotalOrderCount = Cardinality(Slots("BUY")) + Cardinality(Slots("SELL"))

\* Every operation returns: the matching loop always advances.
OperationsReturn == pc = "match" ~> pc = "return"
=============================================================================

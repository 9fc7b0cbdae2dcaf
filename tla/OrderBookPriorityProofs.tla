------------------------ MODULE OrderBookPriorityProofs ------------------------
(***************************************************************************)
(* Price-time priority in OrderBook, for every set of ids, prices and      *)
(* quantities: the prices one operation trades at, whatever its callers    *)
(* send, and the places the resting orders have.                           *)
(***************************************************************************)
EXTENDS OrderBookProofs, FiniteSums

-----------------------------------------------------------------------------
(* What holds even if callers send ids that rest: the index may then miss  *)
(* orders, but the maps keep their shape.                                  *)

LevelShaped(q, s, p) ==
  q # <<>> /\ \A k \in DOMAIN q : q[k].side = s /\ q[k].price = p

MapsShaped == \A s \in Side : \A p \in DOMAIN levels[s] : LevelShaped(levels[s][p], s, p)

\* Between two operations no taker and no trade is left over.
IdleIsClean == pc = "idle" => incoming = NoOrder /\ trades = <<>>

ShapeInv == TypeOK /\ MapsShaped /\ IdleIsClean

LEMMA LevelPutKeepsShape ==
  ASSUME BookTypeOK, MapsShaped, NEW s \in Side, NEW p \in Prices, NEW q \in Seq(Order),
         \A k \in DOMAIN q : q[k].side = s /\ q[k].price = p,
         LevelPut(s, p, q), IsIndex(orderIndex')
  PROVE  BookTypeOK' /\ MapsShaped'
<1>1. /\ levels' = [t \in Side |-> levels'[t]]
      /\ levels'[s] = SetLevel(levels[s], p, q)
      /\ \A t \in Side \ {s} : levels'[t] = levels[t]
  BY DEF LevelPut, BookTypeOK
<1>2. /\ IsBookMap(levels'[s])
      /\ \A x : x \in DOMAIN levels'[s] <=> IF x = p THEN q # <<>> ELSE x \in DOMAIN levels[s]
      /\ \A x \in DOMAIN levels'[s] : levels'[s][x] = IF x = p THEN q ELSE levels[s][x]
  BY <1>1, SetLevelFacts DEF BookTypeOK
<1>3. BookTypeOK'
  BY <1>1, <1>2 DEF BookTypeOK, IsBookMap
<1>4. MapsShaped'
  BY <1>1, <1>2 DEF MapsShaped, LevelShaped
<1> QED  BY <1>3, <1>4

LEMMA PushBackKeepsShape ==
  ASSUME BookTypeOK, MapsShaped, NEW o \in Order, PushBack(o)
  PROVE  BookTypeOK' /\ MapsShaped'
<1> DEFINE old == Level(levels[o.side], o.price)
           q == Append(old, o)
<1>1. o.side \in Side /\ o.price \in Prices /\ o.id \in Ids
  BY DEF Order
<1>2. old \in Seq(Order) /\ \A k \in DOMAIN old : old[k].side = o.side /\ old[k].price = o.price
  BY <1>1 DEF Level, BookTypeOK, IsBookMap, MapsShaped, LevelShaped
<1>3. IsIndex(orderIndex')
  <2>1. [side |-> o.side, price |-> o.price] \in Location
    BY <1>1 DEF Location
  <2> QED  BY <1>1, <2>1 DEF PushBack, BookTypeOK, IsIndex
<1>4. LevelPut(o.side, o.price, q)
  BY <1>1 DEF PushBack, LevelPut, BookTypeOK
<1> HIDE DEF old
<1>5. q \in Seq(Order) /\ \A k \in DOMAIN q : q[k].side = o.side /\ q[k].price = o.price
  BY <1>2
<1> HIDE DEF q
<1> QED  BY <1>1, <1>3, <1>4, <1>5, LevelPutKeepsShape

\* An id that is located is the id of an order of a deque, and find_if stops at
\* the first such order.
LEMMA LocatedShape ==
  ASSUME BookTypeOK, NEW id \in Ids, Located(id)
  PROVE  LET at    == orderIndex[id]
             deque == levels[at.side][at.price]
             k     == FindId(deque, id)
         IN  /\ at.side \in Side /\ at.price \in DOMAIN levels[at.side]
             /\ deque \in Seq(Order) /\ k \in DOMAIN deque /\ deque[k].id = id
<1> DEFINE at == orderIndex[id]
           deque == levels[at.side][at.price]
<1>1. at \in Location
  BY DEF Located, BookTypeOK, IsIndex
<1>2. HasId(Level(levels[at.side], at.price), id)
  BY DEF Located
<1>3. at.price \in DOMAIN levels[at.side] /\ HasId(deque, id)
  BY <1>2 DEF Level, HasId
<1>4. at.side \in Side /\ deque \in Seq(Order)
  BY <1>1, <1>3 DEF Location, BookTypeOK, IsBookMap
<1> HIDE DEF at, deque
<1>5. PICK k \in DOMAIN deque : /\ deque[k].id = id
                                /\ \A j \in 1 .. k-1 : deque[j].id # id
  <2> DEFINE T == {i \in DOMAIN deque : deque[i].id = id}
  <2>1. T \subseteq Nat /\ T # {}
    BY <1>3, <1>4 DEF HasId
  <2>2. PICK k \in T : \A j \in T : k <= j
    <3> HIDE DEF T
    <3> QED  BY <2>1, LeastNat
  <2>3. k \in DOMAIN deque /\ DOMAIN deque = 1 .. Len(deque) /\ Len(deque) \in Nat
    BY <1>4, <2>2
  <2>4. \A j \in 1 .. k-1 : deque[j].id # id
    BY <2>2, <2>3
  <2> QED  BY <2>2, <2>3, <2>4
<1>6. FindId(deque, id) \in DOMAIN deque /\ deque[FindId(deque, id)].id = id
  BY <1>5 DEF FindId
<1> QED  BY <1>3, <1>4, <1>6 DEF at, deque

LEMMA EraseKeepsShape ==
  ASSUME BookTypeOK, MapsShaped, NEW id \in Ids, Located(id), Erase(id)
  PROVE  BookTypeOK' /\ MapsShaped'
<1> DEFINE at == orderIndex[id]
           deque == levels[at.side][at.price]
           k == FindId(deque, id)
           q == EraseId(deque, id)
           a == SubSeq(deque, 1, k - 1)
           b == SubSeq(deque, k + 1, Len(deque))
<1>1. /\ at.side \in Side /\ at.price \in DOMAIN levels[at.side]
      /\ deque \in Seq(Order) /\ k \in DOMAIN deque
  BY LocatedShape
<1>2. at.price \in Prices /\ LevelShaped(deque, at.side, at.price)
  BY <1>1 DEF BookTypeOK, IsBookMap, MapsShaped
<1>3. LevelPut(at.side, at.price, q) /\ orderIndex' = WithoutId(id)
  BY DEF Erase, LevelPut
<1>4. q = a \o b
  BY DEF EraseId
<1> HIDE DEF at, deque, k, q
<1>5. IsIndex(orderIndex')
  BY <1>3 DEF WithoutId, BookTypeOK, IsIndex
<1>6. k \in 1 .. Len(deque) /\ Len(deque) \in Nat /\ DOMAIN deque = 1 .. Len(deque)
  BY <1>1
<1>7. a \in Seq(Order) /\ \A i \in DOMAIN a : \E j \in DOMAIN deque : a[i] = deque[j]
  BY <1>1, <1>6, SubSeqProperties
<1>8. b \in Seq(Order) /\ \A i \in DOMAIN b : \E j \in DOMAIN deque : b[i] = deque[j]
  BY <1>1, <1>6, SubSeqProperties
<1> HIDE DEF a, b
<1>9. q \in Seq(Order)
  BY <1>4, <1>7, <1>8
<1>10. \A i \in DOMAIN q : \E j \in DOMAIN deque : q[i] = deque[j]
  <2> SUFFICES ASSUME NEW i \in DOMAIN q
               PROVE  \E j \in DOMAIN deque : q[i] = deque[j]
    OBVIOUS
  <2>1. i \in 1 .. Len(a) + Len(b) /\ q[i] = IF i <= Len(a) THEN a[i] ELSE b[i - Len(a)]
    BY <1>4, <1>7, <1>8, ConcatProperties
  <2>2. CASE i <= Len(a)
    BY <1>7, <2>1, <2>2
  <2>3. CASE ~(i <= Len(a))
    <3>1. i - Len(a) \in DOMAIN b
      BY <1>7, <1>8, <2>1, <2>3
    <3> QED  BY <1>8, <2>1, <2>3, <3>1
  <2> QED  BY <2>2, <2>3
<1>11. \A i \in DOMAIN q : q[i].side = at.side /\ q[i].price = at.price
  BY <1>2, <1>10 DEF LevelShaped
<1> QED  BY <1>1, <1>2, <1>3, <1>5, <1>9, <1>11, LevelPutKeepsShape

LEMMA QuantityPutKeepsShape ==
  ASSUME BookTypeOK, MapsShaped,
         NEW s \in Side, NEW p \in DOMAIN levels[s], NEW k \in DOMAIN levels[s][p],
         NEW n \in Uint64, QuantityPut(s, p, k, n), orderIndex' = orderIndex
  PROVE  BookTypeOK' /\ MapsShaped'
<1>1. PICK q \in Seq(Order) :
        /\ DOMAIN q = DOMAIN levels[s][p] /\ q # <<>>
        /\ \A j \in DOMAIN q : /\ q[j].id = levels[s][p][j].id
                               /\ q[j].side = levels[s][p][j].side
                               /\ q[j].price = levels[s][p][j].price
                               /\ j # k => q[j] = levels[s][p][j]
        /\ q[k].quantity = n
        /\ LevelPut(s, p, q)
  BY QuantityWritten
<1>2. p \in Prices /\ LevelShaped(levels[s][p], s, p)
  BY DEF BookTypeOK, IsBookMap, MapsShaped
<1>3. \A j \in DOMAIN q : q[j].side = s /\ q[j].price = p
  BY <1>1, <1>2 DEF LevelShaped
<1> QED  BY <1>1, <1>2, <1>3, LevelPutKeepsShape DEF BookTypeOK

LEMMA SameBookKeepsShape ==
  ASSUME BookTypeOK, MapsShaped, UNCHANGED book
  PROVE  BookTypeOK' /\ MapsShaped'
BY DEF book, BookTypeOK, IsBookMap, IsIndex, MapsShaped, LevelShaped

\* The matching loop finds a maker at its side's best price.
LEMMA MakerShape ==
  ASSUME BookTypeOK, MapsShaped, LoopCondition
  PROVE  /\ MakerSide \in Side
         /\ Best(MakerSide) \in DOMAIN levels[MakerSide]
         /\ levels[MakerSide][Best(MakerSide)] \in Seq(Order)
         /\ 1 \in DOMAIN levels[MakerSide][Best(MakerSide)]
         /\ Maker = levels[MakerSide][Best(MakerSide)][1]
         /\ Maker \in Order /\ Maker.price = Best(MakerSide)
<1> DEFINE q == levels[MakerSide][Best(MakerSide)]
<1>1. MakerSide \in Side
  BY DEF MakerSide, Opposite, Side
<1>2. Best(MakerSide) \in DOMAIN levels[MakerSide]
  BY <1>1, BestIsBest DEF BookTypeOK, LoopCondition
<1>3. q \in Seq(Order)
  BY <1>1, <1>2 DEF BookTypeOK, IsBookMap
<1>4. LevelShaped(q, MakerSide, Best(MakerSide))
  BY <1>1, <1>2 DEF MapsShaped
<1>5. Maker = Head(q)
  BY DEF Maker
<1> HIDE DEF q
<1>6. 1 \in DOMAIN q /\ Maker = q[1] /\ Maker \in Order
  BY <1>3, <1>4, <1>5 DEF LevelShaped
<1> QED  BY <1>1, <1>2, <1>3, <1>4, <1>6 DEF q, LevelShaped

LEMMA InitShapeInv == Init => ShapeInv
BY InitIndexInv DEF Init, IndexInv, ShapeInv, MapsShaped, IdleIsClean

LEMMA NewOrdersAreOrders == NewOrders \subseteq Order
BY QuantitiesAssumption DEF NewOrders, Order

\* A step that keeps the maps' shape, and no operation goes on or starts.
LEMMA AnsweredKeepsShape ==
  ASSUME ShapeInv, BookTypeOK' /\ MapsShaped', NoMatching,
         NEW value \in {"ok", "absent"}, Answer(value)
  PROVE  ShapeInv'
BY DEF ShapeInv, TypeOK, IdleIsClean, NoMatching, Answer

LEMMA ModifyOrderShapeInv ==
  ASSUME ShapeInv, NEW id \in Ids, NEW newPrice \in Prices, NEW newQuantity \in Quantities,
         ModifyOrder(id, newPrice, newQuantity)
  PROVE  ShapeInv'
<1> DEFINE at == orderIndex[id]
           deque == levels[at.side][at.price]
           k == FindId(deque, id)
<1> USE DEF ShapeInv, TypeOK
<1>1. newQuantity \in Uint64
  BY QuantitiesAssumption
<1>2. CASE UNCHANGED book /\ Answer("absent") /\ NoMatching
  BY <1>2, SameBookKeepsShape, AnsweredKeepsShape
<1>3. CASE Located(id) /\ Erase(id) /\ Answer("ok") /\ NoMatching
  BY <1>3, EraseKeepsShape, AnsweredKeepsShape
<1>4. CASE /\ Located(id) /\ ModifyInPlace(id, newQuantity) /\ UNCHANGED orderIndex
           /\ Answer("ok") /\ NoMatching
  <2>1. at.side \in Side /\ at.price \in DOMAIN levels[at.side] /\ k \in DOMAIN deque
    BY <1>4, LocatedShape
  <2>2. QuantityPut(at.side, at.price, k, newQuantity)
    BY <1>4 DEF ModifyInPlace, QuantityPut
  <2>3. BookTypeOK' /\ MapsShaped'
    <3> HIDE DEF at, k
    <3> QED  BY <1>1, <1>4, <2>1, <2>2, QuantityPutKeepsShape
  <2> QED  BY <1>4, <2>3, AnsweredKeepsShape
<1>5. CASE /\ Located(id) /\ Erase(id)
           /\ incoming' = [id |-> id, side |-> at.side, price |-> newPrice,
                           quantity |-> newQuantity, type |-> "LIMIT"]
           /\ pc' = "match" /\ UNCHANGED <<trades, result>>
  <2>1. BookTypeOK' /\ MapsShaped'
    BY <1>5, EraseKeepsShape
  <2>2. at.side \in Side
    BY <1>5, LocatedShape
  <2>3. incoming' \in Order
    BY <1>1, <1>5, <2>2 DEF Order, OrderType
  <2> QED  BY <1>5, <2>1, <2>3, NoOrderAssumption DEF IdleIsClean
<1> QED  BY <1>2, <1>3, <1>4, <1>5 DEF ModifyOrder

LEMMA ConsumeMakerShapeInv ==
  ASSUME ShapeInv, ConsumeMaker
  PROVE  ShapeInv'
<1> DEFINE s == MakerSide
           p == Best(MakerSide)
           deque == levels[s][p]
           q == Tail(deque)
<1> USE DEF ShapeInv, TypeOK
<1>1. /\ s \in Side /\ p \in DOMAIN levels[s] /\ deque \in Seq(Order)
      /\ 1 \in DOMAIN deque /\ Maker \in Order
  BY MakerShape DEF ConsumeMaker
<1>2. LevelShaped(deque, s, p) /\ p \in Prices
  BY <1>1 DEF MapsShaped, BookTypeOK, IsBookMap
<1>3. LevelPut(s, p, q) /\ orderIndex' = WithoutId(Maker.id)
  BY DEF ConsumeMaker, LevelPut
<1> HIDE DEF s, p, deque
<1>4. q \in Seq(Order) /\ \A k \in DOMAIN q : q[k].side = s /\ q[k].price = p
  BY <1>1, <1>2 DEF LevelShaped
<1>5. IsIndex(orderIndex')
  BY <1>3 DEF WithoutId, BookTypeOK, IsIndex
<1> HIDE DEF q
<1>6. BookTypeOK' /\ MapsShaped'
  BY <1>1, <1>2, <1>3, <1>4, <1>5, LevelPutKeepsShape
<1>7. Maker.quantity \in Uint64 /\ Maker.quantity <= incoming.quantity
  BY <1>1 DEF ConsumeMaker, MakerFilled, Order
<1>8. /\ incoming' \in Order /\ incoming' # NoOrder
      /\ trades' \in Seq(Trade) /\ pc' = pc /\ result' = result
  BY <1>1, <1>7, FillTypes DEF ConsumeMaker
<1> QED  BY <1>6, <1>8 DEF ConsumeMaker, IdleIsClean

LEMMA ReduceMakerShapeInv ==
  ASSUME ShapeInv, ReduceMaker
  PROVE  ShapeInv'
<1> DEFINE s == MakerSide
           p == Best(MakerSide)
           n == Maker.quantity - incoming.quantity
<1> USE DEF ShapeInv, TypeOK
<1>1. /\ s \in Side /\ p \in DOMAIN levels[s] /\ 1 \in DOMAIN levels[s][p]
      /\ Maker = levels[s][p][1] /\ Maker \in Order
  BY MakerShape DEF ReduceMaker
<1>2. incoming.quantity \in Uint64 /\ n \in Uint64 /\ incoming.quantity <= incoming.quantity
  BY <1>1, QuantitiesAssumption DEF ReduceMaker, MakerFilled, Order, Uint64
<1>3. QuantityPut(s, p, 1, n) /\ orderIndex' = orderIndex
  BY <1>1 DEF ReduceMaker, QuantityPut
<1>4. /\ incoming' \in Order /\ incoming' # NoOrder
      /\ trades' \in Seq(Trade) /\ pc' = pc /\ result' = result
  BY <1>1, <1>2, FillTypes DEF ReduceMaker
<1> HIDE DEF s, p, n
<1>5. BookTypeOK' /\ MapsShaped'
  BY <1>1, <1>2, <1>3, QuantityPutKeepsShape
<1> QED  BY <1>4, <1>5 DEF ReduceMaker, IdleIsClean

LEMMA ShapeInvStep ==
  ASSUME ShapeInv, [Next]_vars
  PROVE  ShapeInv'
<1> USE DEF ShapeInv, TypeOK
<1>1. ASSUME NEW o \in NewOrders, AddOrder(o)
      PROVE  ShapeInv'
  BY <1>1, NewOrdersAreOrders, PushBackKeepsShape, AnsweredKeepsShape DEF AddOrder
<1>2. ASSUME NEW o \in NewOrders, SubmitOrder(o)
      PROVE  ShapeInv'
  <2>1. o \in Order /\ o # NoOrder
    BY NewOrdersAreOrders, NoOrderAssumption
  <2>2. BookTypeOK' /\ MapsShaped'
    BY <1>2, SameBookKeepsShape DEF SubmitOrder, book
  <2> QED  BY <1>2, <2>1, <2>2 DEF SubmitOrder, Answer, IdleIsClean
<1>3. ASSUME NEW id \in Ids, CancelOrder(id)
      PROVE  ShapeInv'
  BY <1>3, EraseKeepsShape, SameBookKeepsShape, AnsweredKeepsShape DEF CancelOrder
<1>4. ASSUME NEW id \in Ids, NEW p \in Prices, NEW q \in Quantities, ModifyOrder(id, p, q)
      PROVE  ShapeInv'
  BY <1>4, ModifyOrderShapeInv
<1>5. CASE ConsumeMaker
  BY <1>5, ConsumeMakerShapeInv
<1>6. CASE ReduceMaker
  BY <1>6, ReduceMakerShapeInv
<1>7. CASE RestRemainder
  <2>1. incoming \in Order
    BY <1>7 DEF RestRemainder
  <2> QED  BY <1>7, <2>1, PushBackKeepsShape, AnsweredKeepsShape DEF RestRemainder
<1>8. CASE DropRemainder
  BY <1>8, SameBookKeepsShape, AnsweredKeepsShape DEF DropRemainder
<1>9. CASE Return
  <2>1. BookTypeOK' /\ MapsShaped'
    BY <1>9, SameBookKeepsShape DEF Return
  <2> QED  BY <1>9, <2>1 DEF Return, IdleIsClean
<1>10. CASE UNCHANGED vars
  <2>1. BookTypeOK' /\ MapsShaped'
    BY <1>10, SameBookKeepsShape DEF vars, book
  <2> QED  BY <1>10, <2>1 DEF vars, IdleIsClean
<1> QED
  BY <1>1, <1>2, <1>3, <1>4, <1>5, <1>6, <1>7, <1>8, <1>9, <1>10 DEF Next, Call, Run

\* Whatever ids, quantities and prices the callers send, duplicates included,
\* every variable keeps its type: no quantity underflows in a fill, find_if
\* finds what the index promised, and every front() is of a non-empty deque.
THEOREM TypeCorrectForAnyCaller == Spec => []TypeOK
<1>1. ShapeInv => TypeOK
  BY DEF ShapeInv
<1> QED  BY <1>1, InitShapeInv, ShapeInvStep, PTL DEF Spec

-----------------------------------------------------------------------------
(* Price priority.                                                         *)

PriceInv == ShapeInv /\ NoTradeThrough

\* Nothing in the map of the maker's side is better than its first level.
LEMMA NothingBetterThanBest ==
  ASSUME BookTypeOK, NEW s \in Side, DOMAIN levels[s] # {}
  PROVE  /\ Best(s) \in DOMAIN levels[s]
         /\ \A p \in DOMAIN levels[s] : ~Better(s, p, Best(s))
<1> DEFINE b == Best(s)
<1>1. IsBookMap(levels[s])
  BY DEF BookTypeOK
<1>2. b \in DOMAIN levels[s] /\ \A q \in DOMAIN levels[s] : q = b \/ Better(s, b, q)
  BY <1>1, BestIsBest
<1>3. DOMAIN levels[s] \subseteq Int
  BY <1>1, PricesAssumption DEF IsBookMap
<1> HIDE DEF b
<1>4. ASSUME NEW p \in DOMAIN levels[s]
      PROVE  ~Better(s, p, b)
  <2>1. p \in Int /\ b \in Int
    BY <1>2, <1>3
  <2> QED  BY <1>2, <2>1 DEF Better
<1> QED  BY <1>2, <1>4 DEF b

\* A fill is at the first level's price: inside the limit, and no better than
\* the trades before it, for none of them left anything better behind.
LEMMA FillKeepsPriceOrder ==
  ASSUME ShapeInv, NoTradeThrough, pc = "match", LoopCondition,
         NEW n \in Uint64, n <= incoming.quantity, Fill(n),
         DOMAIN levels'[MakerSide] \subseteq DOMAIN levels[MakerSide]
  PROVE  NoTradeThrough'
<1> DEFINE s == MakerSide
           b == Best(MakerSide)
<1>1. /\ s \in Side /\ b \in DOMAIN levels[s] /\ Maker \in Order /\ Maker.price = b
  BY MakerShape DEF ShapeInv, TypeOK
<1>2. \A p \in DOMAIN levels[s] : ~Better(s, p, b)
  BY <1>1, NothingBetterThanBest DEF ShapeInv, TypeOK
<1>3. /\ incoming \in Order /\ incoming' = [incoming EXCEPT !.quantity = @ - n]
      /\ trades' \in Seq(Trade)
  BY <1>1, FillTypes DEF ShapeInv
<1>4. /\ incoming'.side = incoming.side /\ incoming'.price = incoming.price
      /\ incoming'.type = incoming.type /\ MakerSide' = s
  BY <1>3 DEF Order, MakerSide
<1>5. incoming # NoOrder
  BY <1>3, NoOrderAssumption
<1>6. PICK t : trades' = Append(trades, t) /\ t.price = b
  BY <1>1 DEF Fill
<1>7. trades \in Seq(Trade)
  BY DEF ShapeInv, TypeOK
<1>8. /\ DOMAIN trades' = 1 .. Len(trades) + 1 /\ DOMAIN trades = 1 .. Len(trades)
      /\ Len(trades) \in Nat /\ trades'[Len(trades) + 1] = t
      /\ \A i \in 1 .. Len(trades) : trades'[i] = trades[i]
  BY <1>6, <1>7
<1>9. SkipsPriceCheck(incoming.type) \/ Crosses(incoming.side, incoming.price, b)
  BY DEF LoopCondition
<1>10. ~Better(s, b, b)
  BY <1>1, <1>2
<1> HIDE DEF s, b
<1>11. ASSUME NEW i \in DOMAIN trades
       PROVE  /\ \/ SkipsPriceCheck(incoming.type)
                 \/ Crosses(incoming.side, incoming.price, trades[i].price)
              /\ \A j \in 1 .. i : ~Better(s, trades[i].price, trades[j].price)
              /\ \A p \in DOMAIN levels[s] : ~Better(s, p, trades[i].price)
  BY <1>5, <1>11 DEF NoTradeThrough, s
<1>12. ASSUME NEW i \in DOMAIN trades'
       PROVE  /\ \/ SkipsPriceCheck(incoming.type)
                 \/ Crosses(incoming.side, incoming.price, trades'[i].price)
              /\ \A j \in 1 .. i : ~Better(s, trades'[i].price, trades'[j].price)
              /\ \A p \in DOMAIN levels'[s] : ~Better(s, p, trades'[i].price)
  <2>1. DOMAIN levels'[s] \subseteq DOMAIN levels[s]
    BY DEF s
  <2>2. CASE i \in DOMAIN trades
    <3>1. \A j \in 1 .. i : trades'[j] = trades[j]
      BY <1>8, <2>2
    <3>2. trades'[i] = trades[i]
      BY <1>8, <2>2
    <3> QED  BY <1>11, <2>1, <2>2, <3>1, <3>2
  <2>3. CASE i = Len(trades) + 1
    <3>1. trades'[i].price = b
      BY <1>6, <1>8, <2>3
    <3>2. ASSUME NEW j \in 1 .. i
          PROVE  ~Better(s, b, trades'[j].price)
      <4>1. CASE j = i
        BY <1>10, <3>1, <4>1
      <4>2. CASE j \in DOMAIN trades
        BY <1>1, <1>8, <1>11, <4>2
      <4> QED  BY <1>8, <2>3, <4>1, <4>2
    <3> QED  BY <1>2, <1>9, <2>1, <3>1, <3>2
  <2> QED  BY <1>8, <2>2, <2>3
<1> QED  BY <1>4, <1>12 DEF NoTradeThrough

\* The remainder rests on the taker's own side.
LEMMA RestKeepsPriceOrder ==
  ASSUME ShapeInv, NoTradeThrough, RestRemainder
  PROVE  NoTradeThrough'
<1>1. incoming \in Order
  BY DEF RestRemainder, ShapeInv, TypeOK
<1>2. incoming.side \in Side /\ MakerSide \in Side /\ MakerSide # incoming.side
  BY <1>1 DEF Order, MakerSide, Opposite, Side
<1>3. levels'[MakerSide] = levels[MakerSide]
  BY <1>2 DEF RestRemainder, PushBack, ShapeInv, TypeOK, BookTypeOK
<1>4. incoming' = incoming /\ trades' = trades /\ MakerSide' = MakerSide
  BY DEF RestRemainder, NoMatching, MakerSide
<1> QED  BY <1>3, <1>4 DEF NoTradeThrough

LEMMA InitPriceInv == Init => PriceInv
BY InitShapeInv DEF Init, PriceInv, IdleIsClean, NoTradeThrough

\* A step that leaves no taker, or a taker that has not traded yet.
LEMMA NoTradesYet ==
  ASSUME incoming' = NoOrder \/ trades' = <<>>
  PROVE  NoTradeThrough'
BY DEF NoTradeThrough

LEMMA PriceOrderStep ==
  ASSUME PriceInv, [Next]_vars
  PROVE  NoTradeThrough'
<1>1. ASSUME pc = "idle", UNCHANGED <<incoming, trades>> \/ UNCHANGED trades
      PROVE  NoTradeThrough'
  BY <1>1, NoTradesYet DEF PriceInv, ShapeInv, IdleIsClean
<1>2. ASSUME NEW o \in NewOrders, AddOrder(o) \/ SubmitOrder(o)
      PROVE  NoTradeThrough'
  BY <1>1, <1>2 DEF AddOrder, SubmitOrder, NoMatching
<1>3. ASSUME NEW id \in Ids, CancelOrder(id)
      PROVE  NoTradeThrough'
  BY <1>1, <1>3 DEF CancelOrder, NoMatching
<1>4. ASSUME NEW id \in Ids, NEW p \in Prices, NEW q \in Quantities, ModifyOrder(id, p, q)
      PROVE  NoTradeThrough'
  BY <1>1, <1>4 DEF ModifyOrder, NoMatching
<1>5. CASE ConsumeMaker
  <2> DEFINE q == Tail(levels[MakerSide][Best(MakerSide)])
  <2>1. /\ MakerSide \in Side /\ Best(MakerSide) \in DOMAIN levels[MakerSide]
        /\ q \in Seq(Order) /\ Maker \in Order
    BY <1>5, MakerShape DEF ConsumeMaker, PriceInv, ShapeInv, TypeOK
  <2>2. levels' = [levels EXCEPT ![MakerSide] = SetLevel(@, Best(MakerSide), q)]
    BY <1>5 DEF ConsumeMaker
  <2> HIDE DEF q
  <2>3. DOMAIN levels'[MakerSide] \subseteq DOMAIN levels[MakerSide]
    BY <2>1, <2>2, ReplacingShrinks DEF PriceInv, ShapeInv, TypeOK
  <2>4. Maker.quantity \in Uint64 /\ Maker.quantity <= incoming.quantity
    BY <1>5, <2>1 DEF ConsumeMaker, MakerFilled, Order
  <2> QED  BY <1>5, <2>3, <2>4, FillKeepsPriceOrder DEF ConsumeMaker, PriceInv
<1>6. CASE ReduceMaker
  <2>1. DOMAIN levels'[MakerSide] \subseteq DOMAIN levels[MakerSide]
    BY <1>6, MakerShape DEF ReduceMaker, PriceInv, ShapeInv, TypeOK, BookTypeOK, IsBookMap
  <2>2. incoming.quantity \in Uint64 /\ incoming.quantity <= incoming.quantity
    BY <1>6, QuantitiesAssumption DEF ReduceMaker, PriceInv, ShapeInv, TypeOK, Order, Uint64
  <2> QED  BY <1>6, <2>1, <2>2, FillKeepsPriceOrder DEF ReduceMaker, PriceInv
<1>7. CASE RestRemainder
  BY <1>7, RestKeepsPriceOrder DEF PriceInv
<1>8. CASE DropRemainder \/ UNCHANGED vars
  BY <1>8 DEF DropRemainder, book, vars, NoMatching, PriceInv, NoTradeThrough, MakerSide
<1>9. CASE Return
  BY <1>9, NoTradesYet DEF Return
<1> QED
  BY <1>2, <1>3, <1>4, <1>5, <1>6, <1>7, <1>8, <1>9 DEF Next, Call, Run

LEMMA PriceInvStep ==
  ASSUME PriceInv, [Next]_vars
  PROVE  PriceInv'
BY ShapeInvStep, PriceOrderStep DEF PriceInv

\* Whatever rests - crossing orders, MARKET orders and duplicate ids included - the fills of a
\* submitOrder or of a modifyOrder that resubmits go from the best price to
\* worse ones, never outside the taker's limit, and nothing better than the last
\* of them is left when the operation ends.
THEOREM NeverTradesThrough == Spec => []NoTradeThrough
<1>1. PriceInv => NoTradeThrough
  BY DEF PriceInv
<1> QED  BY <1>1, InitPriceInv, PriceInvStep, PTL DEF Spec

-----------------------------------------------------------------------------
(* Time priority.                                                          *)

\* What QueuePositionsKept asks of a deque that becomes another one.
PlacesKept(old, new) ==
  \A i \in DOMAIN old, j, k \in DOMAIN new :
    old[i].id = new[j].id =>
      /\ new[j].quantity <= old[i].quantity
      /\ k < j => \E h \in 1 .. i-1 : old[h].id = new[k].id

\* Each id stands once in a deque.
IdsDiffer(q) == \A i, j \in DOMAIN q : q[i].id = q[j].id => i = j

LEMMA QuantityIsInt == \A o \in Order : o.quantity \in Int /\ o.quantity <= o.quantity
BY QuantitiesAssumption DEF Order, Uint64

LEMMA SameDequeKeepsPlaces ==
  ASSUME NEW q \in Seq(Order), IdsDiffer(q)
  PROVE  PlacesKept(q, q)
<1> SUFFICES ASSUME NEW i \in DOMAIN q, NEW j \in DOMAIN q, NEW k \in DOMAIN q,
                    q[i].id = q[j].id
             PROVE  /\ q[j].quantity <= q[i].quantity
                    /\ k < j => \E h \in 1 .. i-1 : q[h].id = q[k].id
  BY DEF PlacesKept
<1>1. i = j /\ q[i] \in Order
  BY DEF IdsDiffer
<1>2. k < j => k \in 1 .. i-1
  BY <1>1
<1> QED  BY <1>1, <1>2, QuantityIsInt

\* push_back of an id that is not in the deque.
LEMMA AppendKeepsPlaces ==
  ASSUME NEW q \in Seq(Order), IdsDiffer(q), NEW o \in Order,
         \A i \in DOMAIN q : q[i].id # o.id
  PROVE  PlacesKept(q, Append(q, o))
<1> DEFINE new == Append(q, o)
<1>1. /\ DOMAIN new = 1 .. Len(q) + 1 /\ DOMAIN q = 1 .. Len(q) /\ Len(q) \in Nat
      /\ new[Len(q) + 1] = o /\ \A i \in 1 .. Len(q) : new[i] = q[i]
  OBVIOUS
<1> HIDE DEF new
<1> SUFFICES ASSUME NEW i \in DOMAIN q, NEW j \in DOMAIN new, NEW k \in DOMAIN new,
                    q[i].id = new[j].id
             PROVE  /\ new[j].quantity <= q[i].quantity
                    /\ k < j => \E h \in 1 .. i-1 : q[h].id = new[k].id
  BY DEF PlacesKept, new
<1>2. j # Len(q) + 1
  BY <1>1
<1>3. new[j] = q[j] /\ j \in DOMAIN q
  BY <1>1, <1>2
<1>4. i = j /\ q[i] \in Order
  BY <1>3 DEF IdsDiffer
<1>5. k < j => k \in 1 .. i-1 /\ new[k] = q[k]
  BY <1>1, <1>4
<1> QED  BY <1>3, <1>4, <1>5, QuantityIsInt

\* The order at place m is erased, m = 1 for pop_front.
LEMMA EraseKeepsPlaces ==
  ASSUME NEW q \in Seq(Order), IdsDiffer(q), NEW m \in DOMAIN q,
         NEW new \in Seq(Order), Len(new) = Len(q) - 1,
         \A j \in 1 .. Len(new) : new[j] = IF j < m THEN q[j] ELSE q[j + 1]
  PROVE  PlacesKept(q, new)
<1> SUFFICES ASSUME NEW i \in DOMAIN q, NEW j \in DOMAIN new, NEW k \in DOMAIN new,
                    q[i].id = new[j].id
             PROVE  /\ new[j].quantity <= q[i].quantity
                    /\ k < j => \E h \in 1 .. i-1 : q[h].id = new[k].id
  BY DEF PlacesKept
<1> DEFINE From(x) == IF x < m THEN x ELSE x + 1
<1>0. /\ DOMAIN new = 1 .. Len(q) - 1 /\ DOMAIN q = 1 .. Len(q) /\ Len(q) \in Nat
      /\ m \in 1 .. Len(q)
  OBVIOUS
<1>1. ASSUME NEW x \in DOMAIN new
      PROVE  From(x) \in DOMAIN q /\ new[x] = q[From(x)]
  <2>1. x \in 1 .. Len(q) - 1 /\ new[x] = IF x < m THEN q[x] ELSE q[x + 1]
    BY <1>0
  <2>2. CASE x < m
    BY <1>0, <2>1, <2>2
  <2>3. CASE ~(x < m)
    BY <1>0, <2>1, <2>3
  <2> QED  BY <2>2, <2>3
<1>2. i = From(j)
  BY <1>1 DEF IdsDiffer
<1>3. k < j => From(k) \in 1 .. From(j) - 1
  BY <1>0
<1>4. q[i] \in Order
  OBVIOUS
<1> HIDE DEF From
<1> QED  BY <1>1, <1>2, <1>3, <1>4, QuantityIsInt

\* A quantity is overwritten by one that is not larger.
LEMMA ShrinkKeepsPlaces ==
  ASSUME NEW q \in Seq(Order), IdsDiffer(q), NEW m \in DOMAIN q,
         NEW n \in Uint64, n <= q[m].quantity
  PROVE  PlacesKept(q, [q EXCEPT ![m].quantity = n])
<1> DEFINE new == [q EXCEPT ![m].quantity = n]
<1>1. q[m] \in Order
  OBVIOUS
<1>2. /\ DOMAIN new = DOMAIN q /\ new[m].quantity = n
      /\ \A i \in DOMAIN q : new[i].id = q[i].id /\ (i # m => new[i] = q[i])
  BY <1>1 DEF Order
<1> HIDE DEF new
<1> SUFFICES ASSUME NEW i \in DOMAIN q, NEW j \in DOMAIN new, NEW k \in DOMAIN new,
                    q[i].id = new[j].id
             PROVE  /\ new[j].quantity <= q[i].quantity
                    /\ k < j => \E h \in 1 .. i-1 : q[h].id = new[k].id
  BY DEF PlacesKept, new
<1>3. i = j /\ q[i] \in Order
  BY <1>2 DEF IdsDiffer
<1>4. k < j => k \in 1 .. i-1 /\ new[k].id = q[k].id
  BY <1>2, <1>3
<1> QED  BY <1>2, <1>3, <1>4, QuantityIsInt

\* The book's deques are such deques.
LEMMA DequesIdsDiffer ==
  ASSUME BookTypeOK, IndexTracksBook, NEW s \in Side, NEW p \in DOMAIN levels[s]
  PROVE  levels[s][p] \in Seq(Order) /\ IdsDiffer(levels[s][p])
BY DEF BookTypeOK, IsBookMap, IndexTracksBook, LevelIndexed, IdsDiffer

AllPlacesKept ==
  \A s \in Side : \A p \in DOMAIN levels[s] \cap DOMAIN levels'[s] :
    PlacesKept(levels[s][p], levels'[s][p])

\* One deque is replaced, and its orders keep their places.
LEMMA ReplacingKeepsPlaces ==
  ASSUME BookTypeOK, IndexTracksBook, NEW s \in Side, NEW p \in Prices, NEW q \in Seq(Order),
         levels' = [levels EXCEPT ![s] = SetLevel(@, p, q)],
         p \in DOMAIN levels[s] => PlacesKept(levels[s][p], q)
  PROVE  AllPlacesKept
<1>1. IsBookMap(levels[s])
  BY DEF BookTypeOK
<1>2. /\ levels'[s] = SetLevel(levels[s], p, q)
      /\ \A t \in Side \ {s} : levels'[t] = levels[t]
  BY DEF BookTypeOK
<1>3. \A x \in DOMAIN levels'[s] : levels'[s][x] = IF x = p THEN q ELSE levels[s][x]
  BY <1>1, <1>2, SetLevelFacts
<1>4. ASSUME NEW t \in Side, NEW x \in DOMAIN levels[t] \cap DOMAIN levels'[t]
      PROVE  PlacesKept(levels[t][x], levels'[t][x])
  <2>1. CASE t = s /\ x = p
    BY <2>1, <1>3
  <2>2. CASE ~(t = s /\ x = p)
    <3>1. levels'[t][x] = levels[t][x]
      BY <2>2, <1>2, <1>3
    <3> QED  BY <3>1, DequesIdsDiffer, SameDequeKeepsPlaces
  <2> QED  BY <2>1, <2>2
<1> QED  BY <1>4 DEF AllPlacesKept

LEMMA SameLevelsKeepPlaces ==
  ASSUME BookTypeOK, IndexTracksBook, UNCHANGED levels
  PROVE  AllPlacesKept
BY DequesIdsDiffer, SameDequeKeepsPlaces DEF AllPlacesKept

LEMMA PushBackKeepsPlaces ==
  ASSUME BookTypeOK, IndexTracksBook, NEW o \in Order, o.id \notin DOMAIN orderIndex,
         PushBack(o)
  PROVE  AllPlacesKept
<1> DEFINE old == Level(levels[o.side], o.price)
           q == Append(old, o)
<1>1. o.side \in Side /\ o.price \in Prices
  BY DEF Order
<1>2. old \in Seq(Order)
  BY <1>1 DEF BookTypeOK, IsBookMap, Level
<1>3. q \in Seq(Order)
  BY <1>2
<1>4. levels' = [levels EXCEPT ![o.side] = SetLevel(@, o.price, q)]
  BY <1>1 DEF PushBack, BookTypeOK
<1>5. ASSUME o.price \in DOMAIN levels[o.side]
      PROVE  PlacesKept(levels[o.side][o.price], q)
  <2>1. old = levels[o.side][o.price]
    BY <1>5 DEF Level
  <2>2. IdsDiffer(old)
    BY <1>1, <1>5, <2>1, DequesIdsDiffer
  <2>3. \A i \in DOMAIN old : old[i].id # o.id
    <3>1. LevelIndexed(orderIndex, old, o.side, o.price)
      BY <1>1, <1>5, <2>1 DEF IndexTracksBook
    <3> HIDE DEF old
    <3> QED  BY <3>1 DEF LevelIndexed
  <2> HIDE DEF old
  <2> QED  BY <1>2, <2>1, <2>2, <2>3, AppendKeepsPlaces
<1> HIDE DEF q
<1> QED  BY <1>1, <1>3, <1>4, <1>5, ReplacingKeepsPlaces

LEMMA ErasingKeepsPlaces ==
  ASSUME BookTypeOK, IndexTracksBook, NEW id \in Ids, Located(id), Erase(id)
  PROVE  AllPlacesKept
<1> DEFINE at == orderIndex[id]
           deque == levels[at.side][at.price]
           k == FindId(deque, id)
           q == EraseId(deque, id)
<1>1. /\ at.side \in Side /\ at.price \in DOMAIN levels[at.side]
      /\ deque \in Seq(Order) /\ k \in DOMAIN deque /\ deque[k].id = id
      /\ \A j \in DOMAIN deque : deque[j].id = deque[k].id => j = k
  BY LocatedFacts
<1>2. levels' = [levels EXCEPT ![at.side] = SetLevel(@, at.price, q)]
  BY DEF Erase
<1>3. IdsDiffer(deque)
  BY <1>1, DequesIdsDiffer
<1>4. at.price \in Prices
  BY <1>1 DEF BookTypeOK, IsBookMap
<1> HIDE DEF at, k
<1>5. /\ q \in Seq(Order) /\ Len(q) = Len(deque) - 1
      /\ \A j \in 1 .. Len(q) : q[j] = IF j < k THEN deque[j] ELSE deque[j + 1]
  <2> HIDE DEF deque
  <2> QED  BY <1>1, EraseIdFacts
<1> HIDE DEF q
<1>6. PlacesKept(deque, q)
  <2> HIDE DEF deque
  <2> QED  BY <1>1, <1>3, <1>5, EraseKeepsPlaces
<1> QED  BY <1>1, <1>2, <1>4, <1>5, <1>6, ReplacingKeepsPlaces

\* modifyOrder in place, and a maker that stays at the front with what is left.
LEMMA ShrinkingKeepsPlaces ==
  ASSUME BookTypeOK, IndexTracksBook,
         NEW s \in Side, NEW p \in DOMAIN levels[s], NEW k \in DOMAIN levels[s][p],
         NEW n \in Uint64, n <= levels[s][p][k].quantity,
         levels' = [levels EXCEPT ![s][p][k].quantity = n]
  PROVE  AllPlacesKept
<1> DEFINE old == levels[s][p]
           q == [old EXCEPT ![k].quantity = n]
<1>1. old \in Seq(Order) /\ IdsDiffer(old)
  BY DequesIdsDiffer
<1>2. /\ \A t \in Side \ {s} : levels'[t] = levels[t]
      /\ levels'[s][p] = q
      /\ \A x \in DOMAIN levels[s] \ {p} : levels'[s][x] = levels[s][x]
  BY DEF BookTypeOK, IsBookMap
<1>3. PlacesKept(old, q)
  <2> HIDE DEF old
  <2> QED  BY <1>1, ShrinkKeepsPlaces DEF old
<1> HIDE DEF q
<1>4. ASSUME NEW t \in Side, NEW x \in DOMAIN levels[t] \cap DOMAIN levels'[t]
      PROVE  PlacesKept(levels[t][x], levels'[t][x])
  <2>1. CASE t = s /\ x = p
    BY <1>2, <1>3, <2>1
  <2>2. CASE ~(t = s /\ x = p)
    <3>1. levels'[t][x] = levels[t][x]
      BY <2>2, <1>2
    <3> QED  BY <3>1, DequesIdsDiffer, SameDequeKeepsPlaces
  <2> QED  BY <2>1, <2>2
<1> QED  BY <1>4 DEF AllPlacesKept

LEMMA PlacesStep ==
  ASSUME "fresh_ids" \in Discipline, IndexInv, [Next]_vars
  PROVE  AllPlacesKept
<1>1. BookTypeOK /\ IndexTracksBook
  BY DEF IndexInv, TypeOK
<1>2. ASSUME NEW o \in NewOrders, AddOrder(o)
      PROVE  AllPlacesKept
  <2>1. o \in Order
    BY QuantitiesAssumption DEF NewOrders, Order
  <2>2. o.id \notin DOMAIN orderIndex
    BY <1>1, <1>2, <2>1, FreshIsUnindexed DEF AddOrder, Addable, Order
  <2> QED  BY <1>1, <1>2, <2>1, <2>2, PushBackKeepsPlaces DEF AddOrder
<1>3. ASSUME UNCHANGED levels
      PROVE  AllPlacesKept
  BY <1>1, <1>3, SameLevelsKeepPlaces
<1>4. ASSUME NEW id \in Ids, Located(id), Erase(id)
      PROVE  AllPlacesKept
  BY <1>1, <1>4, ErasingKeepsPlaces
<1>5. ASSUME NEW id \in Ids, NEW newPrice \in Prices, NEW n \in Quantities,
             ModifyOrder(id, newPrice, n)
      PROVE  AllPlacesKept
  <2> DEFINE at    == orderIndex[id]
             deque == levels[at.side][at.price]
             k     == FindId(deque, id)
  <2>1. CASE Located(id) /\ ModifyInPlace(id, n) /\ KeepsPlace(deque[k], newPrice, n)
    <3>1. at.side \in Side /\ at.price \in DOMAIN levels[at.side] /\ k \in DOMAIN deque
      BY <1>1, <2>1, LocatedFacts
    <3>2. levels' = [levels EXCEPT ![at.side][at.price][k].quantity = n]
      BY <2>1 DEF ModifyInPlace
    <3>3. n \in Uint64 /\ n <= levels[at.side][at.price][k].quantity
      BY <2>1, QuantitiesAssumption DEF KeepsPlace
    <3> HIDE DEF at, k
    <3> QED  BY <1>1, <3>1, <3>2, <3>3, ShrinkingKeepsPlaces
  <2> QED  BY <1>3, <1>4, <1>5, <2>1 DEF ModifyOrder, book
<1>6. ASSUME ConsumeMaker
      PROVE  AllPlacesKept
  <2> DEFINE s == MakerSide
             p == Best(MakerSide)
             deque == levels[s][p]
             q == Tail(deque)
  <2>1. s \in Side /\ p \in DOMAIN levels[s] /\ deque \in Seq(Order) /\ 1 \in DOMAIN deque
    BY <1>1, <1>6, MakerFacts DEF ConsumeMaker
  <2>2. levels' = [levels EXCEPT ![s] = SetLevel(@, p, q)] /\ p \in Prices
    BY <1>1, <1>6, <2>1 DEF ConsumeMaker, BookTypeOK, IsBookMap
  <2>3. IdsDiffer(deque)
    BY <1>1, <2>1, DequesIdsDiffer
  <2> HIDE DEF s, p
  <2>4. /\ q \in Seq(Order) /\ Len(q) = Len(deque) - 1
        /\ \A j \in 1 .. Len(q) : q[j] = IF j < 1 THEN deque[j] ELSE deque[j + 1]
    BY <2>1
  <2> HIDE DEF q
  <2>5. PlacesKept(deque, q)
    <3> HIDE DEF deque
    <3> QED  BY <2>1, <2>3, <2>4, EraseKeepsPlaces
  <2> QED  BY <1>1, <2>1, <2>2, <2>4, <2>5, ReplacingKeepsPlaces
<1>7. ASSUME ReduceMaker
      PROVE  AllPlacesKept
  <2> DEFINE s == MakerSide
             p == Best(MakerSide)
             n == Maker.quantity - incoming.quantity
  <2>1. /\ s \in Side /\ p \in DOMAIN levels[s] /\ 1 \in DOMAIN levels[s][p]
        /\ Maker = levels[s][p][1] /\ Maker \in Order
    BY <1>1, <1>7, MakerFacts DEF ReduceMaker
  <2>2. n \in Uint64 /\ n <= Maker.quantity
    BY <1>7, <2>1, QuantitiesAssumption
    DEF ReduceMaker, MakerFilled, IndexInv, TypeOK, Order, Uint64
  <2>3. levels' = [levels EXCEPT ![s][p][1].quantity = n]
    BY <1>7, <2>1 DEF ReduceMaker
  <2> HIDE DEF s, p, n
  <2> QED  BY <1>1, <2>1, <2>2, <2>3, ShrinkingKeepsPlaces
<1>8. ASSUME RestRemainder
      PROVE  AllPlacesKept
  <2>1. incoming \in Order /\ incoming.id \notin DOMAIN orderIndex
    BY <1>8 DEF RestRemainder, IndexInv, TypeOK, TakerUnindexed
  <2> QED  BY <1>1, <1>8, <2>1, PushBackKeepsPlaces DEF RestRemainder
<1>9. ASSUME NEW o \in NewOrders, SubmitOrder(o)
      PROVE  AllPlacesKept
  BY <1>3, <1>9 DEF SubmitOrder
<1>10. ASSUME NEW id \in Ids, CancelOrder(id)
       PROVE  AllPlacesKept
  BY <1>3, <1>4, <1>10 DEF CancelOrder, book
<1>11. ASSUME DropRemainder \/ Return \/ UNCHANGED vars
       PROVE  AllPlacesKept
  BY <1>3, <1>11 DEF DropRemainder, Return, book, vars
<1> QED
  BY <1>2, <1>5, <1>6, <1>7, <1>8, <1>9, <1>10, <1>11 DEF Next, Call, Run

\* No step of any operation lets an order of a level pass another one, or grow
\* where it stands: fills, cancellations, both kinds of modification and the
\* orders that join the level.
THEOREM PlacesAlwaysKept ==
  ASSUME "fresh_ids" \in Discipline
  PROVE  Spec => QueuePositionsKept
<1>1. ASSUME IndexInv, [Next]_vars
      PROVE  [\A s \in Side : \A p \in DOMAIN levels[s] \cap DOMAIN levels'[s] :
                LET old == levels[s][p]
                    new == levels'[s][p]
                IN  \A i \in DOMAIN old, j, k \in DOMAIN new :
                      old[i].id = new[j].id =>
                        /\ new[j].quantity <= old[i].quantity
                        /\ k < j => \E h \in 1 .. i-1 : old[h].id = new[k].id]_vars
  BY <1>1, PlacesStep DEF AllPlacesKept, PlacesKept
<1> QED  BY <1>1, InitIndexInv, IndexInvStep, PTL DEF Spec, QueuePositionsKept
=============================================================================

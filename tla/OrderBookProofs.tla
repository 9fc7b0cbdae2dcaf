--------------------------- MODULE OrderBookProofs ---------------------------
(***************************************************************************)
(* Theorems about OrderBook, for every set of ids, prices and quantities.  *)
(***************************************************************************)
EXTENDS OrderBook, SequenceTheorems, TLAPS

-----------------------------------------------------------------------------
(* The containers.                                                         *)

\* begin() of a non-empty map is its best key.
LEMMA BestIsBest ==
  ASSUME NEW s \in Side, IsBookMap(levels[s]), DOMAIN levels[s] # {}
  PROVE  /\ Best(s) \in DOMAIN levels[s]
         /\ \A q \in DOMAIN levels[s] : q = Best(s) \/ Better(s, Best(s), q)
<1> DEFINE P == DOMAIN levels[s]
<1>1. P \in (SUBSET Prices) \ {{}} /\ P \subseteq Int
  BY PricesAssumption DEF IsBookMap
<1>2. \E p \in P : \A q \in P : q = p \/ Better(s, p, q)
  <2>1. CASE s = "BUY"
    <3>1. PICK p \in P : \A q \in P : q <= p
      BY <1>1, PricesAssumption
    <3>2. \A q \in P : q = p \/ p > q
      BY <1>1, <3>1
    <3> QED  BY <2>1, <3>2 DEF Better
  <2>2. CASE s = "SELL"
    <3>1. PICK p \in P : \A q \in P : p <= q
      BY <1>1, PricesAssumption
    <3>2. \A q \in P : q = p \/ p < q
      BY <1>1, <3>1
    <3> QED  BY <2>2, <3>2 DEF Better
  <2> QED  BY <2>1, <2>2 DEF Side
<1> QED  BY <1>2 DEF Best

\* What replacing one deque does to a map.
LEMMA SetLevelFacts ==
  ASSUME NEW map, IsBookMap(map), NEW p \in Prices, NEW q \in Seq(Order)
  PROVE  /\ IsBookMap(SetLevel(map, p, q))
         /\ \A x : x \in DOMAIN SetLevel(map, p, q) <=>
                     IF x = p THEN q # <<>> ELSE x \in DOMAIN map
         /\ \A x \in DOMAIN SetLevel(map, p, q) :
              SetLevel(map, p, q)[x] = IF x = p THEN q ELSE map[x]
BY DEF SetLevel, IsBookMap

\* What erasing an order does to a deque that holds its id once.
LEMMA EraseIdFacts ==
  ASSUME NEW q \in Seq(Order), NEW k \in DOMAIN q,
         \A j \in DOMAIN q : q[j].id = q[k].id => j = k
  PROVE  /\ FindId(q, q[k].id) = k
         /\ EraseId(q, q[k].id) \in Seq(Order)
         /\ Len(EraseId(q, q[k].id)) = Len(q) - 1
         /\ \A j \in 1 .. Len(q) - 1 :
              EraseId(q, q[k].id)[j] = IF j < k THEN q[j] ELSE q[j + 1]
<1>1. FindId(q, q[k].id) = k
  BY DEF FindId
<1> DEFINE a == SubSeq(q, 1, k - 1)
           b == SubSeq(q, k + 1, Len(q))
<1>2. /\ a \in Seq(Order) /\ Len(a) = k - 1
      /\ \A j \in 1 .. k - 1 : a[j] = q[j]
  BY SubSeqProperties
<1>3. /\ b \in Seq(Order) /\ Len(b) = Len(q) - k
      /\ \A j \in 1 .. Len(q) - k : b[j] = q[k + j]
  BY SubSeqProperties
<1>4. EraseId(q, q[k].id) = a \o b
  BY <1>1 DEF EraseId
<1>5. /\ a \o b \in Seq(Order)
      /\ Len(a \o b) = Len(q) - 1
      /\ \A j \in 1 .. Len(q) - 1 :
           (a \o b)[j] = IF j < k THEN q[j] ELSE q[j + 1]
  <2> HIDE DEF a, b
  <2>1. k \in 1 .. Len(q) /\ Len(q) \in Nat  OBVIOUS
  <2>2. a \o b \in Seq(Order) /\ Len(a \o b) = Len(q) - 1
    BY <1>2, <1>3, <2>1
  <2>3. ASSUME NEW j \in 1 .. Len(q) - 1
        PROVE  (a \o b)[j] = IF j < k THEN q[j] ELSE q[j + 1]
    <3>1. (a \o b)[j] = IF j <= Len(a) THEN a[j] ELSE b[j - Len(a)]
      BY <1>2, <1>3, <2>1, ConcatProperties
    <3>2. CASE j < k
      BY <3>1, <3>2, <1>2, <2>1
    <3>3. CASE ~(j < k)
      <4>1. j - (k - 1) \in 1 .. Len(q) - k /\ k + (j - (k - 1)) = j + 1
        BY <3>3, <2>1
      <4>2. (a \o b)[j] = b[j - (k - 1)]
        BY <3>1, <3>3, <1>2, <2>1
      <4>3. b[j - (k - 1)] = q[k + (j - (k - 1))]
        BY <4>1, <1>3
      <4> QED  BY <3>3, <4>1, <4>2, <4>3
    <3> QED  BY <3>2, <3>3
  <2> QED  BY <2>2, <2>3
<1> QED  BY <1>1, <1>4, <1>5

-----------------------------------------------------------------------------
(* The index.                                                              *)

\* One deque is replaced, and the index changes for the ids of that level only.
LEMMA LevelReplaced ==
  ASSUME BookTypeOK, IndexTracksBook,
         NEW s \in Side, NEW p \in Prices, NEW q \in Seq(Order),
         levels' = [levels EXCEPT ![s] = SetLevel(@, p, q)],
         IsIndex(orderIndex'),
         LevelIndexed(orderIndex', q, s, p),
         \A id \in DOMAIN orderIndex' :
           \/ orderIndex'[id] = [side |-> s, price |-> p] /\ HasId(q, id)
           \/ id \in DOMAIN orderIndex /\ orderIndex'[id] = orderIndex[id]
              /\ orderIndex[id] # [side |-> s, price |-> p],
         \A id \in DOMAIN orderIndex :
           orderIndex[id] # [side |-> s, price |-> p] =>
             id \in DOMAIN orderIndex' /\ orderIndex'[id] = orderIndex[id]
  PROVE  BookTypeOK' /\ IndexTracksBook'
<1> DEFINE here == [side |-> s, price |-> p]
<1>1. /\ levels = [t \in Side |-> levels[t]]
      /\ \A t \in Side : IsBookMap(levels[t])
  BY DEF BookTypeOK
<1>2. /\ levels' = [t \in Side |-> levels'[t]]
      /\ levels'[s] = SetLevel(levels[s], p, q)
      /\ \A t \in Side \ {s} : levels'[t] = levels[t]
  BY <1>1
<1>3. /\ IsBookMap(levels'[s])
      /\ \A x : x \in DOMAIN levels'[s] <=> IF x = p THEN q # <<>> ELSE x \in DOMAIN levels[s]
      /\ \A x \in DOMAIN levels'[s] : levels'[s][x] = IF x = p THEN q ELSE levels[s][x]
  BY <1>1, <1>2, SetLevelFacts
<1>4. BookTypeOK'
  BY <1>1, <1>2, <1>3 DEF BookTypeOK, IsBookMap
<1>5. ASSUME NEW t \in Side, NEW x \in DOMAIN levels'[t]
      PROVE  levels'[t][x] # <<>> /\ LevelIndexed(orderIndex', levels'[t][x], t, x)
  <2>1. CASE t = s /\ x = p
    BY <2>1, <1>3
  <2>2. CASE ~(t = s /\ x = p)
    <3>1. x \in DOMAIN levels[t] /\ levels'[t][x] = levels[t][x]
      BY <2>2, <1>2, <1>3
    <3>2. levels[t][x] # <<>> /\ LevelIndexed(orderIndex, levels[t][x], t, x)
      BY <3>1 DEF IndexTracksBook
    <3>3. [side |-> t, price |-> x] # here
      BY <2>2
    <3>4. LevelIndexed(orderIndex', levels[t][x], t, x)
      <4>1. ASSUME NEW k \in DOMAIN levels[t][x]
            PROVE  LET id == levels[t][x][k].id
                   IN  id \in DOMAIN orderIndex' /\ orderIndex'[id] = orderIndex[id]
        BY <3>2, <3>3 DEF LevelIndexed
      <4> QED  BY <3>1, <3>2, <4>1 DEF LevelIndexed
    <3> QED  BY <3>1, <3>2, <3>4
  <2> QED  BY <2>1, <2>2
<1>6. ASSUME NEW id \in DOMAIN orderIndex'
      PROVE  Located(id)'
  <2>1. CASE orderIndex'[id] = here /\ HasId(q, id)
    <3>1. q # <<>>
      BY <2>1 DEF HasId
    <3>2. Level(levels'[s], p) = q
      BY <3>1, <1>3 DEF Level
    <3> QED  BY <2>1, <3>2 DEF Located
  <2>2. CASE id \in DOMAIN orderIndex /\ orderIndex'[id] = orderIndex[id] /\ orderIndex[id] # here
    <3> DEFINE at == orderIndex[id]
    <3>1. at \in Location
      BY <2>2 DEF BookTypeOK, IsIndex
    <3>2. HasId(Level(levels[at.side], at.price), id)
      BY <2>2 DEF IndexTracksBook, Located
    <3>3. at.price \in DOMAIN levels[at.side]
      BY <3>2 DEF Level, HasId
    <3>4. ~(at.side = s /\ at.price = p)
      BY <2>2, <3>1 DEF Location
    <3>5. at.price \in DOMAIN levels'[at.side]
          /\ levels'[at.side][at.price] = levels[at.side][at.price]
      BY <3>1, <3>3, <3>4, <1>2, <1>3 DEF Location
    <3> QED  BY <2>2, <3>2, <3>3, <3>5 DEF Located, Level
  <2> QED  BY <2>1, <2>2
<1> QED  BY <1>4, <1>5, <1>6 DEF IndexTracksBook

\* addOrder, of an id that is not indexed.
LEMMA PushBackKeeps ==
  ASSUME BookTypeOK, IndexTracksBook,
         NEW o \in Order, o.id \notin DOMAIN orderIndex, PushBack(o)
  PROVE  /\ BookTypeOK' /\ IndexTracksBook'
         /\ DOMAIN orderIndex' = DOMAIN orderIndex \cup {o.id}
<1> DEFINE s == o.side
           p == o.price
           here == [side |-> s, price |-> p]
           old == Level(levels[s], p)
           q == Append(old, o)
<1>1. s \in Side /\ p \in Prices /\ o.id \in Ids
  BY DEF Order
<1>2. old \in Seq(Order)
  BY <1>1 DEF Level, BookTypeOK, IsBookMap
<1>3. /\ q \in Seq(Order) /\ Len(q) = Len(old) + 1
      /\ \A k \in 1 .. Len(old) : q[k] = old[k]
      /\ q[Len(q)] = o
  BY <1>2
<1>4. /\ DOMAIN orderIndex' = DOMAIN orderIndex \cup {o.id}
      /\ orderIndex'[o.id] = here
      /\ \A id \in DOMAIN orderIndex : orderIndex'[id] = orderIndex[id]
  BY DEF PushBack
<1>5. IsIndex(orderIndex')
  <2>1. here \in Location
    BY <1>1 DEF Location
  <2>2. orderIndex' = [id \in DOMAIN orderIndex' |-> orderIndex'[id]]
    BY DEF PushBack
  <2> QED  BY <1>1, <1>4, <2>1, <2>2 DEF BookTypeOK, IsIndex
<1>6. LevelIndexed(orderIndex, old, s, p)
  BY <1>1 DEF IndexTracksBook, Level, LevelIndexed
<1>7. LevelIndexed(orderIndex', q, s, p)
  <2> HIDE DEF q, old
  <2>1. ASSUME NEW k \in DOMAIN q
        PROVE  \/ k \in DOMAIN old /\ q[k] = old[k]
               \/ k = Len(q) /\ q[k] = o
    BY <1>2, <1>3
  <2>2. \A k \in DOMAIN old : old[k].id # o.id
    BY <1>6 DEF LevelIndexed
  <2> QED  BY <1>4, <1>6, <2>1, <2>2 DEF LevelIndexed
<1>8. ASSUME NEW id \in DOMAIN orderIndex'
      PROVE  \/ orderIndex'[id] = here /\ HasId(q, id)
             \/ id \in DOMAIN orderIndex /\ orderIndex'[id] = orderIndex[id]
                /\ orderIndex[id] # here
  <2>1. CASE id = o.id
    BY <2>1, <1>2, <1>3, <1>4 DEF HasId
  <2>2. CASE id # o.id /\ orderIndex[id] = here
    <3>1. id \in DOMAIN orderIndex /\ HasId(old, id)
      BY <2>2, <1>4 DEF IndexTracksBook, Located
    <3> QED  BY <2>2, <3>1, <1>2, <1>3, <1>4 DEF HasId
  <2>3. CASE id # o.id /\ orderIndex[id] # here
    BY <2>3, <1>4
  <2> QED  BY <2>1, <2>2, <2>3
<1>9. levels' = [levels EXCEPT ![s] = SetLevel(@, p, q)]
  BY <1>1 DEF PushBack, BookTypeOK
<1>10. \A id \in DOMAIN orderIndex : orderIndex[id] # here =>
         id \in DOMAIN orderIndex' /\ orderIndex'[id] = orderIndex[id]
  BY <1>4
<1>11. BookTypeOK' /\ IndexTracksBook'
  <2> HIDE DEF q, s, p
  <2> QED  BY <1>1, <1>3, <1>5, <1>7, <1>8, <1>9, <1>10, LevelReplaced
<1> QED  BY <1>4, <1>11

\* An order leaves its deque, and its id the index.
LEMMA RemovalKeeps ==
  ASSUME BookTypeOK, IndexTracksBook,
         NEW s \in Side, NEW p \in DOMAIN levels[s], NEW k \in DOMAIN levels[s][p],
         NEW q \in Seq(Order), Len(q) = Len(levels[s][p]) - 1,
         \A j \in 1 .. Len(q) :
           q[j] = IF j < k THEN levels[s][p][j] ELSE levels[s][p][j + 1],
         levels' = [levels EXCEPT ![s] = SetLevel(@, p, q)],
         orderIndex' = WithoutId(levels[s][p][k].id)
  PROVE  /\ BookTypeOK' /\ IndexTracksBook'
         /\ DOMAIN orderIndex' = DOMAIN orderIndex \ {levels[s][p][k].id}
<1> DEFINE here == [side |-> s, price |-> p]
           old == levels[s][p]
           gone == old[k].id
<1>1. p \in Prices /\ old \in Seq(Order) /\ k \in DOMAIN old
  BY DEF BookTypeOK, IsBookMap
<1>2. LevelIndexed(orderIndex, old, s, p)
  BY DEF IndexTracksBook
<1>3. /\ DOMAIN orderIndex' = DOMAIN orderIndex \ {gone}
      /\ \A id \in DOMAIN orderIndex \ {gone} : orderIndex'[id] = orderIndex[id]
  BY DEF WithoutId
<1>4. IsIndex(orderIndex')
  <2>1. orderIndex' = [id \in DOMAIN orderIndex' |-> orderIndex'[id]]
    BY DEF WithoutId
  <2> QED  BY <1>3, <2>1 DEF BookTypeOK, IsIndex
<1>5. \A j \in DOMAIN q : \E i \in DOMAIN old \ {k} :
        q[j] = old[i] /\ i = IF j < k THEN j ELSE j + 1
  BY <1>1
<1>6. \A i \in DOMAIN old \ {k} : \E j \in DOMAIN q : q[j] = old[i]
  <2> TAKE i \in DOMAIN old \ {k}
  <2>1. CASE i < k
    BY <2>1, <1>1
  <2>2. CASE i > k
    <3>1. i - 1 \in DOMAIN q /\ q[i - 1] = old[i]
      BY <2>2, <1>1
    <3> QED  BY <3>1
  <2> QED  BY <2>1, <2>2, <1>1
<1> HIDE DEF old
<1>7. LevelIndexed(orderIndex', q, s, p)
  <2>1. ASSUME NEW j \in DOMAIN q
        PROVE  /\ q[j].side = s /\ q[j].price = p
               /\ q[j].id \in DOMAIN orderIndex'
               /\ orderIndex'[q[j].id] = here
    BY <1>1, <1>2, <1>3, <1>5 DEF LevelIndexed
  <2>2. ASSUME NEW j \in DOMAIN q, NEW i \in DOMAIN q, q[i].id = q[j].id
        PROVE  i = j
    <3>1. PICK a \in DOMAIN old \ {k} : q[j] = old[a] /\ a = IF j < k THEN j ELSE j + 1
      BY <1>5
    <3>2. PICK b \in DOMAIN old \ {k} : q[i] = old[b] /\ b = IF i < k THEN i ELSE i + 1
      BY <1>5
    <3>3. a = b
      BY <1>2, <2>2, <3>1, <3>2 DEF LevelIndexed
    <3>4. i \in Int /\ j \in Int /\ k \in Int
      BY <1>1 DEF old
    <3> QED  BY <3>1, <3>2, <3>3, <3>4
  <2> QED  BY <2>1, <2>2 DEF LevelIndexed
<1>8. ASSUME NEW id \in DOMAIN orderIndex'
      PROVE  \/ orderIndex'[id] = here /\ HasId(q, id)
             \/ id \in DOMAIN orderIndex /\ orderIndex'[id] = orderIndex[id]
                /\ orderIndex[id] # here
  <2>1. CASE orderIndex[id] = here
    <3>1. HasId(old, id)
      BY <2>1, <1>3 DEF IndexTracksBook, Located, Level, old
    <3>2. PICK i \in DOMAIN old : old[i].id = id
      BY <3>1 DEF HasId
    <3>3. i # k
      BY <3>2, <1>3
    <3> QED  BY <2>1, <3>2, <3>3, <1>3, <1>6 DEF HasId
  <2>2. CASE orderIndex[id] # here
    BY <2>2, <1>3
  <2> QED  BY <2>1, <2>2
<1>9. \A id \in DOMAIN orderIndex : orderIndex[id] # here =>
        id \in DOMAIN orderIndex' /\ orderIndex'[id] = orderIndex[id]
  BY <1>2, <1>3 DEF LevelIndexed, old
<1>10. BookTypeOK' /\ IndexTracksBook'
  BY <1>1, <1>4, <1>7, <1>8, <1>9, LevelReplaced
<1> QED  BY <1>3, <1>10 DEF old

\* One deque is replaced.
LevelPut(s, p, q) == levels' = [levels EXCEPT ![s] = SetLevel(@, p, q)]

\* The quantity of one order is overwritten.
QuantityPut(s, p, k, n) == levels' = [levels EXCEPT ![s][p][k].quantity = n]

\* Writing a quantity where an order stands is replacing its deque.
LEMMA QuantityWritten ==
  ASSUME BookTypeOK,
         NEW s \in Side, NEW p \in DOMAIN levels[s], NEW k \in DOMAIN levels[s][p],
         NEW n \in Uint64,
         QuantityPut(s, p, k, n)
  PROVE  \E q \in Seq(Order) :
           /\ DOMAIN q = DOMAIN levels[s][p] /\ q # <<>>
           /\ \A j \in DOMAIN q : /\ q[j].id = levels[s][p][j].id
                                  /\ q[j].side = levels[s][p][j].side
                                  /\ q[j].price = levels[s][p][j].price
                                  /\ j # k => q[j] = levels[s][p][j]
           /\ q[k].quantity = n
           /\ LevelPut(s, p, q)
<1> DEFINE old == levels[s][p]
           q == [old EXCEPT ![k].quantity = n]
<1>1. p \in Prices /\ old \in Seq(Order) /\ IsBookMap(levels[s])
  BY DEF BookTypeOK, IsBookMap
<1>2. /\ q \in Seq(Order) /\ DOMAIN q = DOMAIN levels[s][p] /\ q # <<>>
      /\ \A j \in DOMAIN q : /\ q[j].id = levels[s][p][j].id
                             /\ q[j].side = levels[s][p][j].side
                             /\ q[j].price = levels[s][p][j].price
                             /\ j # k => q[j] = levels[s][p][j]
      /\ q[k].quantity = n
  <2>1. old[k] \in Order
    BY <1>1
  <2>2. [old[k] EXCEPT !.quantity = n] \in Order
    BY <2>1 DEF Order
  <2>3. q = [old EXCEPT ![k] = [old[k] EXCEPT !.quantity = n]]
    BY <1>1
  <2>4. q \in Seq(Order) /\ DOMAIN q = DOMAIN old
    BY <1>1, <2>2, <2>3
  <2>5. \A j \in DOMAIN old : q[j].id = old[j].id /\ q[j].side = old[j].side
                              /\ q[j].price = old[j].price
                              /\ j # k => q[j] = old[j]
    BY <1>1, <2>1, <2>3 DEF Order
  <2>6. q[k].quantity = n
    BY <1>1, <2>1, <2>3 DEF Order
  <2> QED  BY <1>1, <2>4, <2>5, <2>6
<1>3. LevelPut(s, p, q)
  <2>1. SetLevel(levels[s], p, q) = [levels[s] EXCEPT ![p] = q]
    <3> DEFINE m == levels[s]
    <3>1. m = [x \in DOMAIN m |-> m[x]] /\ p \in DOMAIN m
      BY <1>1 DEF IsBookMap
    <3>2. SetLevel(m, p, q) = [x \in DOMAIN m |-> IF x = p THEN q ELSE m[x]]
      BY <1>2, <3>1 DEF SetLevel
    <3> HIDE DEF m, q
    <3>3. [m EXCEPT ![p] = q] = [x \in DOMAIN m |-> IF x = p THEN q ELSE m[x]]
      BY <3>1
    <3> QED  BY <3>2, <3>3 DEF m
  <2> QED  BY <2>1 DEF LevelPut, QuantityPut
<1> HIDE DEF q
<1> QED  BY <1>2, <1>3

\* An order's quantity changes where it stands.
LEMMA QuantityKeeps ==
  ASSUME BookTypeOK, IndexTracksBook,
         NEW s \in Side, NEW p \in DOMAIN levels[s], NEW k \in DOMAIN levels[s][p],
         NEW n \in Uint64,
         QuantityPut(s, p, k, n),
         orderIndex' = orderIndex
  PROVE  BookTypeOK' /\ IndexTracksBook'
<1> DEFINE here == [side |-> s, price |-> p]
           old == levels[s][p]
<1>1. p \in Prices
  BY DEF BookTypeOK, IsBookMap
<1>2. PICK q \in Seq(Order) :
        /\ DOMAIN q = DOMAIN levels[s][p] /\ q # <<>>
        /\ \A j \in DOMAIN q : /\ q[j].id = levels[s][p][j].id
                               /\ q[j].side = levels[s][p][j].side
                               /\ q[j].price = levels[s][p][j].price
                               /\ j # k => q[j] = levels[s][p][j]
        /\ q[k].quantity = n
        /\ LevelPut(s, p, q)
  BY QuantityWritten
<1>3. LevelIndexed(orderIndex, old, s, p)
  BY DEF IndexTracksBook
<1>4. LevelIndexed(orderIndex', q, s, p)
  BY <1>2, <1>3 DEF LevelIndexed
<1>5. ASSUME NEW id \in DOMAIN orderIndex, orderIndex[id] = here
      PROVE  HasId(q, id)
  BY <1>2, <1>5 DEF IndexTracksBook, Located, Level, HasId
<1> QED  BY <1>1, <1>2, <1>4, <1>5, LevelReplaced DEF BookTypeOK, LevelPut

-----------------------------------------------------------------------------
(* What the operations find in a book whose index is consistent.           *)

\* cancelOrder and modifyOrder: the order is where the index says.
LEMMA LocatedFacts ==
  ASSUME BookTypeOK, IndexTracksBook, NEW id \in Ids, Located(id)
  PROVE  LET at    == orderIndex[id]
             deque == levels[at.side][at.price]
             k     == FindId(deque, id)
         IN  /\ id \in DOMAIN orderIndex
             /\ at.side \in Side /\ at.price \in DOMAIN levels[at.side]
             /\ deque \in Seq(Order) /\ k \in DOMAIN deque /\ deque[k].id = id
             /\ \A j \in DOMAIN deque : deque[j].id = deque[k].id => j = k
<1> DEFINE at == orderIndex[id]
           deque == levels[at.side][at.price]
<1>1. id \in DOMAIN orderIndex /\ at \in Location
  BY DEF Located, BookTypeOK, IsIndex
<1>2. HasId(Level(levels[at.side], at.price), id)
  BY DEF Located
<1>3. at.price \in DOMAIN levels[at.side] /\ HasId(deque, id)
  BY <1>2 DEF Level, HasId
<1>4. at.side \in Side
  BY <1>1 DEF Location
<1>5. deque \in Seq(Order)
  BY <1>3, <1>4 DEF BookTypeOK, IsBookMap
<1>6. LevelIndexed(orderIndex, deque, at.side, at.price)
  BY <1>3, <1>4 DEF IndexTracksBook
<1> HIDE DEF at, deque
<1>7. PICK k \in DOMAIN deque : deque[k].id = id
  BY <1>3 DEF HasId
<1>8. \A j \in DOMAIN deque : deque[j].id = deque[k].id => j = k
  BY <1>6, <1>7 DEF LevelIndexed
<1>9. FindId(deque, id) = k
  BY <1>5, <1>7, <1>8, EraseIdFacts
<1> QED  BY <1>1, <1>3, <1>4, <1>5, <1>7, <1>8, <1>9 DEF at, deque

LEMMA EraseKeeps ==
  ASSUME BookTypeOK, IndexTracksBook, NEW id \in Ids, Located(id), Erase(id)
  PROVE  /\ BookTypeOK' /\ IndexTracksBook'
         /\ DOMAIN orderIndex' = DOMAIN orderIndex \ {id}
<1> DEFINE at == orderIndex[id]
           deque == levels[at.side][at.price]
           k == FindId(deque, id)
           q == EraseId(deque, id)
<1>1. /\ id \in DOMAIN orderIndex
      /\ at.side \in Side /\ at.price \in DOMAIN levels[at.side]
      /\ deque \in Seq(Order) /\ k \in DOMAIN deque /\ deque[k].id = id
      /\ \A j \in DOMAIN deque : deque[j].id = deque[k].id => j = k
  BY LocatedFacts
<1>2. /\ levels' = [levels EXCEPT ![at.side] = SetLevel(@, at.price, q)]
      /\ orderIndex' = WithoutId(id)
  BY DEF Erase
<1> HIDE DEF at, deque, k
<1>3. /\ q \in Seq(Order) /\ Len(q) = Len(deque) - 1
      /\ \A j \in 1 .. Len(q) : q[j] = IF j < k THEN deque[j] ELSE deque[j + 1]
  BY <1>1, EraseIdFacts
<1> HIDE DEF q
<1> QED  BY <1>1, <1>2, <1>3, RemovalKeeps DEF deque

\* The matching loop: the maker is the front of the best level.
LEMMA MakerFacts ==
  ASSUME BookTypeOK, IndexTracksBook, LoopCondition
  PROVE  /\ MakerSide \in Side
         /\ Best(MakerSide) \in DOMAIN levels[MakerSide]
         /\ levels[MakerSide][Best(MakerSide)] \in Seq(Order)
         /\ 1 \in DOMAIN levels[MakerSide][Best(MakerSide)]
         /\ Maker = levels[MakerSide][Best(MakerSide)][1]
         /\ Maker \in Order /\ Maker.price = Best(MakerSide)
<1> DEFINE q == levels[MakerSide][Best(MakerSide)]
<1>1. MakerSide \in Side
  BY DEF MakerSide, Opposite, Side
<1>2. Best(MakerSide) \in DOMAIN levels[MakerSide]
  BY <1>1, BestIsBest DEF BookTypeOK, LoopCondition
<1>3. q \in Seq(Order)
  BY <1>1, <1>2 DEF BookTypeOK, IsBookMap
<1>4. q # <<>> /\ LevelIndexed(orderIndex, q, MakerSide, Best(MakerSide))
  BY <1>1, <1>2 DEF IndexTracksBook
<1>5. Maker = Head(q)
  BY DEF Maker
<1> HIDE DEF q
<1>6. 1 \in DOMAIN q /\ Maker = q[1] /\ Maker \in Order
  BY <1>3, <1>4, <1>5
<1> QED  BY <1>1, <1>2, <1>3, <1>4, <1>6 DEF q, LevelIndexed

\* A caller that follows fresh_ids never sends an id the index has.
LEMMA FreshIsUnindexed ==
  ASSUME "fresh_ids" \in Discipline, BookTypeOK, IndexTracksBook,
         NEW id \in Ids, Fresh(id)
  PROVE  id \notin DOMAIN orderIndex
<1> SUFFICES ASSUME id \in DOMAIN orderIndex
             PROVE  FALSE
  OBVIOUS
<1> DEFINE s == orderIndex[id].side
           p == orderIndex[id].price
<1>1. Located(id)
  BY DEF IndexTracksBook
<1>2. PICK k \in DOMAIN levels[s][p] : levels[s][p][k].id = id
  BY <1>1, LocatedFacts
<1>3. s \in Side /\ p \in DOMAIN levels[s]
  BY <1>1, LocatedFacts
<1> HIDE DEF s, p
<1>4. <<p, k>> \in Slots(s) /\ At(s, <<p, k>>).id = id
  BY <1>2, <1>3 DEF Slots, At
<1>5. id \in RestingIds
  BY <1>3, <1>4 DEF RestingIds
<1> QED  BY <1>5 DEF Fresh

-----------------------------------------------------------------------------
(* The inductive invariant.                                                *)

\* The order being matched is not in the book: modifyOrder has taken it out.
TakerUnindexed == pc = "match" => incoming.id \notin DOMAIN orderIndex

IndexInv == TypeOK /\ IndexTracksBook /\ TakerUnindexed

LEMMA InitIndexInv == Init => IndexInv
<1> SUFFICES ASSUME Init PROVE IndexInv
  OBVIOUS
<1>1. \A s \in Side : DOMAIN levels[s] = {} /\ levels[s] = <<>>
  BY DEF Init
<1>2. DOMAIN orderIndex = {} /\ orderIndex = <<>>
  BY DEF Init
<1>3. TypeOK
  <2>1. \A s \in Side : IsBookMap(levels[s])
    BY <1>1 DEF IsBookMap
  <2>2. IsIndex(orderIndex)
    BY <1>2 DEF IsIndex
  <2> QED  BY <2>1, <2>2 DEF Init, TypeOK, BookTypeOK
<1>4. IndexTracksBook
  BY <1>1, <1>2 DEF IndexTracksBook
<1>5. TakerUnindexed
  BY DEF Init, TakerUnindexed
<1> QED  BY <1>3, <1>4, <1>5 DEF IndexInv

LEMMA AddOrderIndexInv ==
  ASSUME "fresh_ids" \in Discipline, IndexInv, NEW o \in NewOrders, AddOrder(o)
  PROVE  IndexInv'
<1>1. o \in Order
  BY QuantitiesAssumption DEF NewOrders, Order
<1>2. o.id \notin DOMAIN orderIndex
  BY <1>1, FreshIsUnindexed DEF AddOrder, Addable, IndexInv, TypeOK, Order
<1>3. BookTypeOK' /\ IndexTracksBook'
  BY <1>1, <1>2, PushBackKeeps DEF AddOrder, IndexInv, TypeOK
<1> QED  BY <1>3 DEF AddOrder, Answer, NoMatching, IndexInv, TypeOK, TakerUnindexed

LEMMA SubmitOrderIndexInv ==
  ASSUME "fresh_ids" \in Discipline, IndexInv, NEW o \in NewOrders, SubmitOrder(o)
  PROVE  IndexInv'
<1>1. o \in Order
  BY QuantitiesAssumption DEF NewOrders, Order
<1>2. o.id \notin DOMAIN orderIndex
  BY <1>1, FreshIsUnindexed DEF SubmitOrder, IndexInv, TypeOK, Order
<1>3. BookTypeOK' /\ IndexTracksBook'
  BY DEF SubmitOrder, IndexInv, TypeOK, BookTypeOK, IsBookMap, IsIndex,
         IndexTracksBook, Located, LevelIndexed, Level
<1>4. TypeOK'
  BY <1>1, <1>3, NoOrderAssumption DEF SubmitOrder, Answer, IndexInv, TypeOK
<1>5. TakerUnindexed'
  BY <1>2 DEF SubmitOrder, TakerUnindexed
<1> QED  BY <1>3, <1>4, <1>5 DEF IndexInv

LEMMA UnchangedBook ==
  ASSUME BookTypeOK, IndexTracksBook, UNCHANGED book
  PROVE  BookTypeOK' /\ IndexTracksBook' /\ DOMAIN orderIndex' = DOMAIN orderIndex
BY DEF book, BookTypeOK, IsBookMap, IsIndex, IndexTracksBook, Located, LevelIndexed, Level

LEMMA CancelOrderIndexInv ==
  ASSUME IndexInv, NEW id \in Ids, CancelOrder(id)
  PROVE  IndexInv'
<1>1. BookTypeOK' /\ IndexTracksBook'
  BY EraseKeeps, UnchangedBook DEF CancelOrder, IndexInv, TypeOK
<1> QED  BY <1>1 DEF CancelOrder, Answer, NoMatching, IndexInv, TypeOK, TakerUnindexed

LEMMA ModifyOrderIndexInv ==
  ASSUME IndexInv, NEW id \in Ids, NEW newPrice \in Prices, NEW newQuantity \in Quantities,
         ModifyOrder(id, newPrice, newQuantity)
  PROVE  IndexInv'
<1> DEFINE at == orderIndex[id]
           deque == levels[at.side][at.price]
           k == FindId(deque, id)
<1>1. newQuantity \in Uint64
  BY QuantitiesAssumption
<1>2. CASE UNCHANGED book /\ Answer("absent") /\ NoMatching
  <2>1. BookTypeOK' /\ IndexTracksBook'
    BY <1>2, UnchangedBook DEF IndexInv, TypeOK
  <2> QED  BY <1>2, <2>1 DEF Answer, NoMatching, IndexInv, TypeOK, TakerUnindexed
<1>3. CASE Located(id) /\ Erase(id) /\ Answer("ok") /\ NoMatching
  <2>1. BookTypeOK' /\ IndexTracksBook'
    BY <1>3, EraseKeeps DEF IndexInv, TypeOK
  <2> QED  BY <1>3, <2>1 DEF Answer, NoMatching, IndexInv, TypeOK, TakerUnindexed
<1>4. CASE /\ Located(id) /\ ModifyInPlace(id, newQuantity) /\ UNCHANGED orderIndex
           /\ Answer("ok") /\ NoMatching
  <2>1. at.side \in Side /\ at.price \in DOMAIN levels[at.side] /\ k \in DOMAIN deque
    BY <1>4, LocatedFacts DEF IndexInv, TypeOK
  <2>2. QuantityPut(at.side, at.price, k, newQuantity)
    BY <1>4 DEF ModifyInPlace, QuantityPut
  <2>3. BookTypeOK' /\ IndexTracksBook'
    <3> HIDE DEF at, k
    <3> QED  BY <1>1, <1>4, <2>1, <2>2, QuantityKeeps DEF IndexInv, TypeOK
  <2> QED  BY <1>4, <2>3 DEF Answer, NoMatching, IndexInv, TypeOK, TakerUnindexed
<1>5. CASE /\ Located(id) /\ Erase(id)
           /\ incoming' = [id |-> id, side |-> at.side, price |-> newPrice,
                           quantity |-> newQuantity, type |-> "LIMIT"]
           /\ pc' = "match" /\ UNCHANGED <<trades, result>>
  <2>1. /\ BookTypeOK' /\ IndexTracksBook'
        /\ DOMAIN orderIndex' = DOMAIN orderIndex \ {id}
    BY <1>5, EraseKeeps DEF IndexInv, TypeOK
  <2>2. at.side \in Side
    BY <1>5, LocatedFacts DEF IndexInv, TypeOK
  <2>3. incoming' \in Order
    BY <1>1, <1>5, <2>2 DEF Order, OrderType
  <2>4. TypeOK'
    BY <1>5, <2>1, <2>3, NoOrderAssumption DEF IndexInv, TypeOK
  <2> QED  BY <1>5, <2>1, <2>4 DEF IndexInv, TakerUnindexed
<1> QED  BY <1>2, <1>3, <1>4, <1>5 DEF ModifyOrder

\* The taker's side of a fill.
LEMMA FillTypes ==
  ASSUME TypeOK, pc = "match", Maker \in Order, NEW n \in Uint64,
         n <= incoming.quantity, Fill(n)
  PROVE  /\ incoming \in Order /\ incoming' = [incoming EXCEPT !.quantity = @ - n]
         /\ incoming' \in Order /\ incoming' # NoOrder /\ incoming'.id = incoming.id
         /\ trades' \in Seq(Trade) /\ pc' = pc /\ result' = result
<1>1. incoming \in Order
  BY DEF TypeOK
<1>2. incoming.quantity - n \in Uint64
  BY <1>1, QuantitiesAssumption DEF Order, Uint64
<1>3. incoming' \in Order /\ incoming'.id = incoming.id
  BY <1>1, <1>2 DEF Fill, Order
<1> DEFINE t == [buy   |-> IF incoming.side = "BUY" THEN incoming.id ELSE Maker.id,
                 sell  |-> IF incoming.side = "BUY" THEN Maker.id ELSE incoming.id,
                 price |-> Maker.price, quantity |-> n]
<1>4. t \in Trade
  BY <1>1 DEF Trade, Order
<1>5. trades' = Append(trades, t)
  BY DEF Fill
<1>6. trades' \in Seq(Trade)
  <2> HIDE DEF t
  <2> QED  BY <1>4, <1>5 DEF TypeOK
<1> QED  BY <1>1, <1>3, <1>6, NoOrderAssumption DEF Fill

LEMMA ConsumeMakerIndexInv ==
  ASSUME IndexInv, ConsumeMaker
  PROVE  IndexInv'
<1> DEFINE s == MakerSide
           p == Best(MakerSide)
           deque == levels[s][p]
           q == Tail(deque)
<1>1. /\ s \in Side /\ p \in DOMAIN levels[s] /\ deque \in Seq(Order)
      /\ 1 \in DOMAIN deque /\ Maker = deque[1] /\ Maker \in Order
  BY MakerFacts DEF ConsumeMaker, IndexInv, TypeOK
<1>2. /\ levels' = [levels EXCEPT ![s] = SetLevel(@, p, q)]
      /\ orderIndex' = WithoutId(Maker.id)
  BY DEF ConsumeMaker
<1> HIDE DEF s, p
<1>3. /\ q \in Seq(Order) /\ Len(q) = Len(deque) - 1
      /\ \A j \in 1 .. Len(q) : q[j] = IF j < 1 THEN deque[j] ELSE deque[j + 1]
  BY <1>1
<1>4. /\ BookTypeOK' /\ IndexTracksBook'
      /\ DOMAIN orderIndex' = DOMAIN orderIndex \ {Maker.id}
  <2> HIDE DEF q
  <2> QED  BY <1>1, <1>2, <1>3, RemovalKeeps DEF IndexInv, TypeOK
<1>5. Maker.quantity \in Uint64 /\ Maker.quantity <= incoming.quantity
  BY <1>1 DEF ConsumeMaker, MakerFilled, Order
<1>6. /\ incoming' \in Order /\ incoming' # NoOrder /\ incoming'.id = incoming.id
      /\ trades' \in Seq(Trade) /\ pc' = pc /\ result' = result
  BY <1>1, <1>5, FillTypes DEF ConsumeMaker, IndexInv
<1> QED  BY <1>4, <1>6 DEF IndexInv, TypeOK, TakerUnindexed

LEMMA ReduceMakerIndexInv ==
  ASSUME IndexInv, ReduceMaker
  PROVE  IndexInv'
<1> DEFINE s == MakerSide
           p == Best(MakerSide)
           n == Maker.quantity - incoming.quantity
<1>1. /\ s \in Side /\ p \in DOMAIN levels[s] /\ 1 \in DOMAIN levels[s][p]
      /\ Maker = levels[s][p][1] /\ Maker \in Order
  BY MakerFacts DEF ReduceMaker, IndexInv, TypeOK
<1>2. incoming.quantity \in Uint64 /\ n \in Uint64
  BY <1>1, QuantitiesAssumption
  DEF ReduceMaker, MakerFilled, IndexInv, TypeOK, Order, Uint64
<1>3. QuantityPut(s, p, 1, n) /\ orderIndex' = orderIndex
  BY <1>1 DEF ReduceMaker, QuantityPut
<1>4. BookTypeOK' /\ IndexTracksBook'
  <2> HIDE DEF s, p, n
  <2> QED  BY <1>1, <1>2, <1>3, QuantityKeeps DEF IndexInv, TypeOK
<1>5. incoming.quantity <= incoming.quantity
  BY <1>2, QuantitiesAssumption DEF Uint64
<1>6. /\ incoming' \in Order /\ incoming' # NoOrder /\ incoming'.id = incoming.id
      /\ trades' \in Seq(Trade) /\ pc' = pc /\ result' = result
  BY <1>1, <1>2, <1>5, FillTypes DEF ReduceMaker, IndexInv
<1> QED  BY <1>3, <1>4, <1>6 DEF IndexInv, TypeOK, TakerUnindexed

LEMMA RestRemainderIndexInv ==
  ASSUME IndexInv, RestRemainder
  PROVE  IndexInv'
<1>1. incoming \in Order /\ incoming.id \notin DOMAIN orderIndex
  BY DEF RestRemainder, IndexInv, TypeOK, TakerUnindexed
<1>2. BookTypeOK' /\ IndexTracksBook'
  BY <1>1, PushBackKeeps DEF RestRemainder, IndexInv, TypeOK
<1> QED  BY <1>2 DEF RestRemainder, Answer, NoMatching, IndexInv, TypeOK, TakerUnindexed

LEMMA IndexInvStep ==
  ASSUME "fresh_ids" \in Discipline, IndexInv, [Next]_vars
  PROVE  IndexInv'
<1>1. ASSUME NEW o \in NewOrders, AddOrder(o) \/ SubmitOrder(o)
      PROVE  IndexInv'
  BY <1>1, AddOrderIndexInv, SubmitOrderIndexInv
<1>2. ASSUME NEW id \in Ids, CancelOrder(id)
      PROVE  IndexInv'
  BY <1>2, CancelOrderIndexInv
<1>3. ASSUME NEW id \in Ids, NEW p \in Prices, NEW q \in Quantities, ModifyOrder(id, p, q)
      PROVE  IndexInv'
  BY <1>3, ModifyOrderIndexInv
<1>4. CASE ConsumeMaker
  BY <1>4, ConsumeMakerIndexInv
<1>5. CASE ReduceMaker
  BY <1>5, ReduceMakerIndexInv
<1>6. CASE RestRemainder
  BY <1>6, RestRemainderIndexInv
<1>7. CASE DropRemainder
  <2>1. BookTypeOK' /\ IndexTracksBook'
    BY <1>7, UnchangedBook DEF DropRemainder, IndexInv, TypeOK
  <2> QED  BY <1>7, <2>1 DEF DropRemainder, Answer, NoMatching, IndexInv, TypeOK, TakerUnindexed
<1>8. CASE Return
  <2>1. BookTypeOK' /\ IndexTracksBook'
    BY <1>8, UnchangedBook DEF Return, IndexInv, TypeOK
  <2> QED  BY <1>8, <2>1 DEF Return, IndexInv, TypeOK, TakerUnindexed
<1>9. CASE UNCHANGED vars
  <2>1. BookTypeOK' /\ IndexTracksBook'
    BY <1>9, UnchangedBook DEF vars, book, IndexInv, TypeOK
  <2> QED  BY <1>9, <2>1 DEF vars, IndexInv, TypeOK, TakerUnindexed
<1> QED  BY <1>1, <1>2, <1>3, <1>4, <1>5, <1>6, <1>7, <1>8, <1>9 DEF Next, Call, Run

\* Whatever callers add - empty, crossing or MARKET orders included - as long as
\* no id is sent while it rests, the index and the maps stay in step through
\* every operation and every iteration of the matching loop.
THEOREM IndexAlwaysTracksBook ==
  ASSUME "fresh_ids" \in Discipline
  PROVE  Spec => []IndexTracksBook
<1>1. Init => IndexInv
  BY InitIndexInv
<1>2. IndexInv /\ [Next]_vars => IndexInv'
  BY IndexInvStep
<1>3. IndexInv => IndexTracksBook
  BY DEF IndexInv
<1> QED  BY <1>1, <1>2, <1>3, PTL DEF Spec

\* Under the same convention every variable keeps its type: no quantity
\* underflows in a fill, and every front() is taken of a non-empty deque.
THEOREM TypeCorrect ==
  ASSUME "fresh_ids" \in Discipline
  PROVE  Spec => []TypeOK
<1>1. Init => IndexInv
  BY InitIndexInv
<1>2. IndexInv /\ [Next]_vars => IndexInv'
  BY IndexInvStep
<1>3. IndexInv => TypeOK
  BY DEF IndexInv
<1> QED  BY <1>1, <1>2, <1>3, PTL DEF Spec

-----------------------------------------------------------------------------
(* The uncrossed book.                                                     *)

\* Removing orders cannot cross the book.
LEMMA ShrinkingKeepsUncrossed ==
  ASSUME BookUncrossed, \A s \in Side : DOMAIN levels'[s] \subseteq DOMAIN levels[s]
  PROVE  BookUncrossed'
BY DEF BookUncrossed, Side

\* Adding an order that crosses no opposite level cannot either.
LEMMA PassivePushKeepsUncrossed ==
  ASSUME BookTypeOK, BookUncrossed, NEW o \in Order, PushBack(o),
         \A p \in DOMAIN levels[Opposite(o.side)] : ~Crosses(o.side, o.price, p)
  PROVE  BookUncrossed'
<1> DEFINE q == Append(Level(levels[o.side], o.price), o)
<1>1. o.side \in Side /\ o.price \in Prices
  BY DEF Order
<1>2. IsBookMap(levels[o.side]) /\ Level(levels[o.side], o.price) \in Seq(Order)
  BY <1>1 DEF BookTypeOK, IsBookMap, Level
<1>3. q \in Seq(Order)
  BY <1>2
<1>4. /\ levels'[o.side] = SetLevel(levels[o.side], o.price, q)
      /\ \A t \in Side \ {o.side} : levels'[t] = levels[t]
  BY <1>1 DEF PushBack, BookTypeOK
<1> HIDE DEF q
<1>5. \A x \in DOMAIN levels'[o.side] : x = o.price \/ x \in DOMAIN levels[o.side]
  BY <1>1, <1>2, <1>3, <1>4, SetLevelFacts
<1>6. \A t \in Side : DOMAIN levels[t] \subseteq Int
  BY PricesAssumption DEF BookTypeOK, IsBookMap
<1>7. o.price \in Int
  BY <1>1, PricesAssumption
<1>8. CASE o.side = "BUY"
  <2>1. /\ levels'["SELL"] = levels["SELL"]
        /\ \A a \in DOMAIN levels["SELL"] : ~(a <= o.price)
    BY <1>4, <1>8 DEF Side, Opposite, Crosses
  <2>2. ASSUME NEW b \in DOMAIN levels'["BUY"], NEW a \in DOMAIN levels'["SELL"]
        PROVE  b < a
    <3>1. a \in Int /\ a \in DOMAIN levels["SELL"]
      BY <1>6, <2>1 DEF Side
    <3>2. CASE b = o.price
      BY <3>1, <3>2, <2>1, <1>7
    <3>3. CASE b \in DOMAIN levels["BUY"]
      BY <3>1, <3>3 DEF BookUncrossed
    <3> QED  BY <3>2, <3>3, <1>5, <1>8
  <2> QED  BY <2>2 DEF BookUncrossed
<1>9. CASE o.side = "SELL"
  <2>1. /\ levels'["BUY"] = levels["BUY"]
        /\ \A b \in DOMAIN levels["BUY"] : ~(b >= o.price)
    BY <1>4, <1>9 DEF Side, Opposite, Crosses
  <2>2. ASSUME NEW b \in DOMAIN levels'["BUY"], NEW a \in DOMAIN levels'["SELL"]
        PROVE  b < a
    <3>1. b \in Int /\ b \in DOMAIN levels["BUY"]
      BY <1>6, <2>1 DEF Side
    <3>2. CASE a = o.price
      BY <3>1, <3>2, <2>1, <1>7
    <3>3. CASE a \in DOMAIN levels["SELL"]
      BY <3>1, <3>3 DEF BookUncrossed
    <3> QED  BY <3>2, <3>3, <1>5, <1>9
  <2> QED  BY <2>2 DEF BookUncrossed
<1> QED  BY <1>1, <1>8, <1>9 DEF Side

\* Replacing a deque that is there adds no level.
LEMMA ReplacingShrinks ==
  ASSUME BookTypeOK, NEW s \in Side, NEW p \in DOMAIN levels[s], NEW q \in Seq(Order),
         levels' = [levels EXCEPT ![s] = SetLevel(@, p, q)]
  PROVE  \A t \in Side : DOMAIN levels'[t] \subseteq DOMAIN levels[t]
<1>1. IsBookMap(levels[s]) /\ p \in Prices
  BY DEF BookTypeOK, IsBookMap
<1>2. /\ levels'[s] = SetLevel(levels[s], p, q)
      /\ \A t \in Side \ {s} : levels'[t] = levels[t]
  BY DEF BookTypeOK
<1>3. DOMAIN levels'[s] \subseteq DOMAIN levels[s]
  BY <1>1, <1>2, SetLevelFacts
<1> QED  BY <1>2, <1>3

LEMMA ErasingShrinks ==
  ASSUME BookTypeOK, IndexTracksBook, NEW id \in Ids, Located(id), Erase(id)
  PROVE  \A t \in Side : DOMAIN levels'[t] \subseteq DOMAIN levels[t]
<1> DEFINE at == orderIndex[id]
           deque == levels[at.side][at.price]
           q == EraseId(deque, id)
<1>1. /\ at.side \in Side /\ at.price \in DOMAIN levels[at.side]
      /\ deque \in Seq(Order) /\ FindId(deque, id) \in DOMAIN deque
      /\ deque[FindId(deque, id)].id = id
      /\ \A j \in DOMAIN deque :
           deque[j].id = deque[FindId(deque, id)].id => j = FindId(deque, id)
  BY LocatedFacts
<1>2. levels' = [levels EXCEPT ![at.side] = SetLevel(@, at.price, q)]
  BY DEF Erase
<1> HIDE DEF at, deque
<1>3. q \in Seq(Order)
  BY <1>1, EraseIdFacts
<1> HIDE DEF q
<1> QED  BY <1>1, <1>2, <1>3, ReplacingShrinks

\* When the loop ends with something left to rest, nothing crosses any more.
LEMMA LoopExitUncrossed ==
  ASSUME TypeOK, RestRemainder, pc = "match"
  PROVE  \A p \in DOMAIN levels[MakerSide] : ~Crosses(incoming.side, incoming.price, p)
<1> SUFFICES ASSUME NEW p \in DOMAIN levels[MakerSide],
                    Crosses(incoming.side, incoming.price, p)
             PROVE  FALSE
  OBVIOUS
<1>1. incoming \in Order
  BY DEF TypeOK
<1>2. MakerSide \in Side /\ incoming.side \in Side
  BY <1>1 DEF MakerSide, Opposite, Side, Order
<1>3. ~Crosses(incoming.side, incoming.price, Best(MakerSide))
  BY <1>1 DEF RestRemainder, LoopCondition, NeverRests, SkipsPriceCheck
<1>4. IsBookMap(levels[MakerSide])
  BY <1>2 DEF TypeOK, BookTypeOK
<1> DEFINE b == Best(MakerSide)
<1>5. b \in DOMAIN levels[MakerSide] /\ (p = b \/ Better(MakerSide, b, p))
  BY <1>2, <1>4, BestIsBest
<1>6. p \in Int /\ b \in Int /\ incoming.price \in Int
  BY <1>1, <1>4, <1>5, PricesAssumption DEF IsBookMap, Order
<1> HIDE DEF b
<1>7. ~Crosses(incoming.side, incoming.price, b)
  BY <1>3 DEF b
<1> QED  BY <1>2, <1>5, <1>6, <1>7 DEF Crosses, Better, MakerSide, Opposite, Side

UncrossedInv == IndexInv /\ BookUncrossed

LEMMA UncrossedInvStep ==
  ASSUME {"fresh_ids", "passive_adds"} \subseteq Discipline, UncrossedInv, [Next]_vars
  PROVE  BookUncrossed'
<1> USE DEF UncrossedInv
<1>1. ASSUME NEW o \in NewOrders, AddOrder(o)
      PROVE  BookUncrossed'
  <2>1. o \in Order
    BY QuantitiesAssumption DEF NewOrders, Order
  <2> QED  BY <1>1, <2>1, PassivePushKeepsUncrossed DEF AddOrder, Addable, IndexInv, TypeOK
<1>2. ASSUME UNCHANGED levels
      PROVE  BookUncrossed'
  BY <1>2 DEF BookUncrossed
<1>3. ASSUME NEW id \in Ids, Located(id), Erase(id)
      PROVE  BookUncrossed'
  BY <1>3, ErasingShrinks, ShrinkingKeepsUncrossed DEF IndexInv, TypeOK
<1>4. ASSUME NEW id \in Ids, NEW n \in Quantities, Located(id), ModifyInPlace(id, n)
      PROVE  BookUncrossed'
  <2>1. \A t \in Side : DOMAIN levels'[t] \subseteq DOMAIN levels[t]
    BY <1>4 DEF ModifyInPlace, IndexInv, TypeOK, BookTypeOK, IsBookMap
  <2> QED  BY <2>1, ShrinkingKeepsUncrossed
<1>5. CASE ConsumeMaker
  <2> DEFINE q == Tail(levels[MakerSide][Best(MakerSide)])
  <2>1. /\ MakerSide \in Side /\ Best(MakerSide) \in DOMAIN levels[MakerSide]
        /\ q \in Seq(Order)
    BY <1>5, MakerFacts DEF ConsumeMaker, IndexInv, TypeOK
  <2>2. levels' = [levels EXCEPT ![MakerSide] = SetLevel(@, Best(MakerSide), q)]
    BY <1>5 DEF ConsumeMaker
  <2> HIDE DEF q
  <2> QED  BY <2>1, <2>2, ReplacingShrinks, ShrinkingKeepsUncrossed DEF IndexInv, TypeOK
<1>6. CASE ReduceMaker
  <2>1. \A t \in Side : DOMAIN levels'[t] \subseteq DOMAIN levels[t]
    BY <1>6 DEF ReduceMaker, IndexInv, TypeOK, BookTypeOK, IsBookMap
  <2> QED  BY <2>1, ShrinkingKeepsUncrossed
<1>7. CASE RestRemainder
  <2>1. incoming \in Order /\ PushBack(incoming)
    BY <1>7 DEF RestRemainder, IndexInv, TypeOK
  <2>2. \A p \in DOMAIN levels[Opposite(incoming.side)] :
          ~Crosses(incoming.side, incoming.price, p)
    BY <1>7, LoopExitUncrossed DEF RestRemainder, IndexInv, MakerSide
  <2> QED  BY <2>1, <2>2, PassivePushKeepsUncrossed DEF IndexInv, TypeOK
<1>8. ASSUME NEW o \in NewOrders, SubmitOrder(o)
      PROVE  BookUncrossed'
  BY <1>8, <1>2 DEF SubmitOrder
<1>9. ASSUME NEW id \in Ids, CancelOrder(id)
      PROVE  BookUncrossed'
  BY <1>9, <1>2, <1>3 DEF CancelOrder, book
<1>10. ASSUME NEW id \in Ids, NEW p \in Prices, NEW n \in Quantities, ModifyOrder(id, p, n)
       PROVE  BookUncrossed'
  BY <1>10, <1>2, <1>3, <1>4 DEF ModifyOrder, book
<1>11. CASE DropRemainder \/ Return \/ UNCHANGED vars
  BY <1>11, <1>2 DEF DropRemainder, Return, vars, book
<1> QED  BY <1>1, <1>5, <1>6, <1>7, <1>8, <1>9, <1>10, <1>11 DEF Next, Call, Run

\* When addOrder is only used for orders that do not cross, no bid ever reaches
\* an ask, not even between two iterations of the matching loop: submitOrder and
\* modifyOrder never cross the book.
THEOREM BookNeverCrosses ==
  ASSUME {"fresh_ids", "passive_adds"} \subseteq Discipline
  PROVE  Spec => []BookUncrossed
<1>1. Init => UncrossedInv
  BY InitIndexInv DEF Init, UncrossedInv, BookUncrossed, Side
<1>2. UncrossedInv /\ [Next]_vars => UncrossedInv'
  BY IndexInvStep, UncrossedInvStep DEF UncrossedInv
<1>3. UncrossedInv => BookUncrossed
  BY DEF UncrossedInv
<1> QED  BY <1>1, <1>2, <1>3, PTL DEF Spec

-----------------------------------------------------------------------------
(* What rests.                                                             *)

Live(o) == o.type = "LIMIT" /\ o.quantity > 0

AllLive ==
  \A s \in Side : \A p \in DOMAIN levels[s] : \A k \in DOMAIN levels[s][p] :
    Live(levels[s][p][k])

LEMMA AllLiveSlots == AllLive => OnlyLiveLimitsRest
BY DEF AllLive, Live, OnlyLiveLimitsRest, Slots, At

\* A deque is replaced by one of live orders.
LEMMA ReplacingKeepsLive ==
  ASSUME BookTypeOK, AllLive, NEW s \in Side, NEW p \in Prices, NEW q \in Seq(Order),
         \A k \in DOMAIN q : Live(q[k]),
         levels' = [levels EXCEPT ![s] = SetLevel(@, p, q)]
  PROVE  AllLive'
<1>1. IsBookMap(levels[s])
  BY DEF BookTypeOK
<1>2. /\ levels'[s] = SetLevel(levels[s], p, q)
      /\ \A t \in Side \ {s} : levels'[t] = levels[t]
  BY DEF BookTypeOK
<1>3. \A x \in DOMAIN levels'[s] :
        \/ x = p /\ levels'[s][x] = q
        \/ x \in DOMAIN levels[s] /\ levels'[s][x] = levels[s][x]
  BY <1>1, <1>2, SetLevelFacts
<1> QED  BY <1>2, <1>3 DEF AllLive

LEMMA PushingKeepsLive ==
  ASSUME BookTypeOK, AllLive, NEW o \in Order, Live(o), PushBack(o)
  PROVE  AllLive'
<1> DEFINE old == Level(levels[o.side], o.price)
           q == Append(old, o)
<1>1. o.side \in Side /\ o.price \in Prices
  BY DEF Order
<1>2. old \in Seq(Order) /\ \A k \in DOMAIN old : Live(old[k])
  BY <1>1 DEF BookTypeOK, IsBookMap, Level, AllLive
<1>3. q \in Seq(Order) /\ \A k \in DOMAIN q : Live(q[k])
  <2> HIDE DEF old
  <2> QED  BY <1>2
<1>4. levels' = [levels EXCEPT ![o.side] = SetLevel(@, o.price, q)]
  BY <1>1 DEF PushBack, BookTypeOK
<1> HIDE DEF q
<1> QED  BY <1>1, <1>3, <1>4, ReplacingKeepsLive

LEMMA ErasingKeepsLive ==
  ASSUME BookTypeOK, IndexTracksBook, AllLive, NEW id \in Ids, Located(id), Erase(id)
  PROVE  AllLive'
<1> DEFINE at == orderIndex[id]
           deque == levels[at.side][at.price]
           k == FindId(deque, id)
           q == EraseId(deque, id)
<1>1. /\ at.side \in Side /\ at.price \in DOMAIN levels[at.side]
      /\ deque \in Seq(Order) /\ k \in DOMAIN deque /\ deque[k].id = id
      /\ \A j \in DOMAIN deque : deque[j].id = deque[k].id => j = k
  BY LocatedFacts
<1>2. levels' = [levels EXCEPT ![at.side] = SetLevel(@, at.price, q)]
  BY DEF Erase
<1>3. \A j \in DOMAIN deque : Live(deque[j])
  BY <1>1 DEF AllLive
<1>4. at.price \in Prices
  BY <1>1 DEF BookTypeOK, IsBookMap
<1> HIDE DEF at, deque, k
<1>5. /\ q \in Seq(Order) /\ Len(q) = Len(deque) - 1
      /\ \A j \in 1 .. Len(q) : q[j] = IF j < k THEN deque[j] ELSE deque[j + 1]
  BY <1>1, EraseIdFacts
<1>6. \A j \in DOMAIN q : Live(q[j])
  <2> HIDE DEF q
  <2> QED  BY <1>1, <1>3, <1>5
<1> HIDE DEF q
<1> QED  BY <1>1, <1>2, <1>4, <1>5, <1>6, ReplacingKeepsLive

\* A quantity changes in place, to a positive one.
LEMMA ChangingKeepsLive ==
  ASSUME BookTypeOK, AllLive,
         NEW s \in Side, NEW p \in DOMAIN levels[s], NEW k \in DOMAIN levels[s][p],
         NEW n \in Uint64, n > 0, levels' = [levels EXCEPT ![s][p][k].quantity = n]
  PROVE  AllLive'
<1>1. levels[s][p] \in Seq(Order)
  BY DEF BookTypeOK, IsBookMap
<1>2. levels[s][p][k] \in Order
  BY <1>1
<1>3. ASSUME NEW t \in Side, NEW x \in DOMAIN levels'[t], NEW j \in DOMAIN levels'[t][x]
      PROVE  Live(levels'[t][x][j])
  <2>1. x \in DOMAIN levels[t] /\ j \in DOMAIN levels[t][x]
    BY DEF BookTypeOK, IsBookMap
  <2>2. CASE t = s /\ x = p /\ j = k
    <3>1. levels'[t][x][j] = [levels[s][p][k] EXCEPT !.quantity = n]
      BY <2>1, <2>2 DEF BookTypeOK, IsBookMap
    <3>2. Live(levels[s][p][k])
      BY DEF AllLive
    <3> QED  BY <1>2, <3>1, <3>2 DEF Live, Order
  <2>3. CASE ~(t = s /\ x = p /\ j = k)
    <3>1. levels'[t][x][j] = levels[t][x][j]
      BY <2>1, <2>3 DEF BookTypeOK, IsBookMap
    <3> QED  BY <2>1, <3>1 DEF AllLive
  <2> QED  BY <2>2, <2>3
<1> QED  BY <1>3 DEF AllLive

LiveInv == IndexInv /\ AllLive

LEMMA LiveInvStep ==
  ASSUME {"fresh_ids", "limit_adds", "positive_adds"} \subseteq Discipline,
         LiveInv, [Next]_vars
  PROVE  AllLive'
<1> USE DEF LiveInv
<1>1. ASSUME NEW o \in NewOrders, AddOrder(o)
      PROVE  AllLive'
  <2>1. o \in Order
    BY QuantitiesAssumption DEF NewOrders, Order
  <2> QED  BY <1>1, <2>1, PushingKeepsLive DEF AddOrder, Addable, Live, IndexInv, TypeOK
<1>2. ASSUME UNCHANGED levels
      PROVE  AllLive'
  BY <1>2 DEF AllLive
<1>3. ASSUME NEW id \in Ids, Located(id), Erase(id)
      PROVE  AllLive'
  BY <1>3, ErasingKeepsLive DEF IndexInv, TypeOK
<1>4. ASSUME NEW id \in Ids, NEW n \in Quantities, n > 0, Located(id), ModifyInPlace(id, n)
      PROVE  AllLive'
  <2> DEFINE at == orderIndex[id]
             k  == FindId(levels[at.side][at.price], id)
  <2>1. /\ at.side \in Side /\ at.price \in DOMAIN levels[at.side]
        /\ k \in DOMAIN levels[at.side][at.price]
    BY <1>4, LocatedFacts DEF IndexInv, TypeOK
  <2>2. levels' = [levels EXCEPT ![at.side][at.price][k].quantity = n]
    BY <1>4 DEF ModifyInPlace
  <2>3. n \in Uint64
    BY QuantitiesAssumption
  <2> HIDE DEF at, k
  <2> QED  BY <1>4, <2>1, <2>2, <2>3, ChangingKeepsLive DEF IndexInv, TypeOK
<1>5. CASE ConsumeMaker
  <2> DEFINE deque == levels[MakerSide][Best(MakerSide)]
             q == Tail(deque)
  <2>1. /\ MakerSide \in Side /\ Best(MakerSide) \in DOMAIN levels[MakerSide]
        /\ deque \in Seq(Order) /\ 1 \in DOMAIN deque
    BY <1>5, MakerFacts DEF ConsumeMaker, IndexInv, TypeOK
  <2>2. levels' = [levels EXCEPT ![MakerSide] = SetLevel(@, Best(MakerSide), q)]
    BY <1>5 DEF ConsumeMaker
  <2>3. Best(MakerSide) \in Prices /\ \A j \in DOMAIN deque : Live(deque[j])
    BY <2>1 DEF AllLive, IndexInv, TypeOK, BookTypeOK, IsBookMap
  <2> HIDE DEF deque
  <2>4. q \in Seq(Order) /\ \A j \in DOMAIN q : Live(q[j])
    BY <2>1, <2>3
  <2> HIDE DEF q
  <2> QED  BY <2>1, <2>2, <2>3, <2>4, ReplacingKeepsLive DEF IndexInv, TypeOK
<1>6. CASE ReduceMaker
  <2> DEFINE n == Maker.quantity - incoming.quantity
  <2>1. /\ MakerSide \in Side /\ Best(MakerSide) \in DOMAIN levels[MakerSide]
        /\ 1 \in DOMAIN levels[MakerSide][Best(MakerSide)]
        /\ Maker = levels[MakerSide][Best(MakerSide)][1] /\ Maker \in Order
    BY <1>6, MakerFacts DEF ReduceMaker, IndexInv, TypeOK
  <2>2. n \in Uint64 /\ n > 0
    BY <1>6, <2>1, QuantitiesAssumption
    DEF ReduceMaker, MakerFilled, IndexInv, TypeOK, Order, Uint64
  <2>3. levels' = [levels EXCEPT ![MakerSide][Best(MakerSide)][1].quantity = n]
    BY <1>6, <2>1 DEF ReduceMaker
  <2> HIDE DEF n
  <2> QED  BY <2>1, <2>2, <2>3, ChangingKeepsLive DEF IndexInv, TypeOK
<1>7. CASE RestRemainder
  <2>1. incoming \in Order /\ PushBack(incoming) /\ Live(incoming)
    BY <1>7 DEF RestRemainder, NeverRests, Live, IndexInv, TypeOK
  <2> QED  BY <2>1, PushingKeepsLive DEF IndexInv, TypeOK
<1>8. ASSUME NEW o \in NewOrders, SubmitOrder(o)
      PROVE  AllLive'
  BY <1>8, <1>2 DEF SubmitOrder
<1>9. ASSUME NEW id \in Ids, CancelOrder(id)
      PROVE  AllLive'
  BY <1>9, <1>2, <1>3 DEF CancelOrder, book
<1>10. ASSUME NEW id \in Ids, NEW p \in Prices, NEW n \in Quantities, ModifyOrder(id, p, n)
       PROVE  AllLive'
  BY <1>10, <1>2, <1>3, <1>4 DEF ModifyOrder, book
<1>11. CASE DropRemainder \/ Return \/ UNCHANGED vars
  BY <1>11, <1>2 DEF DropRemainder, Return, vars, book
<1> QED  BY <1>1, <1>5, <1>6, <1>7, <1>8, <1>9, <1>10, <1>11 DEF Next, Call, Run

\* When addOrder is only given LIMIT orders with a quantity, nothing else ever
\* rests: no MARKET, IOC or FOK remainder, and no maker a fill has emptied.
THEOREM OnlyLiveLimitsEverRest ==
  ASSUME {"fresh_ids", "limit_adds", "positive_adds"} \subseteq Discipline
  PROVE  Spec => []OnlyLiveLimitsRest
<1>1. Init => LiveInv
  BY InitIndexInv DEF Init, LiveInv, AllLive
<1>2. LiveInv /\ [Next]_vars => LiveInv'
  BY IndexInvStep, LiveInvStep DEF LiveInv
<1>3. LiveInv => OnlyLiveLimitsRest
  BY AllLiveSlots DEF LiveInv
<1> QED  BY <1>1, <1>2, <1>3, PTL DEF Spec
=============================================================================

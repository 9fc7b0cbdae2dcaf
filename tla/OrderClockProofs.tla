--------------------------- MODULE OrderClockProofs ---------------------------
(***************************************************************************)
(* Time priority by timestamps, in OrderClock, for every set of ids,       *)
(* prices and quantities and any number of orders kept by their callers.   *)
(* The places in the deques are those of OrderBookPriorityProofs: what is  *)
(* left is who joins a deque, and with which timestamp.                    *)
(***************************************************************************)
EXTENDS OrderClock, OrderBookPriorityProofs

-----------------------------------------------------------------------------
(* Orders and the index.                                                   *)

\* The orders in the deques are the indexed ones.
LEMMA RestingIsIndexed ==
  ASSUME BookTypeOK, IndexTracksBook
  PROVE  RestingIds = DOMAIN orderIndex
<1>1. ASSUME NEW id \in RestingIds
      PROVE  id \in DOMAIN orderIndex
  <2>1. PICK s \in Side : \E x \in Slots(s) : id = At(s, x).id
    BY DEF RestingIds
  <2>2. PICK x \in Slots(s) : id = At(s, x).id
    BY <2>1
  <2>3. PICK p \in DOMAIN levels[s] : x \in {p} \X DOMAIN levels[s][p]
    BY DEF Slots
  <2>4. PICK k \in DOMAIN levels[s][p] : id = levels[s][p][k].id
    BY <2>2, <2>3 DEF At
  <2>5. LevelIndexed(orderIndex, levels[s][p], s, p)
    BY DEF IndexTracksBook
  <2> QED  BY <2>4, <2>5 DEF LevelIndexed
<1>2. ASSUME NEW id \in DOMAIN orderIndex
      PROVE  id \in RestingIds
  <2> DEFINE s == orderIndex[id].side
             p == orderIndex[id].price
  <2>1. Located(id)
    BY DEF IndexTracksBook
  <2>2. s \in Side /\ p \in DOMAIN levels[s] /\ id \in Ids
    BY <2>1, LocatedFacts DEF BookTypeOK, IsIndex
  <2>3. PICK k \in DOMAIN levels[s][p] : levels[s][p][k].id = id
    BY <2>1, <2>2, LocatedFacts
  <2> HIDE DEF s, p
  <2>4. <<p, k>> \in Slots(s) /\ At(s, <<p, k>>).id = id
    BY <2>2, <2>3 DEF Slots, At
  <2> QED  BY <2>2, <2>4 DEF RestingIds
<1> QED  BY <1>1, <1>2

LEMMA RestingIsIndexedNext ==
  (BookTypeOK /\ IndexTracksBook => RestingIds = DOMAIN orderIndex)'
<1>1. BookTypeOK /\ IndexTracksBook => RestingIds = DOMAIN orderIndex
  BY RestingIsIndexed
<1> QED  BY <1>1, PTL

\* Only ids of J are indexed anew, and nothing moves from one level to another.
OnlyJoin(J) ==
  \A id \in DOMAIN orderIndex' \ J :
    id \in DOMAIN orderIndex /\ orderIndex'[id] = orderIndex[id]

LEMMA PushBackJoins ==
  ASSUME BookTypeOK, NEW o \in Order, PushBack(o)
  PROVE  OnlyJoin({o.id})
BY DEF PushBack, OnlyJoin, BookTypeOK, IsIndex

LEMMA EraseJoins ==
  ASSUME NEW id, Erase(id) \/ orderIndex' = WithoutId(id) \/ orderIndex' = orderIndex
  PROVE  OnlyJoin({})
BY DEF Erase, WithoutId, OnlyJoin

\* Of the steps inside a call only RestRemainder lets an order join.
LEMMA RunJoins ==
  ASSUME IndexInv, Run
  PROVE  OnlyJoin({}) \/ (pc = "match" /\ OnlyJoin({incoming.id}))
<1>1. ASSUME ConsumeMaker \/ ReduceMaker \/ DropRemainder \/ Return
      PROVE  OnlyJoin({})
  BY <1>1, EraseJoins DEF ConsumeMaker, ReduceMaker, DropRemainder, Return, book
<1>2. ASSUME RestRemainder
      PROVE  pc = "match" /\ OnlyJoin({incoming.id})
  BY <1>2, PushBackJoins DEF RestRemainder, IndexInv, TypeOK
<1> QED  BY <1>1, <1>2 DEF Run

-----------------------------------------------------------------------------
(* Places and timestamps.                                                  *)

\* The deque q is in the order of its timestamps but for the late arrivals.
InStampOrder(q) ==
  \A i, k \in DOMAIN q : i < k => <<q[i].id, q[k].id>> \in older \/ q[k].id \in late

DequesInStampOrder ==
  \A s \in Side : \A p \in DOMAIN levels[s] : InStampOrder(levels[s][p])

LEMMA MisplacedByDeque == OnlyLateOrdersMisplaced <=> DequesInStampOrder
<1>1. ASSUME OnlyLateOrdersMisplaced
      PROVE  DequesInStampOrder
  <2> SUFFICES ASSUME NEW s \in Side, NEW p \in DOMAIN levels[s],
                      NEW i \in DOMAIN levels[s][p], NEW k \in DOMAIN levels[s][p], i < k
               PROVE  \/ <<levels[s][p][i].id, levels[s][p][k].id>> \in older
                      \/ levels[s][p][k].id \in late
    BY DEF DequesInStampOrder, InStampOrder
  <2>1. <<p, i>> \in Slots(s) /\ <<p, k>> \in Slots(s)
    BY DEF Slots
  <2>2. At(s, <<p, i>>) = levels[s][p][i] /\ At(s, <<p, k>>) = levels[s][p][k]
    BY DEF At
  <2> QED  BY <1>1, <2>1, <2>2 DEF OnlyLateOrdersMisplaced
<1>2. ASSUME DequesInStampOrder
      PROVE  OnlyLateOrdersMisplaced
  <2> SUFFICES ASSUME NEW s \in Side, NEW x \in Slots(s), NEW y \in Slots(s),
                      x[1] = y[1], x[2] < y[2]
               PROVE  <<At(s, x).id, At(s, y).id>> \in older \/ At(s, y).id \in late
    BY DEF OnlyLateOrdersMisplaced
  <2>1. /\ x[1] \in DOMAIN levels[s] /\ x[2] \in DOMAIN levels[s][x[1]]
        /\ y[2] \in DOMAIN levels[s][x[1]]
    BY DEF Slots
  <2>2. InStampOrder(levels[s][x[1]])
    BY <1>2, <2>1 DEF DequesInStampOrder
  <2> QED  BY <2>1, <2>2 DEF InStampOrder, At
<1> QED  BY <1>1, <1>2

LEMMA MisplacedByDequeNext == (OnlyLateOrdersMisplaced <=> DequesInStampOrder)'
BY MisplacedByDeque, PTL

\* Who stays keeps the place and the timestamp, and who joins stands behind.
LEMMA MisplacedStep ==
  ASSUME "fresh_ids" \in Discipline, IndexInv, [Next]_vars, OnlyLateOrdersMisplaced,
         NEW J, OnlyJoin(J), J \cap DOMAIN orderIndex = {},
         \A a, b \in DOMAIN orderIndex \cap DOMAIN orderIndex' :
           /\ <<a, b>> \in older => <<a, b>> \in older'
           /\ b \in late => b \in late',
         \A b \in J : \A a \in DOMAIN orderIndex' \ {b} : <<a, b>> \in older' \/ b \in late'
  PROVE  OnlyLateOrdersMisplaced'
<1>1. BookTypeOK /\ IndexTracksBook /\ BookTypeOK' /\ IndexTracksBook'
  BY IndexInvStep DEF IndexInv, TypeOK
<1>2. AllPlacesKept
  BY PlacesStep
<1> SUFFICES ASSUME NEW s \in Side, NEW p \in DOMAIN levels'[s],
                    NEW i \in DOMAIN levels'[s][p], NEW k \in DOMAIN levels'[s][p], i < k
             PROVE  \/ <<levels'[s][p][i].id, levels'[s][p][k].id>> \in older'
                    \/ levels'[s][p][k].id \in late'
  BY MisplacedByDequeNext DEF DequesInStampOrder, InStampOrder
<1> DEFINE new == levels'[s][p]
           old == levels[s][p]
           a == new[i].id
           b == new[k].id
<1>3. /\ a \in DOMAIN orderIndex' /\ b \in DOMAIN orderIndex' /\ a # b
      /\ orderIndex'[b] = [side |-> s, price |-> p]
  <2>1. LevelIndexed(orderIndex', new, s, p)
    BY <1>1 DEF IndexTracksBook
  <2>2. new \in Seq(Order)
    BY <1>1 DEF BookTypeOK, IsBookMap
  <2>3. i \in DOMAIN new /\ k \in DOMAIN new /\ i # k
    BY <2>2
  <2> HIDE DEF new
  <2> QED  BY <2>1, <2>3 DEF LevelIndexed
<1>4. CASE b \in J
  BY <1>3, <1>4
<1>5. CASE b \notin J
  <2>1. b \in DOMAIN orderIndex /\ orderIndex[b] = [side |-> s, price |-> p]
    BY <1>3, <1>5 DEF OnlyJoin
  <2>2. p \in DOMAIN levels[s] /\ \E n \in DOMAIN old : old[n].id = b
    <3>1. Located(b)
      BY <1>1, <2>1 DEF IndexTracksBook
    <3>2. b \in Ids
      BY <1>1, <2>1 DEF BookTypeOK, IsIndex
    <3> HIDE DEF b
    <3> QED  BY <1>1, <2>1, <3>1, <3>2, LocatedFacts
  <2>3. PICK n \in DOMAIN old : old[n].id = b
    BY <2>2
  <2>4. PlacesKept(old, new)
    BY <1>2, <2>2 DEF AllPlacesKept
  <2>5. PICK h \in 1 .. n-1 : old[h].id = a
    BY <2>3, <2>4 DEF PlacesKept
  <2>6. old \in Seq(Order)
    BY <1>1, <2>2 DEF BookTypeOK, IsBookMap
  <2>7. h \in DOMAIN old /\ h < n
    <3> HIDE DEF old
    <3> QED  BY <2>3, <2>5, <2>6
  <2>8. a \in DOMAIN orderIndex
    <3>1. LevelIndexed(orderIndex, old, s, p)
      BY <1>1, <2>2 DEF IndexTracksBook
    <3> HIDE DEF old
    <3> QED  BY <2>5, <2>7, <3>1 DEF LevelIndexed
  <2>9. <<a, b>> \in older \/ b \in late
    <3>1. InStampOrder(old)
      BY <2>2, MisplacedByDeque DEF DequesInStampOrder
    <3> HIDE DEF old
    <3> QED  BY <2>3, <2>5, <2>7, <3>1 DEF InStampOrder
  <2> QED  BY <1>3, <2>1, <2>8, <2>9
<1> QED  BY <1>4, <1>5

-----------------------------------------------------------------------------
(* The inductive invariant.                                                *)

\* The stamps of the ids of U are in one order, and no two are equal.
IsStampOrder(R, U) ==
  /\ R \subseteq U \X U
  /\ \A a, b \in U : <<a, b>> \in R \/ <<b, a>> \in R \/ a = b
  /\ \A a, b \in U : <<a, b>> \in R => <<b, a>> \notin R
  /\ \A a, b, c \in U : <<a, b>> \in R /\ <<b, c>> \in R => <<a, c>> \in R

\* What callers keep is not in the book, and only what is there arrived late.
KeptApart == held \cap InBook = {} /\ late \subseteq InBook

\* The order being matched is younger than those that rest, or arrived late.
TakerIsYoungest ==
  incoming # NoOrder =>
    \A id \in RestingIds \ {incoming.id} :
      <<id, incoming.id>> \in older \/ incoming.id \in late

ClockInv ==
  /\ ShapeInv /\ IndexInv
  /\ IsStampOrder(older, InUse) /\ KeptApart /\ TakerIsYoungest
  /\ OnlyLateOrdersMisplaced

\* Every step of the clock's module is one of the book's, or none of them.
LEMMA ClockStepIsBookStep == [ClockNext]_<<vars, clockVars>> => [Next]_vars
BY DEF ClockNext, Construct, Place, Cancel, Modify, Proceed, Next, Call, vars, clockVars

LEMMA StampsRestricted ==
  ASSUME NEW R, NEW U, IsStampOrder(R, U), NEW V \in SUBSET U
  PROVE  IsStampOrder(R \cap (V \X V), V)
BY DEF IsStampOrder

\* A new stamp is later than all the others, and their order stays.
LEMMA StampIsLast ==
  ASSUME IsStampOrder(older, InUse), NEW id
  PROVE  /\ IsStampOrder(Restamped(id), InUse \cup {id})
         /\ \A a, b : <<a, b>> \in older /\ a # id /\ b # id => <<a, b>> \in Restamped(id)
         /\ \A a \in InUse \ {id} : <<a, id>> \in Restamped(id)
<1> DEFINE U == InUse
           R == Restamped(id)
           Old == {x \in older : id \notin {x[1], x[2]}}
<1>1. \A a, b : <<a, b>> \in R <=> ((<<a, b>> \in older /\ a # id /\ b # id)
                                    \/ (a \in U \ {id} /\ b = id))
  <2>1. \A a, b : <<a, b>> \in Old <=> <<a, b>> \in older /\ a # id /\ b # id
    OBVIOUS
  <2>2. \A a, b : <<a, b>> \in (U \ {id}) \X {id} <=> a \in U \ {id} /\ b = id
    OBVIOUS
  <2>3. R = Old \cup ((U \ {id}) \X {id})
    BY DEF Restamped
  <2> HIDE DEF Old, U, R
  <2> QED  BY <2>1, <2>2, <2>3
<1>2. R \subseteq (U \cup {id}) \X (U \cup {id})
  BY DEF Restamped, IsStampOrder
<1> HIDE DEF U, R
<1>3. IsStampOrder(older, U)
  BY DEF U
<1>4. \A a, b : <<a, b>> \in older => a \in U /\ b \in U
  BY <1>3 DEF IsStampOrder
<1>5. \A a, b \in U \cup {id} : <<a, b>> \in R \/ <<b, a>> \in R \/ a = b
  BY <1>1, <1>3 DEF IsStampOrder
<1>6. \A a, b \in U \cup {id} : <<a, b>> \in R => <<b, a>> \notin R
  BY <1>1, <1>3, <1>4 DEF IsStampOrder
<1>7. ASSUME NEW a \in U \cup {id}, NEW b \in U \cup {id}, NEW c \in U \cup {id},
             <<a, b>> \in R, <<b, c>> \in R
      PROVE  <<a, c>> \in R
  <2>1. CASE c = id
    BY <1>1, <1>4, <1>7, <2>1
  <2>2. CASE c # id
    <3>1. <<a, b>> \in older /\ <<b, c>> \in older /\ a # id
      BY <1>1, <1>7, <2>2
    <3>2. <<a, c>> \in older
      BY <1>3, <1>4, <3>1 DEF IsStampOrder
    <3> QED  BY <1>1, <2>2, <3>1, <3>2
  <2> QED  BY <2>1, <2>2
<1>8. IsStampOrder(R, U \cup {id})
  BY <1>2, <1>5, <1>6, <1>7 DEF IsStampOrder
<1> QED  BY <1>1, <1>8 DEF U, R

-----------------------------------------------------------------------------
(* Every step keeps it.                                                    *)

\* What a step of any kind has to show: the ids of J join the book, and the
\* stamps and late arrivals become R and L.
LEMMA ClockInvFrom ==
  ASSUME "fresh_ids" \in Discipline, ClockInv, [Next]_vars,
         NEW J, OnlyJoin(J), J \cap RestingIds = {},
         NEW R, NEW L, Note(R, L),
         NEW W, IsStampOrder(R, W), InUse' \subseteq W,
         \A a, b \in RestingIds \cap RestingIds' :
           (<<a, b>> \in older => <<a, b>> \in R) /\ (b \in late => b \in L),
         \A b \in J : \A a \in RestingIds' \ {b} : <<a, b>> \in R \/ b \in L,
         incoming' # NoOrder =>
           \A a \in RestingIds' \ {incoming'.id} : <<a, incoming'.id>> \in R \/ incoming'.id \in L,
         held' \cap InBook' = {}, L \cap held' = {}
  PROVE  ClockInv'
<1>1. ShapeInv' /\ IndexInv'
  BY ShapeInvStep, IndexInvStep DEF ClockInv
<1>2. RestingIds = DOMAIN orderIndex /\ RestingIds' = DOMAIN orderIndex'
  BY <1>1, RestingIsIndexed, RestingIsIndexedNext DEF ClockInv, IndexInv, TypeOK
<1>3. older' = R \cap (InUse' \X InUse') /\ late' = L \cap InUse'
  BY DEF Note
<1>4. RestingIds' \subseteq InUse' /\ (incoming' # NoOrder => incoming'.id \in InUse')
  BY DEF InUse, InBook
<1>5. IsStampOrder(older, InUse)'
  <2>1. IsStampOrder(older', InUse')
    BY <1>3, StampsRestricted
  <2> QED  BY <2>1 DEF IsStampOrder
<1>6. KeptApart'
  BY <1>3 DEF KeptApart, InUse
<1>7. TakerIsYoungest'
  BY <1>3, <1>4 DEF TakerIsYoungest
<1>8. OnlyLateOrdersMisplaced'
  <2>1. \A a, b \in DOMAIN orderIndex \cap DOMAIN orderIndex' :
          /\ <<a, b>> \in older => <<a, b>> \in older'
          /\ b \in late => b \in late'
    BY <1>2, <1>3, <1>4
  <2>2. J \cap DOMAIN orderIndex' \subseteq InUse' /\ OnlyJoin(J \cap DOMAIN orderIndex')
    BY <1>2, <1>4 DEF OnlyJoin
  <2>3. \A b \in J \cap DOMAIN orderIndex' :
          \A a \in DOMAIN orderIndex' \ {b} : <<a, b>> \in older' \/ b \in late'
    BY <1>2, <1>3, <1>4
  <2> QED  BY <1>2, <2>1, <2>2, <2>3, MisplacedStep DEF ClockInv
<1> QED  BY <1>1, <1>5, <1>6, <1>7, <1>8 DEF ClockInv

\* Who rests after a step.
LEMMA RestingNext ==
  ASSUME "fresh_ids" \in Discipline, ClockInv, [Next]_vars, NEW J, OnlyJoin(J)
  PROVE  /\ RestingIds = DOMAIN orderIndex /\ RestingIds' = DOMAIN orderIndex'
         /\ RestingIds' \subseteq RestingIds \cup J
<1>1. IndexInv'
  BY IndexInvStep DEF ClockInv
<1>2. RestingIds = DOMAIN orderIndex /\ RestingIds' = DOMAIN orderIndex'
  BY <1>1, RestingIsIndexed, RestingIsIndexedNext DEF ClockInv, IndexInv, TypeOK
<1> QED  BY <1>2 DEF OnlyJoin

\* Between two calls the orders of the book are those that rest.
LEMMA IdleBook ==
  ASSUME ClockInv, pc = "idle"
  PROVE  incoming = NoOrder /\ InBook = RestingIds /\ InUse = RestingIds \cup held
BY DEF ClockInv, ShapeInv, IdleIsClean, InBook, InUse

\* Ids that are kept are not in the book.
LEMMA KeptIsApart ==
  ASSUME ClockInv
  PROVE  /\ RestingIds \subseteq InUse /\ RestingIds \cap held = {} /\ late \cap held = {}
         /\ incoming # NoOrder => incoming.id \in InUse /\ incoming.id \notin held
BY DEF ClockInv, KeptApart, InUse, InBook

LEMMA ConstructClockInv ==
  ASSUME "fresh_ids" \in Discipline, ClockInv, NEW id \in Ids, Construct(id)
  PROVE  ClockInv'
<1> DEFINE R == Restamped(id)
<1>1. UNCHANGED vars /\ id \notin InUse /\ held' = held \cup {id} /\ Note(R, late)
  BY DEF Construct
<1>2. [Next]_vars /\ OnlyJoin({}) /\ incoming' = incoming
  BY <1>1, EraseJoins DEF vars
<1>3. RestingIds' = RestingIds
  BY <1>1, <1>2, RestingNext DEF vars
<1>4. InBook' = InBook
  BY <1>2, <1>3 DEF InBook
<1>5. /\ IsStampOrder(R, InUse \cup {id})
      /\ \A a, b : <<a, b>> \in older /\ a # id /\ b # id => <<a, b>> \in R
  BY StampIsLast DEF ClockInv
<1>6. InUse' = InUse \cup {id}
  BY <1>1, <1>4 DEF InUse
<1>7. \A a, b \in InUse : <<a, b>> \in older => <<a, b>> \in R
  BY <1>1, <1>5
<1>8. held' \cap InBook' = {} /\ late \cap held' = {}
  BY <1>1, <1>4 DEF ClockInv, KeptApart, InUse
<1> HIDE DEF R
<1>9. incoming' # NoOrder =>
        \A a \in RestingIds' \ {incoming'.id} : <<a, incoming'.id>> \in R \/ incoming'.id \in late
  BY <1>2, <1>3, <1>7, KeptIsApart DEF ClockInv, TakerIsYoungest
<1>10. \A a, b \in RestingIds \cap RestingIds' :
         (<<a, b>> \in older => <<a, b>> \in R) /\ (b \in late => b \in late)
  BY <1>7, KeptIsApart
<1> QED  BY <1>1, <1>2, <1>5, <1>6, <1>8, <1>9, <1>10, ClockInvFrom

\* A step after which no order is there that was not: none is constructed.
LEMMA NothingNewClockInv ==
  ASSUME "fresh_ids" \in Discipline, ClockInv, [Next]_vars, UNCHANGED held, Note(older, late),
         OnlyJoin({}) \/ (pc = "match" /\ OnlyJoin({incoming.id})),
         incoming' = NoOrder \/ (incoming # NoOrder /\ incoming'.id = incoming.id)
  PROVE  ClockInv'
<1>1. PICK J : OnlyJoin(J) /\ (J = {} \/ (pc = "match" /\ J = {incoming.id}))
  OBVIOUS
<1>2. J = {} \/ (incoming # NoOrder /\ J = {incoming.id} /\ incoming.id \notin DOMAIN orderIndex)
  BY <1>1 DEF ClockInv, IndexInv, TypeOK, TakerUnindexed
<1>3. J \cap RestingIds = {} /\ RestingIds' \subseteq RestingIds \cup J
  BY <1>1, <1>2, RestingNext
<1>4. InBook' \subseteq InBook /\ InUse' \subseteq InUse
  BY <1>2, <1>3 DEF InBook, InUse
<1>5. IsStampOrder(older, InUse)
  BY DEF ClockInv
<1>6. incoming # NoOrder =>
        \A a \in RestingIds' \ {incoming.id} :
          <<a, incoming.id>> \in older \/ incoming.id \in late
  BY <1>2, <1>3 DEF ClockInv, TakerIsYoungest
<1>7. \A b \in J : \A a \in RestingIds' \ {b} : <<a, b>> \in older \/ b \in late
  BY <1>2, <1>6
<1>8. incoming' # NoOrder =>
        \A a \in RestingIds' \ {incoming'.id} :
          <<a, incoming'.id>> \in older \/ incoming'.id \in late
  BY <1>6
<1>9. held' \cap InBook' = {} /\ late \cap held' = {}
  BY <1>4, KeptIsApart DEF ClockInv, KeptApart
<1>10. \A a, b \in RestingIds \cap RestingIds' :
         (<<a, b>> \in older => <<a, b>> \in older) /\ (b \in late => b \in late)
  OBVIOUS
<1> QED  BY <1>1, <1>3, <1>4, <1>5, <1>7, <1>8, <1>9, <1>10, ClockInvFrom

LEMMA ProceedClockInv ==
  ASSUME "fresh_ids" \in Discipline, ClockInv, Proceed
  PROVE  ClockInv'
<1>1. OnlyJoin({}) \/ (pc = "match" /\ OnlyJoin({incoming.id}))
  BY RunJoins DEF Proceed, ClockInv
<1>2. incoming' = NoOrder \/ (incoming # NoOrder /\ incoming'.id = incoming.id)
  <2>1. CASE ConsumeMaker \/ ReduceMaker
    <3>1. incoming \in Order /\ incoming # NoOrder
      BY <2>1, NoOrderAssumption DEF ConsumeMaker, ReduceMaker, ClockInv, IndexInv, TypeOK
    <3> QED  BY <2>1, <3>1 DEF ConsumeMaker, ReduceMaker, Fill, Order
  <2>2. CASE RestRemainder \/ DropRemainder
    BY <2>2 DEF RestRemainder, DropRemainder, NoMatching, ClockInv, IndexInv, TypeOK
  <2>3. CASE Return
    BY <2>3 DEF Return
  <2> QED  BY <2>1, <2>2, <2>3 DEF Proceed, Run
<1> QED  BY <1>1, <1>2, NothingNewClockInv DEF Proceed, Next

LEMMA CancelClockInv ==
  ASSUME "fresh_ids" \in Discipline, ClockInv, NEW id \in Ids, Cancel(id)
  PROVE  ClockInv'
<1>1. OnlyJoin({})
  BY EraseJoins DEF Cancel, CancelOrder, book
<1>2. incoming' = NoOrder
  BY IdleBook DEF Cancel, CancelOrder, NoMatching
<1> QED  BY <1>1, <1>2, NothingNewClockInv DEF Cancel, Next, Call

LEMMA ModifyClockInv ==
  ASSUME "fresh_ids" \in Discipline, ClockInv,
         NEW id \in Ids, NEW newPrice \in Prices, NEW newQuantity \in Quantities,
         Modify(id, newPrice, newQuantity)
  PROVE  ClockInv'
<1>1. /\ ModifyOrder(id, newPrice, newQuantity) /\ pc = "idle" /\ held' = held /\ [Next]_vars
      /\ IF pc' = "match" THEN Note(Restamped(id), late \ {id}) ELSE Note(older, late)
  BY DEF Modify, ModifyOrder, Next, Call
<1>2. incoming = NoOrder /\ InBook = RestingIds
  BY <1>1, IdleBook
<1>3. OnlyJoin({})
  BY <1>1, EraseJoins DEF ModifyOrder, book
<1>4. CASE pc' # "match"
  <2>1. incoming' = NoOrder
    BY <1>1, <1>2, <1>4 DEF ModifyOrder, Answer, NoMatching
  <2> QED  BY <1>1, <1>3, <1>4, <2>1, NothingNewClockInv
<1>5. CASE pc' = "match"
  <2> DEFINE R == Restamped(id)
             L == late \ {id}
  <2>1. Located(id) /\ Erase(id) /\ incoming'.id = id
    BY <1>1, <1>5 DEF ModifyOrder, Answer
  <2>2. id \in RestingIds /\ RestingIds' = RestingIds \ {id}
    BY <1>1, <1>3, <2>1, RestingNext DEF Erase, WithoutId, Located
  <2>3. InBook' \subseteq InBook /\ InUse' \subseteq InUse \cup {id}
    BY <1>1, <1>2, <2>1, <2>2 DEF InBook, InUse
  <2>4. /\ IsStampOrder(R, InUse \cup {id})
        /\ \A a, b : <<a, b>> \in older /\ a # id /\ b # id => <<a, b>> \in R
        /\ \A a \in InUse \ {id} : <<a, id>> \in R
    BY StampIsLast DEF ClockInv
  <2>5. Note(R, L)
    BY <1>1, <1>5
  <2>6. \A a \in RestingIds' \ {incoming'.id} : <<a, incoming'.id>> \in R
    BY <2>1, <2>2, <2>4, KeptIsApart
  <2>7. \A a, b \in RestingIds \cap RestingIds' :
          (<<a, b>> \in older => <<a, b>> \in R) /\ (b \in late => b \in L)
    BY <2>2, <2>4
  <2>8. held' \cap InBook' = {} /\ L \cap held' = {}
    BY <1>1, <2>3, KeptIsApart DEF ClockInv, KeptApart
  <2> HIDE DEF R, L
  <2> QED  BY <1>1, <1>3, <2>3, <2>4, <2>5, <2>6, <2>7, <2>8, ClockInvFrom
<1> QED  BY <1>4, <1>5

LEMMA PlaceClockInv ==
  ASSUME "fresh_ids" \in Discipline, ClockInv, NEW o \in NewOrders, Place(o)
  PROVE  ClockInv'
<1> DEFINE id == o.id
           R == IF id \in held THEN older ELSE Restamped(id)
           L == IF id \in held THEN late \cup {id} ELSE late
           J == IF AddOrder(o) THEN {id} ELSE {}
<1>1. /\ AddOrder(o) \/ SubmitOrder(o)
      /\ pc = "idle" /\ held' = held \ {id} /\ [Next]_vars /\ Note(R, L)
  BY DEF Place, AddOrder, SubmitOrder, Next, Call
<1>2. o \in Order /\ id \in Ids
  BY NewOrdersAreOrders DEF Order
<1>3. IndexInv /\ BookTypeOK /\ IndexTracksBook
  BY DEF ClockInv, IndexInv, TypeOK
<1>4. incoming = NoOrder /\ InBook = RestingIds /\ InUse = RestingIds \cup held
  BY <1>1, IdleBook
<1>5. id \notin DOMAIN orderIndex
  BY <1>1, <1>2, <1>3, FreshIsUnindexed DEF AddOrder, Addable, SubmitOrder
<1>6. OnlyJoin(J)
  <2>1. CASE AddOrder(o)
    BY <1>2, <1>3, <2>1, PushBackJoins DEF AddOrder
  <2>2. CASE ~AddOrder(o)
    BY <1>1, <2>2, EraseJoins DEF SubmitOrder
  <2> QED  BY <2>1, <2>2
<1>7. id \notin RestingIds /\ RestingIds' \subseteq RestingIds \cup J
  BY <1>1, <1>5, <1>6, RestingNext
<1>8. incoming' = NoOrder \/ (incoming'.id = id /\ RestingIds' \subseteq RestingIds)
  BY <1>1, <1>4, <1>7 DEF AddOrder, SubmitOrder, NoMatching
<1>9. InBook' \subseteq RestingIds \cup {id} /\ InUse' \subseteq InUse \cup {id}
  BY <1>1, <1>4, <1>7, <1>8 DEF InBook, InUse
<1>10. held' \cap InBook' = {} /\ L \cap held' = {}
  BY <1>1, <1>9, KeptIsApart
<1>11. /\ IsStampOrder(R, IF id \in held THEN InUse ELSE InUse \cup {id})
       /\ \A a, b : <<a, b>> \in older /\ a # id /\ b # id => <<a, b>> \in R
       /\ \A a \in InUse \ {id} : <<a, id>> \in R \/ id \in L
  BY StampIsLast DEF ClockInv
<1>12. InUse' \subseteq (IF id \in held THEN InUse ELSE InUse \cup {id})
  BY <1>4, <1>9
<1>13. \A a \in RestingIds' \ {id} : <<a, id>> \in R \/ id \in L
  BY <1>7, <1>11, KeptIsApart
<1>14. \A a, b \in RestingIds \cap RestingIds' :
         (<<a, b>> \in older => <<a, b>> \in R) /\ (b \in late => b \in L)
  BY <1>7, <1>11
<1>15. J \cap RestingIds = {} /\ (\A b \in J : b = id)
  BY <1>7
<1> HIDE DEF R, L, J
<1>16. \A b \in J : \A a \in RestingIds' \ {b} : <<a, b>> \in R \/ b \in L
  BY <1>13, <1>15
<1>17. incoming' # NoOrder =>
         \A a \in RestingIds' \ {incoming'.id} : <<a, incoming'.id>> \in R \/ incoming'.id \in L
  BY <1>8, <1>13
<1> QED  BY <1>1, <1>6, <1>10, <1>11, <1>12, <1>14, <1>15, <1>16, <1>17, ClockInvFrom

LEMMA InitClockInv == ClockInit => ClockInv
<1> SUFFICES ASSUME ClockInit PROVE ClockInv
  OBVIOUS
<1>1. Init /\ older = {} /\ held = {} /\ late = {}
  BY DEF ClockInit
<1>2. ShapeInv /\ IndexInv /\ incoming = NoOrder
  BY <1>1, InitShapeInv, InitIndexInv DEF Init
<1>3. RestingIds = {}
  <2>1. RestingIds = DOMAIN orderIndex
    BY <1>2, RestingIsIndexed DEF IndexInv, TypeOK
  <2> QED  BY <1>1, <2>1 DEF Init
<1>4. InBook = {} /\ InUse = {}
  BY <1>1, <1>2, <1>3 DEF InBook, InUse
<1>5. OnlyLateOrdersMisplaced
  BY <1>1, MisplacedByDeque DEF Init, DequesInStampOrder
<1> QED  BY <1>1, <1>2, <1>3, <1>4, <1>5 DEF ClockInv, IsStampOrder, KeptApart, TakerIsYoungest

LEMMA ClockInvStep ==
  ASSUME "fresh_ids" \in Discipline, ClockInv, [ClockNext]_<<vars, clockVars>>
  PROVE  ClockInv'
<1>1. CASE ClockNext
  BY <1>1, ConstructClockInv, CancelClockInv, PlaceClockInv, ModifyClockInv, ProceedClockInv
  DEF ClockNext
<1>2. CASE UNCHANGED <<vars, clockVars>>
  <2>1. UNCHANGED vars /\ older' = older /\ held' = held /\ late' = late
    BY <1>2 DEF clockVars
  <2>2. [Next]_vars /\ OnlyJoin({}) /\ incoming' = incoming
    BY <2>1, EraseJoins DEF vars
  <2>3. RestingIds' = RestingIds
    BY <2>1, <2>2, RestingNext DEF vars
  <2>4. InBook' = InBook /\ InUse' = InUse
    BY <2>1, <2>2, <2>3 DEF InBook, InUse
  <2>5. Note(older, late)
    BY <2>1, <2>4 DEF Note, ClockInv, IsStampOrder, KeptApart, InUse
  <2> QED  BY <2>1, <2>2, <2>5, NothingNewClockInv DEF clockVars
<1> QED  BY <1>1, <1>2

\* However long callers keep orders, and whatever is filled, cancelled or
\* modified meanwhile: an order stands behind a younger one of its level only if
\* its caller kept it.  If no id is sent while it rests, each order passed on at once
\* finds its place by its timestamp, the one a modification takes included.
THEOREM LevelsFollowTimestamps ==
  ASSUME "fresh_ids" \in Discipline
  PROVE  ClockSpec => []OnlyLateOrdersMisplaced
<1>1. ClockInv => OnlyLateOrdersMisplaced
  BY DEF ClockInv
<1> QED  BY <1>1, InitClockInv, ClockInvStep, PTL DEF ClockSpec
=============================================================================

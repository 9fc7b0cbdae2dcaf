------------------------- MODULE RecordAndReplayProofs -------------------------
(***************************************************************************)
(* Theorems about RecordAndReplay, for any requests, any number of calls,  *)
(* any orders that rest and any place where the file is cut.  What they    *)
(* say of the replay, they say if prices have at most six decimals and     *)
(* only TRADE lines are damaged; what they say of the types and of the     *)
(* recorded book needs neither.                                            *)
(*                                                                         *)
(* The replay runs a request long after the recorder did.  What makes the  *)
(* two end alike is that a call of the book is a function of the book and  *)
(* the request.  The first section writes that function down, Called for   *)
(* the first step and Advanced for each iteration of the loop, and shows   *)
(* that the actions of both books follow it; the second shows that loops   *)
(* which start alike end alike, however long they are.  That gives the     *)
(* books; the last sections follow the trades of each call, from the book  *)
(* to the log, to the file, and to the two lists that compareTrades is     *)
(* given.                                                                  *)
(***************************************************************************)
EXTENDS RecordAndReplay, FiniteSetTheorems, TLAPS

\* The theorems about the book, for the recorder's.
BookProofs == INSTANCE OrderBookPriorityProofs WITH Discipline <- {}

-----------------------------------------------------------------------------
(* What a step of the book does, as a function of the book before it.      *)

Pushed(ls, o) ==
  [ls EXCEPT ![o.side] = Book!SetLevel(@, o.price, Append(Book!Level(@, o.price), o))]
PushedIndex(index, o) ==
  [x \in DOMAIN index \cup {o.id} |->
     IF x = o.id THEN [side |-> o.side, price |-> o.price] ELSE index[x]]

Found(ls, index, id) ==
  /\ id \in DOMAIN index
  /\ Book!HasId(Book!Level(ls[index[id].side], index[id].price), id)
Erased(ls, index, id) ==
  [ls EXCEPT ![index[id].side] =
     Book!SetLevel(@, index[id].price, Book!EraseId(@[index[id].price], id))]
ErasedIndex(index, id) == [x \in DOMAIN index \ {id} |-> index[x]]

SlotsOf(ls, s) == UNION {{p} \X DOMAIN ls[s][p] : p \in DOMAIN ls[s]}
UpToOf(ls, s, slot) ==
  {x \in SlotsOf(ls, s) : \/ Book!Better(s, x[1], slot[1])
                          \/ x[1] = slot[1] /\ x[2] <= slot[2]}
TotalOf(ls, s, S) == Book!MapThenSumSet(LAMBDA x : ls[s][x[1]][x[2]].quantity, S)
RefusedBy(ls, o) ==
  LET s == Book!Opposite(o.side)
  IN  \/ o.quantity = 0
      \/ /\ o.type = "FOK"
         /\ ~ \E x \in SlotsOf(ls, s) :
                /\ Book!Crosses(o.side, o.price, x[1])
                /\ TotalOf(ls, s, UpToOf(ls, s, x)) % (MaxUint + 1) >= o.quantity

\* A book inside a call, with the trades so far: the taker counts while the loop runs.
Frame(ls, index, at, o, ts) ==
  [levels |-> ls, orderIndex |-> index, pc |-> at,
   taker |-> IF at = "match" THEN o ELSE NoOrder, trades |-> ts]

\* After the first step of the call a request asks for.
AfterModify(ls, index, id, newPrice, newQuantity) ==
  LET at    == index[id]
      deque == ls[at.side][at.price]
      k     == Book!FindId(deque, id)
      old   == deque[k]
  IN  IF ~Found(ls, index, id) THEN Frame(ls, index, "return", NoOrder, <<>>)
      ELSE IF newQuantity = 0
        THEN Frame(Erased(ls, index, id), ErasedIndex(index, id), "return", NoOrder,
                   <<>>)
      ELSE IF Book!KeepsPlace(old, newPrice, newQuantity)
        THEN Frame([ls EXCEPT ![at.side][at.price][k].quantity = newQuantity], index,
                   "return", NoOrder, <<>>)
      ELSE Frame(Erased(ls, index, id), ErasedIndex(index, id), "match",
                 [id |-> id, side |-> at.side, price |-> newPrice,
                  quantity |-> newQuantity, type |-> "LIMIT"], <<>>)

Called(b, l) ==
  LET ls    == b.levels
      index == b.orderIndex
  IN  CASE l.tag = "ADD" ->
             Frame(Pushed(ls, l.order), PushedIndex(index, l.order), "return", NoOrder,
                   <<>>)
        [] l.tag = "CANCEL" ->
             IF Found(ls, index, l.id)
             THEN Frame(Erased(ls, index, l.id), ErasedIndex(index, l.id), "return",
                        NoOrder, <<>>)
             ELSE Frame(ls, index, "return", NoOrder, <<>>)
        [] l.tag = "SUBMIT" ->
             Frame(ls, index, IF RefusedBy(ls, l.order) THEN "return" ELSE "match", l.order,
                   <<>>)
        [] l.tag = "MODIFY" -> AfterModify(ls, index, l.id, l.price, l.quantity)

\* After one more iteration of the loop, or what follows it.
BestOf(ls, s) ==
  CHOOSE p \in DOMAIN ls[s] : \A q \in DOMAIN ls[s] : q = p \/ Book!Better(s, p, q)

Goes(ls, o) ==
  LET s == Book!Opposite(o.side)
  IN  /\ o.quantity > 0
      /\ DOMAIN ls[s] # {}
      /\ \/ Book!SkipsPriceCheck(o.type)
         \/ Book!Crosses(o.side, o.price, BestOf(ls, s))

TradeOf(o, maker, quantity) ==
  [buy   |-> IF o.side = "BUY" THEN o.id ELSE maker.id,
   sell  |-> IF o.side = "BUY" THEN maker.id ELSE o.id,
   price |-> maker.price, quantity |-> quantity]

AfterMatch(ls, index, o, ts) ==
  LET s     == Book!Opposite(o.side)
      best  == BestOf(ls, s)
      maker == Head(ls[s][best])
  IN  IF Goes(ls, o)
      THEN IF maker.quantity <= o.quantity
           THEN Frame([ls EXCEPT ![s] = Book!SetLevel(@, best, Tail(@[best]))],
                      ErasedIndex(index, maker.id), "match",
                      [o EXCEPT !.quantity = @ - maker.quantity],
                      Append(ts, TradeOf(o, maker, maker.quantity)))
           ELSE Frame([ls EXCEPT ![s][best][1].quantity = @ - o.quantity], index, "match",
                      [o EXCEPT !.quantity = @ - o.quantity],
                      Append(ts, TradeOf(o, maker, o.quantity)))
      ELSE IF o.quantity > 0 /\ ~Book!NeverRests(o.type)
           THEN Frame(Pushed(ls, o), PushedIndex(index, o), "return", NoOrder, ts)
           ELSE Frame(ls, index, "return", NoOrder, ts)

Advanced(b) == AfterMatch(b.levels, b.orderIndex, b.taker, b.trades)

BookNow   == [levels |-> levels, orderIndex |-> orderIndex]
FrameNow  == Frame(levels, orderIndex, pc, incoming, trades)
RBookNow  == [levels |-> rLevels, orderIndex |-> rOrderIndex]
RFrameNow == Frame(rLevels, rOrderIndex, rPc, rIncoming, rTrades)

-----------------------------------------------------------------------------
(* The recorder's book takes these steps.                                  *)

LEMMA RecordedPreview == \A o : Book!Refused(o) <=> RefusedBy(levels, o)
<1>1. \A s, S : Book!Total(s, S) = TotalOf(levels, s, S)
  BY DEF Book!Total, Book!At, TotalOf
<1>2. \A s : Book!Slots(s) = SlotsOf(levels, s)
  BY DEF Book!Slots, SlotsOf
<1>3. \A s, x : Book!UpTo(s, x) = UpToOf(levels, s, x)
  BY <1>2 DEF Book!UpTo, UpToOf
<1> QED  BY <1>1, <1>2, <1>3 DEF Book!Refused, Book!CanFullyFill, RefusedBy

LEMMA RecordedCall ==
  ASSUME NEW r, Perform(r), trades = <<>>
  PROVE  FrameNow' = Called(BookNow, r)
<1> USE DEF Perform, FrameNow, Called, BookNow, Frame, Book!NoMatching
<1>1. CASE r.tag = "ADD"
  BY <1>1 DEF Book!AddOrder, Book!PushBack, Book!Answer, Pushed, PushedIndex
<1>2. CASE r.tag = "CANCEL"
  BY <1>2 DEF Book!CancelOrder, Book!Located, Book!Erase, Book!Answer, Book!WithoutId,
     Book!book, Found, Erased, ErasedIndex
<1>3. CASE r.tag = "SUBMIT"
  BY <1>3, RecordedPreview DEF Book!SubmitOrder, Book!Answer
<1>4. CASE r.tag = "MODIFY"
  <2> DEFINE at    == orderIndex[r.id]
             deque == levels[at.side][at.price]
             k     == Book!FindId(deque, r.id)
  <2> USE DEF Book!Answer, Book!book, Found, AfterModify, Book!Located
  <2>1. Book!ModifyOrder(r.id, r.price, r.quantity)
    BY <1>4
  <2>2. Called(BookNow, r) = AfterModify(levels, orderIndex, r.id, r.price, r.quantity)
    BY <1>4
  <2>3. ASSUME ~Book!Located(r.id)
        PROVE  FrameNow' = AfterModify(levels, orderIndex, r.id, r.price, r.quantity)
    BY <2>1, <2>3 DEF Book!ModifyOrder
  <2>4. ASSUME Book!Located(r.id), r.quantity = 0
        PROVE  FrameNow' = AfterModify(levels, orderIndex, r.id, r.price, r.quantity)
    BY <2>1, <2>4 DEF Book!ModifyOrder, Book!Erase, Book!WithoutId, Erased, ErasedIndex
  <2>5. ASSUME Book!Located(r.id), r.quantity > 0, r.quantity # 0,
               Book!KeepsPlace(deque[k], r.price, r.quantity)
        PROVE  FrameNow' = AfterModify(levels, orderIndex, r.id, r.price, r.quantity)
    BY <2>1, <2>5 DEF Book!ModifyOrder, Book!ModifyInPlace
  <2>6. ASSUME Book!Located(r.id), r.quantity > 0, r.quantity # 0,
               ~Book!KeepsPlace(deque[k], r.price, r.quantity)
        PROVE  FrameNow' = AfterModify(levels, orderIndex, r.id, r.price, r.quantity)
    BY <2>1, <2>6 DEF Book!ModifyOrder, Book!Erase, Book!WithoutId, Erased, ErasedIndex
  <2>7. r.quantity > 0 => r.quantity # 0
    OBVIOUS
  <2> QED  BY <2>1, <2>2, <2>3, <2>4, <2>5, <2>6, <2>7 DEF Book!ModifyOrder
<1> QED  BY <1>1, <1>2, <1>3, <1>4

LEMMA RecordedMatch ==
  ASSUME Match
  PROVE  pc = "match" /\ FrameNow' = Advanced(FrameNow)
<1> DEFINE s == Book!Opposite(incoming.side)
<1>1. pc = "match" /\ FrameNow.levels = levels /\ FrameNow.orderIndex = orderIndex
      /\ FrameNow.taker = incoming /\ FrameNow.trades = trades
  BY DEF Match, Book!ConsumeMaker, Book!ReduceMaker, Book!RestRemainder,
     Book!DropRemainder, FrameNow, Frame
<1>2. /\ Book!LoopCondition <=> Goes(levels, incoming)
      /\ Book!Best(s) = BestOf(levels, s) /\ Book!MakerSide = s
      /\ Book!Maker = Head(levels[s][BestOf(levels, s)])
  BY DEF Book!LoopCondition, Goes, Book!Best, BestOf, Book!MakerSide, Book!Maker
<1>3. FrameNow' = AfterMatch(levels, orderIndex, incoming, trades)
  <2> USE <1>1, <1>2 DEF FrameNow, AfterMatch, Frame
  <2>1. CASE Book!ConsumeMaker
    BY <2>1 DEF Book!ConsumeMaker, Book!Fill, Book!WithoutId, ErasedIndex, Book!MakerFilled,
       TradeOf
  <2>2. CASE Book!ReduceMaker
    BY <2>2 DEF Book!ReduceMaker, Book!Fill, Book!MakerFilled, TradeOf
  <2>3. CASE Book!RestRemainder
    BY <2>3 DEF Book!RestRemainder, Book!PushBack, Book!Answer, Book!NoMatching,
       Pushed, PushedIndex
  <2>4. CASE Book!DropRemainder
    BY <2>4 DEF Book!DropRemainder, Book!Answer, Book!NoMatching, Book!book
  <2> QED  BY <2>1, <2>2, <2>3, <2>4 DEF Match
<1> QED  BY <1>1, <1>3 DEF Advanced

-----------------------------------------------------------------------------
(* And so does the replay's.                                               *)

\* What RunLine does with the line it has read.
Ran(l) ==
  \/ l.tag = "ADD"    /\ Replayer!Book!AddOrder(l.order)
  \/ l.tag = "CANCEL" /\ Replayer!Book!CancelOrder(l.id)
  \/ l.tag = "SUBMIT" /\ Replayer!Book!SubmitOrder(l.order)
  \/ l.tag = "MODIFY" /\ Replayer!Book!ModifyOrder(l.id, l.price, l.quantity)

LEMMA SameContainers ==
  /\ \A map, p : Replayer!Book!Level(map, p) = Book!Level(map, p)
  /\ \A map, p, q : Replayer!Book!SetLevel(map, p, q) = Book!SetLevel(map, p, q)
  /\ \A q, id : Replayer!Book!HasId(q, id) <=> Book!HasId(q, id)
  /\ \A q, id : Replayer!Book!FindId(q, id) = Book!FindId(q, id)
  /\ \A q, id : Replayer!Book!EraseId(q, id) = Book!EraseId(q, id)
  /\ \A s : Replayer!Book!Opposite(s) = Book!Opposite(s)
  /\ \A s, p, q : Replayer!Book!Crosses(s, p, q) <=> Book!Crosses(s, p, q)
  /\ \A o, p, n : Replayer!Book!KeepsPlace(o, p, n) <=> Book!KeepsPlace(o, p, n)
  /\ \A t : Replayer!Book!SkipsPriceCheck(t) <=> Book!SkipsPriceCheck(t)
  /\ \A t : Replayer!Book!NeverRests(t) <=> Book!NeverRests(t)
<1>1. \A map, p, q : Replayer!Book!SetLevel(map, p, q) = Book!SetLevel(map, p, q)
  BY DEF Replayer!Book!SetLevel, Book!SetLevel
<1>2. \A q, id : Replayer!Book!FindId(q, id) = Book!FindId(q, id)
  BY DEF Replayer!Book!FindId, Book!FindId
<1>3. \A q, id : Replayer!Book!EraseId(q, id) = Book!EraseId(q, id)
  BY <1>2 DEF Replayer!Book!EraseId, Book!EraseId
<1> QED
  BY <1>1, <1>2, <1>3
  DEF Replayer!Book!Level, Book!Level, Replayer!Book!HasId, Book!HasId,
      Replayer!Book!Opposite, Book!Opposite, Replayer!Book!Crosses, Book!Crosses,
      Replayer!Book!KeepsPlace, Book!KeepsPlace, Replayer!Book!SkipsPriceCheck,
      Book!SkipsPriceCheck, Replayer!Book!NeverRests, Book!NeverRests

LEMMA ReplayedPreview == \A o : Replayer!Book!Refused(o) <=> RefusedBy(rLevels, o)
<1>1. \A s, S : Replayer!Book!Total(s, S) = TotalOf(rLevels, s, S)
  BY DEF Replayer!Book!Total, Replayer!Book!At, TotalOf, Book!MapThenSumSet,
     Book!MapThenFoldSet, Replayer!Book!MapThenSumSet, Replayer!Book!MapThenFoldSet
<1>2. \A s : Replayer!Book!Slots(s) = SlotsOf(rLevels, s)
  BY DEF Replayer!Book!Slots, SlotsOf
<1>3. \A s, x : Replayer!Book!UpTo(s, x) = UpToOf(rLevels, s, x)
  BY <1>2 DEF Replayer!Book!UpTo, UpToOf, Replayer!Book!Better, Book!Better
<1>4. \A s : Replayer!Book!Opposite(s) = Book!Opposite(s)
  BY DEF Replayer!Book!Opposite, Book!Opposite
<1>5. \A s, p, q : Replayer!Book!Crosses(s, p, q) = Book!Crosses(s, p, q)
  BY DEF Replayer!Book!Crosses, Book!Crosses
<1> QED  BY <1>1, <1>2, <1>3, <1>4, <1>5 DEF Replayer!Book!Refused,
            Replayer!Book!CanFullyFill, RefusedBy

LEMMA ReplayedErase ==
  ASSUME NEW id, Replayer!Book!Erase(id)
  PROVE  /\ rLevels' = Erased(rLevels, rOrderIndex, id)
         /\ rOrderIndex' = ErasedIndex(rOrderIndex, id)
BY SameContainers DEF Replayer!Book!Erase, Replayer!Book!WithoutId, Erased, ErasedIndex

LEMMA ReplayedCall ==
  ASSUME NEW l, Ran(l), rTrades = <<>>
  PROVE  RFrameNow' = Called(RBookNow, l)
<1> USE SameContainers DEF Ran, RFrameNow, Called, RBookNow, Frame,
                           Replayer!Book!NoMatching
<1>1. CASE l.tag = "ADD"
  BY <1>1 DEF Replayer!Book!AddOrder, Replayer!Book!PushBack, Replayer!Book!Answer, Pushed,
     PushedIndex
<1>2. CASE l.tag = "CANCEL"
  BY <1>2 DEF Replayer!Book!CancelOrder, Replayer!Book!Located, Replayer!Book!Erase,
     Replayer!Book!Answer, Replayer!Book!WithoutId, Replayer!Book!book,
              Found, Erased, ErasedIndex
<1>3. CASE l.tag = "SUBMIT"
  BY <1>3, ReplayedPreview DEF Replayer!Book!SubmitOrder, Replayer!Book!Answer
<1>4. CASE l.tag = "MODIFY"
  <2> DEFINE at    == rOrderIndex[l.id]
             deque == rLevels[at.side][at.price]
             k     == Replayer!Book!FindId(deque, l.id)
  <2> USE SameContainers DEF Replayer!Book!Answer, Replayer!Book!book, Found, AfterModify,
                             Replayer!Book!Located
  <2>1. Replayer!Book!ModifyOrder(l.id, l.price, l.quantity)
    BY <1>4
  <2>2. Called(RBookNow, l) = AfterModify(rLevels, rOrderIndex, l.id, l.price, l.quantity)
    BY <1>4
  <2>3. ASSUME ~Replayer!Book!Located(l.id)
        PROVE  RFrameNow' = AfterModify(rLevels, rOrderIndex, l.id, l.price, l.quantity)
    BY <2>1, <2>3 DEF Replayer!Book!ModifyOrder
  <2>4. ASSUME Replayer!Book!Located(l.id), l.quantity = 0
        PROVE  RFrameNow' = AfterModify(rLevels, rOrderIndex, l.id, l.price, l.quantity)
    BY <2>1, <2>4 DEF Replayer!Book!ModifyOrder, Replayer!Book!Erase,
       Replayer!Book!WithoutId, Erased, ErasedIndex
  <2>5. ASSUME Replayer!Book!Located(l.id), l.quantity > 0, l.quantity # 0,
               Replayer!Book!KeepsPlace(deque[k], l.price, l.quantity)
        PROVE  RFrameNow' = AfterModify(rLevels, rOrderIndex, l.id, l.price, l.quantity)
    BY <2>1, <2>5 DEF Replayer!Book!ModifyOrder, Replayer!Book!ModifyInPlace
  <2>6. ASSUME Replayer!Book!Located(l.id), l.quantity > 0, l.quantity # 0,
               ~Replayer!Book!KeepsPlace(deque[k], l.price, l.quantity)
        PROVE  RFrameNow' = AfterModify(rLevels, rOrderIndex, l.id, l.price, l.quantity)
    <3>1. rLevels' = Erased(rLevels, rOrderIndex, l.id)
          /\ rOrderIndex' = ErasedIndex(rOrderIndex, l.id)
      BY <2>1, <2>6, ReplayedErase DEF Replayer!Book!ModifyOrder
    <3>2. rPc' = "match" /\ rIncoming' = [id |-> l.id, side |-> at.side, price |-> l.price,
                                         quantity |-> l.quantity, type |-> "LIMIT"]
          /\ rTrades' = rTrades
      BY <2>1, <2>6 DEF Replayer!Book!ModifyOrder
    <3>3. Found(rLevels, rOrderIndex, l.id)
      BY <2>6
    <3> HIDE DEF Found
    <3> QED  BY <2>6, <3>1, <3>2, <3>3
  <2>7. l.quantity > 0 => l.quantity # 0
    OBVIOUS
  <2> QED  BY <2>1, <2>2, <2>3, <2>4, <2>5, <2>6, <2>7,
              SameContainers DEF Replayer!Book!ModifyOrder
<1> QED  BY <1>1, <1>2, <1>3, <1>4

LEMMA ReplayedMatch ==
  ASSUME Replayer!ReplayMatch
  PROVE  rPc = "match" /\ RFrameNow' = Advanced(RFrameNow)
<1> DEFINE s == Replayer!Book!Opposite(rIncoming.side)
<1>1. rPc = "match" /\ RFrameNow.levels = rLevels /\ RFrameNow.orderIndex = rOrderIndex
      /\ RFrameNow.taker = rIncoming /\ RFrameNow.trades = rTrades
  BY DEF Replayer!ReplayMatch, Replayer!Book!ConsumeMaker, Replayer!Book!ReduceMaker,
     Replayer!Book!RestRemainder, Replayer!Book!DropRemainder, RFrameNow, Frame
<1>2. /\ Replayer!Book!LoopCondition <=> Goes(rLevels, rIncoming)
      /\ Replayer!Book!Best(s) = BestOf(rLevels, s) /\ Replayer!Book!MakerSide = s
      /\ Replayer!Book!Maker = Head(rLevels[s][BestOf(rLevels, s)])
  <2>1. \A t : Replayer!Book!Best(t) = BestOf(rLevels, t)
    BY DEF Replayer!Book!Best, BestOf, Replayer!Book!Better, Book!Better
  <2> QED
    BY <2>1, SameContainers
    DEF Replayer!Book!LoopCondition, Goes, Replayer!Book!MakerSide, Replayer!Book!Maker
<1>3. RFrameNow' = AfterMatch(rLevels, rOrderIndex, rIncoming, rTrades)
  <2> USE <1>1, <1>2, SameContainers DEF RFrameNow, AfterMatch, Frame
  <2>1. CASE Replayer!Book!ConsumeMaker
    BY <2>1 DEF Replayer!Book!ConsumeMaker, Replayer!Book!Fill, Replayer!Book!WithoutId,
       ErasedIndex, Replayer!Book!MakerFilled, TradeOf
  <2>2. CASE Replayer!Book!ReduceMaker
    BY <2>2 DEF Replayer!Book!ReduceMaker, Replayer!Book!Fill, Replayer!Book!MakerFilled,
       TradeOf
  <2>3. CASE Replayer!Book!RestRemainder
    BY <2>3 DEF Replayer!Book!RestRemainder, Replayer!Book!PushBack, Replayer!Book!Answer,
       Replayer!Book!NoMatching, Pushed, PushedIndex
  <2>4. CASE Replayer!Book!DropRemainder
    BY <2>4 DEF Replayer!Book!DropRemainder, Replayer!Book!Answer,
       Replayer!Book!NoMatching, Replayer!Book!book
  <2> QED  BY <2>1, <2>2, <2>3, <2>4 DEF Replayer!ReplayMatch
<1> QED  BY <1>1, <1>3 DEF Advanced
-----------------------------------------------------------------------------
(* From one book to another in a call.                                     *)

\* y is where the loop is after some of its iterations from x: visited has all
\* the frames from x to y, and no more than those, see LoopsEndAlike.
Leads(x, y) ==
  \E visited :
    /\ x \in visited /\ y \in visited
    /\ \A z \in visited : z # y => z.pc = "match" /\ Advanced(z) \in visited
    /\ \A S \in SUBSET visited :
         x \in S /\ (\A z \in S : z # y => Advanced(z) \in S) => y \in S

\* A call of request r on book b leaves book c.
Effect(b, r, c) ==
  \E f : /\ Leads(Called(b, r), f) /\ f.pc # "match"
         /\ c = [levels |-> f.levels, orderIndex |-> f.orderIndex]

LEMMA LeadsToItself == \A x : Leads(x, x)
<1> SUFFICES ASSUME NEW x
             PROVE  Leads(x, x)
  OBVIOUS
<1>1. \A S \in SUBSET {x} : x \in S => x \in S
  OBVIOUS
<1> QED  BY <1>1 DEF Leads

LEMMA LeadsOn ==
  ASSUME NEW x, NEW y, Leads(x, y), y.pc = "match"
  PROVE  Leads(x, Advanced(y))
<1>1. PICK visited :
        /\ x \in visited /\ y \in visited
        /\ \A z \in visited : z # y => z.pc = "match" /\ Advanced(z) \in visited
        /\ \A S \in SUBSET visited :
             x \in S /\ (\A z \in S : z # y => Advanced(z) \in S) => y \in S
  BY DEF Leads
<1> DEFINE next == Advanced(y)
           more == visited \cup {next}
<1> HIDE DEF next
<1>2. \A z \in more : z # next => z.pc = "match" /\ Advanced(z) \in more
  BY <1>1 DEF next
<1>3. ASSUME NEW S \in SUBSET more, x \in S,
             \A z \in S : z # next => Advanced(z) \in S
      PROVE  next \in S
  <2> SUFFICES ASSUME next \notin S
               PROVE  FALSE
    OBVIOUS
  <2>1. S \in SUBSET visited /\ \A z \in S : Advanced(z) \in S
    BY <1>3
  <2>2. y \in S
    BY <1>1, <1>3, <2>1
  <2> QED  BY <2>1, <2>2 DEF next
<1>4. x \in more /\ next \in more
  BY <1>1
<1>5. Leads(x, next)
  BY <1>2, <1>3, <1>4 DEF Leads
<1> QED  BY <1>5 DEF next

\* The loop has one way to go, so it has one end.
LEMMA LoopsEndAlike ==
  ASSUME NEW x, NEW f, NEW g, Leads(x, f), Leads(x, g), f.pc # "match", g.pc # "match"
  PROVE  f = g
<1>1. PICK V : /\ x \in V /\ f \in V
               /\ \A z \in V : z # f => z.pc = "match" /\ Advanced(z) \in V
               /\ \A S \in SUBSET V :
                    x \in S /\ (\A z \in S : z # f => Advanced(z) \in S) => f \in S
  BY DEF Leads
<1>2. PICK W : /\ x \in W /\ g \in W
               /\ \A z \in W : z # g => z.pc = "match" /\ Advanced(z) \in W
               /\ \A S \in SUBSET W :
                    x \in S /\ (\A z \in S : z # g => Advanced(z) \in S) => g \in S
  BY DEF Leads
<1> DEFINE S == V \cap W
<1>3. \A z \in S : z # f => Advanced(z) \in S
  <2> SUFFICES ASSUME NEW z \in S, z # f
               PROVE  Advanced(z) \in S
    OBVIOUS
  <2>1. z.pc = "match" /\ Advanced(z) \in V
    BY <1>1
  <2>2. z # g
    BY <2>1
  <2> QED  BY <1>2, <2>1, <2>2
<1>4. f \in S
  BY <1>1, <1>2, <1>3
<1> QED  BY <1>2, <1>4

LEMMA EffectIsUnique ==
  ASSUME NEW b, NEW r, NEW c, NEW d, Effect(b, r, c), Effect(b, r, d)
  PROVE  c = d
BY LoopsEndAlike DEF Effect

-----------------------------------------------------------------------------
(* Sequences.                                                              *)

Whole(s) == s \in Seq({s[i] : i \in DOMAIN s})

LEMMA WholeHasLength ==
  ASSUME NEW s, Whole(s)
  PROVE  Len(s) \in Nat /\ DOMAIN s = 1 .. Len(s)
BY DEF Whole

LEMMA AppendFacts ==
  ASSUME NEW T, NEW s \in Seq(T), NEW x \in T
  PROVE  /\ Append(s, x) \in Seq(T)
         /\ Len(Append(s, x)) = Len(s) + 1
         /\ \A i \in 1 .. Len(s) : Append(s, x)[i] = s[i]
         /\ Append(s, x)[Len(s) + 1] = x
OBVIOUS

LEMMA SeqOverItsValues ==
  ASSUME NEW T, NEW s \in Seq(T)
  PROVE  Whole(s)
<1> DEFINE V == {s[i] : i \in DOMAIN s}
<1>1. DOMAIN s = 1 .. Len(s) /\ Len(s) \in Nat /\ s = [i \in 1 .. Len(s) |-> s[i]]
  OBVIOUS
<1>2. \A i \in 1 .. Len(s) : s[i] \in V
  BY <1>1
<1> HIDE DEF V
<1>3. s \in [1 .. Len(s) -> V]
  BY <1>1, <1>2
<1>4. s \in Seq(V)
  BY <1>1, <1>3
<1> QED  BY <1>4 DEF Whole, V

LEMMA AppendWhole ==
  ASSUME NEW s, Whole(s), NEW x
  PROVE  /\ Whole(Append(s, x))
         /\ Len(Append(s, x)) = Len(s) + 1
         /\ \A i \in 1 .. Len(s) : Append(s, x)[i] = s[i]
         /\ Append(s, x)[Len(s) + 1] = x
<1> DEFINE T == {s[i] : i \in DOMAIN s} \cup {x}
<1>1. s \in Seq(T) /\ x \in T
  <2>1. {s[i] : i \in DOMAIN s} \subseteq T
    OBVIOUS
  <2>2. \A A, B : A \subseteq B => Seq(A) \subseteq Seq(B)
    OBVIOUS
  <2> HIDE DEF T
  <2>3. s \in Seq(T)
    BY <2>1, <2>2 DEF Whole
  <2> QED  BY <2>3 DEF T
<1> HIDE DEF T
<1>2. /\ Append(s, x) \in Seq(T)
      /\ Len(Append(s, x)) = Len(s) + 1
      /\ \A i \in 1 .. Len(s) : Append(s, x)[i] = s[i]
      /\ Append(s, x)[Len(s) + 1] = x
  BY <1>1, AppendFacts
<1> QED  BY <1>2, SeqOverItsValues

LEMMA PrefixOfWhole ==
  ASSUME NEW s, Whole(s), NEW n \in 0 .. Len(s)
  PROVE  /\ Whole(SubSeq(s, 1, n)) /\ Len(SubSeq(s, 1, n)) = n
         /\ \A i \in 1 .. n : SubSeq(s, 1, n)[i] = s[i]
<1> DEFINE T == {s[i] : i \in DOMAIN s}
<1>1. s \in Seq(T)
  BY DEF Whole
<1> HIDE DEF T
<1>2. SubSeq(s, 1, n) \in Seq(T) /\ Len(SubSeq(s, 1, n)) = n
      /\ \A i \in 1 .. n : SubSeq(s, 1, n)[i] = s[i]
  BY <1>1
<1> QED  BY <1>2, SeqOverItsValues
-----------------------------------------------------------------------------
(* The inductive invariant.                                                *)

\* The prices of the callers have at most six decimals, and only TRADE lines are
\* damaged.
PrintablePrices   == \A p \in Prices : p % Grid = 0
OnlyTradesDamaged == Damageable \subseteq {"TRADE"}

IsTrade(l) == \E t : l = [tag |-> "TRADE", trade |-> t]

EmptyBook == [levels |-> [s \in Book!Side |-> <<>>], orderIndex |-> <<>>]

\* The recorded book after its first n calls.
After(n) == IF n = 0 THEN EmptyBook ELSE completed[n]

\* A request is in the log, and its call has not returned.
Begun == stage \in {"writing", "logged", "calling"}

\* at[n] is the place of the n-th request in the log; the other lines are trades.
Places(at) ==
  /\ Whole(log) /\ Whole(at)
  /\ Len(at) = Len(completed) + (IF Begun THEN 1 ELSE 0)
  /\ \A n \in DOMAIN at : at[n] \in DOMAIN log /\ log[at[n]] \in Requests
  /\ \A m, n \in DOMAIN at : m < n => at[m] < at[n]
  /\ \A i \in DOMAIN log : IsTrade(log[i]) \/ \E n \in DOMAIN at : at[n] = i

\* A request is flushed before it is called.
WrittenAhead(at) ==
  /\ stage \in {"idle", "writing", "logged", "calling", "trades"}
  /\ flushed \in 0 .. Len(log)
  /\ \A n \in DOMAIN at : at[n] <= flushed \/ (stage = "writing" /\ n = Len(at))
  /\ Begun => log[at[Len(at)]] = request

\* Each book of the recorder is what its call made of the one before.
Recorded(at) ==
  /\ Whole(completed)
  /\ \A n \in DOMAIN completed : Effect(After(n - 1), log[at[n]], completed[n])
  /\ stage # "calling" =>
       pc = "idle" /\ trades = <<>> /\ BookNow = After(Len(completed))
  /\ stage = "calling" =>
       pc # "idle" /\ Leads(Called(After(Len(completed)), request), FrameNow)

\* The file has each request that was flushed, and what else it has of the log
\* is no other request.
FileInv ==
  phase \notin {"closed", "refused"} =>
    /\ Whole(input) /\ Len(input) <= Len(log)
    /\ \A i \in DOMAIN input :
         IsTrade(log[i]) => input[i] = Malformed \/ IsTrade(input[i])
    /\ \A i \in 1 .. flushed :
         ~IsTrade(log[i]) => i \in DOMAIN input /\ input[i] = log[i]

\* Where the replay is, and what it has counted.
ReplayerInv(at) ==
  /\ position \in Nat /\ ran \in 0 .. Len(at)
  /\ phase \in {"closed", "refused"} => position = 0 /\ ran = 0
  /\ phase \in {"done", "exited"} => position = Len(input)
  /\ phase = "reading" => position <= Len(input)
  /\ rPc # "idle" => /\ phase = "reading" /\ position < Len(input)
                     /\ Replayer!NextLine # Malformed /\ ~IsTrade(Replayer!NextLine)
  /\ \A n \in DOMAIN at : n <= ran => at[n] <= position
  /\ \A n \in DOMAIN at : n > ran /\ at[n] <= position => at[n] > flushed

\* The replayed book is what the last request made of the recorded book before
\* it, and inside a call the loop is where that leads.
Followed(at) ==
  /\ rPc = "idle" => rTrades = <<>>
  /\ rPc = "idle" /\ ran = 0 => RBookNow = EmptyBook
  /\ rPc = "idle" /\ ran > 0 /\ at[ran] <= flushed =>
       Effect(After(ran - 1), log[at[ran]], RBookNow)
  /\ rPc # "idle" /\ position + 1 <= flushed =>
       Leads(Called(After(ran), Replayer!NextLine), RFrameNow)

LogInv(at) ==
  Places(at) /\ WrittenAhead(at) /\ Recorded(at) /\ FileInv /\ ReplayerInv(at) /\ Followed(at)

-----------------------------------------------------------------------------
(* What the invariant says.                                                *)

LEMMA RequestIsNoTrade == \A r \in Requests : ~IsTrade(r) /\ r.tag # "TRADE"
<1>1. \A r \in Requests : r.tag # "TRADE"
  BY RequestsAssumption
<1>2. \A l : IsTrade(l) => l.tag = "TRADE"
  BY DEF IsTrade
<1> QED  BY <1>1, <1>2

LEMMA PrintedPrice ==
  ASSUME PrintablePrices, NEW p \in Prices
  PROVE  Printed(p) = p
<1> DEFINE half == Grid \div 2
           k    == p \div Grid
<1>1. Grid \in Nat /\ Grid > 0 /\ p \in Int
  BY GridAssumption, BookAssumption DEF Book!PricesAssumption
<1>2. half \in Nat /\ half < Grid
  BY <1>1
<1>3. k \in Int /\ p = k * Grid
  BY <1>1 DEF PrintablePrices
<1> HIDE DEF half, k
<1>4. (k * Grid + half) \div Grid = k
  BY <1>1, <1>2, <1>3
<1> QED  BY <1>3, <1>4 DEF Printed, half

\* A request is read as it was made.
LEMMA PrintedRequest ==
  ASSUME PrintablePrices, NEW r \in Requests
  PROVE  Line(r) = r /\ ~IsTrade(r) /\ r # Malformed
<1>1. Line(r) = r
  <2>1. CASE r \in [tag : {"ADD", "SUBMIT"}, order : Book!NewOrders]
    <3>1. r.order.price \in Prices
      BY <2>1 DEF Book!NewOrders
    <3>2. Printed(r.order.price) = r.order.price
      BY <3>1, PrintedPrice
    <3>3. [r EXCEPT !.order.price = r.order.price] = r
      BY <2>1 DEF Book!NewOrders
    <3> QED  BY <2>1, <3>2, <3>3 DEF Line
  <2>2. CASE r \in [tag : {"CANCEL"}, id : Ids]
    BY <2>2 DEF Line
  <2>3. CASE r \in [tag : {"MODIFY"}, id : Ids, price : Prices, quantity : Quantities]
    BY <2>3, PrintedPrice DEF Line
  <2> QED  BY <2>1, <2>2, <2>3, RequestsAssumption
<1> QED  BY <1>1, RequestIsNoTrade, MalformedAssumption

\* The lengths and the domains of the sequences.
LEMMA LogLengths ==
  ASSUME NEW at, LogInv(at)
  PROVE  /\ Len(at) \in Nat /\ DOMAIN at = 1 .. Len(at)
         /\ Len(log) \in Nat /\ DOMAIN log = 1 .. Len(log)
         /\ Len(completed) \in Nat /\ DOMAIN completed = 1 .. Len(completed)
         /\ flushed \in Nat /\ flushed <= Len(log)
         /\ \A n \in DOMAIN at : at[n] \in Nat /\ at[n] >= 1 /\ at[n] <= Len(log)
         /\ phase \notin {"closed", "refused"} =>
              Len(input) \in Nat /\ DOMAIN input = 1 .. Len(input)
         /\ position \in Nat /\ ran \in Nat /\ ran <= Len(at)
<1>1. Whole(at) /\ Whole(log) /\ Whole(completed)
  BY DEF LogInv, Places, Recorded
<1>2. phase \notin {"closed", "refused"} => Whole(input)
  BY DEF LogInv, FileInv
<1>3. /\ Len(at) \in Nat /\ DOMAIN at = 1 .. Len(at)
      /\ Len(log) \in Nat /\ DOMAIN log = 1 .. Len(log)
      /\ Len(completed) \in Nat /\ DOMAIN completed = 1 .. Len(completed)
  BY <1>1, WholeHasLength
<1>4. phase \notin {"closed", "refused"} =>
        Len(input) \in Nat /\ DOMAIN input = 1 .. Len(input)
  BY <1>2, WholeHasLength
<1>5. \A n \in DOMAIN at : at[n] \in DOMAIN log
  BY DEF LogInv, Places
<1> QED  BY <1>3, <1>4, <1>5 DEF LogInv, WrittenAhead, ReplayerInv

\* When the replay is at a request, it is at the one after those it has run.
LEMMA NextRequest ==
  ASSUME NEW at, LogInv(at), phase = "reading", position < Len(input),
         Replayer!NextLine # Malformed, ~IsTrade(Replayer!NextLine)
  PROVE  ran + 1 \in DOMAIN at /\ at[ran + 1] = position + 1
<1>1. position + 1 \in DOMAIN input /\ position + 1 \in DOMAIN log
  BY LogLengths DEF LogInv, FileInv
<1>2. ~IsTrade(log[position + 1])
  BY <1>1 DEF LogInv, FileInv, Replayer!NextLine
<1>3. PICK n \in DOMAIN at : at[n] = position + 1
  BY <1>1, <1>2 DEF LogInv, Places
<1>4. n > ran
  BY <1>3, LogLengths DEF LogInv, ReplayerInv
<1>5. ASSUME n > ran + 1
      PROVE  FALSE
  <2>1. ran + 1 \in DOMAIN at /\ ran + 1 # Len(at)
    BY <1>3, <1>5, LogLengths
  <2>2. at[ran + 1] < at[n]
    BY <1>5, <2>1 DEF LogInv, Places
  <2>3. at[ran + 1] <= position
    BY <1>3, <2>1, <2>2, LogLengths
  <2>4. at[ran + 1] > flushed
    BY <2>1, <2>3, LogLengths DEF LogInv, ReplayerInv
  <2>5. at[ran + 1] <= flushed
    BY <2>1 DEF LogInv, WrittenAhead
  <2> QED  BY <2>1, <2>4, <2>5, LogLengths
<1> QED  BY <1>3, <1>4, <1>5, LogLengths

\* Between two requests the replayed book is the recorded one.
LEMMA ReplayedIsRecorded ==
  ASSUME NEW at, LogInv(at), rPc = "idle", ran <= Len(completed)
  PROVE  RBookNow = After(ran)
<1>1. CASE ran = 0
  BY <1>1 DEF LogInv, Followed, After
<1>2. CASE ran > 0
  <2>1. ran \in DOMAIN completed /\ ran \in DOMAIN at
    BY <1>2, LogLengths
  <2>2. at[ran] <= flushed
    BY <2>1, LogLengths DEF LogInv, WrittenAhead, Places, Begun
  <2>3. Effect(After(ran - 1), log[at[ran]], RBookNow)
    BY <1>2, <2>2 DEF LogInv, Followed
  <2>4. Effect(After(ran - 1), log[at[ran]], completed[ran])
    BY <2>1 DEF LogInv, Recorded
  <2> QED  BY <1>2, <2>3, <2>4, EffectIsUnique, LogLengths DEF After
<1> QED  BY <1>1, <1>2, LogLengths

\* A replay that ends has run every request whose call returned.
LEMMA ReplayIsComplete ==
  ASSUME NEW at, LogInv(at), phase \in {"done", "exited"}
  PROVE  ran >= Len(completed) /\ rPc = "idle" /\ position = Len(input)
<1>1. position = Len(input) /\ rPc = "idle"
  BY DEF LogInv, ReplayerInv
<1>2. CASE Len(completed) = 0
  BY <1>1, <1>2, LogLengths
<1>3. CASE Len(completed) > 0
  <2> DEFINE n == Len(completed)
  <2>1. n \in DOMAIN at
    BY <1>3, LogLengths DEF LogInv, Places
  <2>2. at[n] <= flushed
    BY <2>1, LogLengths DEF LogInv, WrittenAhead, Places, Begun
  <2>3. ~IsTrade(log[at[n]])
    BY <2>1, RequestsAssumption DEF LogInv, Places, IsTrade
  <2>4. at[n] \in DOMAIN input
    BY <2>1, <2>2, <2>3, LogLengths DEF LogInv, FileInv
  <2>5. at[n] <= position
    BY <1>1, <2>4, LogLengths
  <2>6. ~(n > ran)
    BY <2>1, <2>2, <2>5, LogLengths DEF LogInv, ReplayerInv
  <2> QED  BY <1>1, <2>6, LogLengths
<1> QED  BY <1>2, <1>3, LogLengths

LEMMA LogInvMeans ==
  ASSUME NEW at, LogInv(at)
  PROVE  ReplayFollowsRecording /\ CrashLosesNothing
<1>1. ReplayFollowsRecording
  <2> SUFFICES ASSUME rPc = "idle", ran \in DOMAIN completed
               PROVE  SameBook(completed[ran])
    BY DEF ReplayFollowsRecording
  <2>1. ran \in Nat /\ ran # 0 /\ ran <= Len(completed)
    BY LogLengths
  <2>2. RBookNow = completed[ran]
    BY <2>1, ReplayedIsRecorded DEF After
  <2> QED  BY <2>2 DEF SameBook, RBookNow
<1>2. ASSUME phase = "done"
      PROVE  ran >= Len(completed) /\ rPc = "idle"
  BY <1>2, ReplayIsComplete
<1>3. ASSUME phase = "done", stage = "idle"
      PROVE  SameBook(BookNow)
  <2>1. ran = Len(completed) /\ rPc = "idle"
    BY <1>2, <1>3, LogLengths DEF LogInv, Places, Begun
  <2>2. RBookNow = After(Len(completed))
    BY <2>1, ReplayedIsRecorded, LogLengths
  <2>3. BookNow = After(Len(completed))
    BY <1>3 DEF LogInv, Recorded
  <2>4. RBookNow = BookNow
    BY <2>2, <2>3
  <2> QED  BY <2>4 DEF SameBook, RBookNow, BookNow
<1> QED  BY <1>1, <1>2, <1>3 DEF CrashLosesNothing, Settled, BookNow
-----------------------------------------------------------------------------
(* The recorder's steps.                                                   *)

LEMMA RecorderUnchanged ==
  ASSUME NEW at, LogInv(at), UNCHANGED recorderVars
  PROVE  /\ Places(at)' /\ WrittenAhead(at)' /\ Recorded(at)'
         /\ \A n : After(n)' = After(n)
<1>1. \A n : After(n)' = After(n)
  BY DEF After, recorderVars
<1>2. Places(at)' /\ WrittenAhead(at)'
  BY DEF LogInv, recorderVars, bookVars, Places, WrittenAhead, Begun
<1>3. BookNow' = BookNow /\ FrameNow' = FrameNow
  BY DEF recorderVars, bookVars, BookNow, FrameNow
<1>4. Recorded(at)'
  BY <1>1, <1>3 DEF LogInv, recorderVars, bookVars, Recorded
<1> QED  BY <1>1, <1>2, <1>4

\* A replay that takes no step follows what the log and the books still say.
LEMMA ReplayUnchanged ==
  ASSUME NEW at, LogInv(at), UNCHANGED replayVars, flushed' = flushed,
         log' = log, completed' = completed
  PROVE  FileInv' /\ ReplayerInv(at)' /\ Followed(at)'
<1>1. FileInv' /\ ReplayerInv(at)'
  BY DEF LogInv, replayVars, FileInv, ReplayerInv, Replayer!NextLine
<1>2. \A n : After(n)' = After(n)
  BY DEF After
<1>3. RBookNow' = RBookNow /\ RFrameNow' = RFrameNow /\ Replayer!NextLine' = Replayer!NextLine
  BY DEF replayVars, RBookNow, RFrameNow, Replayer!NextLine
<1>4. Followed(at)'
  BY <1>2, <1>3 DEF LogInv, replayVars, Followed
<1> QED  BY <1>1, <1>4

LEMMA DelegateStep ==
  ASSUME NEW at, LogInv(at), Delegate, UNCHANGED replayVars
  PROVE  LogInv(at)'
<1>1. FileInv' /\ ReplayerInv(at)' /\ Followed(at)'
  BY ReplayUnchanged DEF Delegate
<1>2. Places(at)' /\ WrittenAhead(at)'
  BY DEF LogInv, Places, WrittenAhead, Begun, Delegate
<1>3. FrameNow' = Called(After(Len(completed)), request)
  BY RecordedCall DEF LogInv, Recorded, Delegate
<1>4. Leads(Called(After(Len(completed)), request), FrameNow')
  BY <1>3, LeadsToItself
<1>5. pc' # "idle"
  BY DEF Delegate, Perform, Book!AddOrder, Book!CancelOrder, Book!SubmitOrder,
         Book!ModifyOrder, Book!Answer
<1>6. \A n : After(n)' = After(n)
  BY DEF After, Delegate
<1>7. Recorded(at)'
  BY <1>4, <1>5, <1>6 DEF LogInv, Recorded, Delegate
<1> QED  BY <1>1, <1>2, <1>7 DEF LogInv

LEMMA MatchStep ==
  ASSUME NEW at, LogInv(at), Match, UNCHANGED replayVars
  PROVE  LogInv(at)'
<1>1. FileInv' /\ ReplayerInv(at)' /\ Followed(at)'
  BY ReplayUnchanged DEF Match
<1>2. Places(at)' /\ WrittenAhead(at)'
  BY DEF LogInv, Places, WrittenAhead, Begun, Match
<1>3. stage = "calling" /\ FrameNow' = Advanced(FrameNow) /\ FrameNow.pc = "match"
  BY RecordedMatch DEF LogInv, Recorded, FrameNow, Frame
<1>4. Leads(Called(After(Len(completed)), request), FrameNow')
  BY <1>3, LeadsOn DEF LogInv, Recorded
<1>5. pc' # "idle"
  BY RecordedMatch DEF Match, Book!ConsumeMaker, Book!ReduceMaker, Book!RestRemainder,
     Book!DropRemainder, Book!Answer, Book!Fill
<1>6. \A n : After(n)' = After(n)
  BY DEF After, Match
<1>7. Recorded(at)'
  BY <1>3, <1>4, <1>5, <1>6 DEF LogInv, Recorded, Match
<1> QED  BY <1>1, <1>2, <1>7 DEF LogInv

LEMMA FlushRequestStep ==
  ASSUME NEW at, LogInv(at), FlushRequest, phase = "closed", UNCHANGED replayVars
  PROVE  LogInv(at)'
<1>1. Places(at)'
  BY DEF LogInv, Places, Begun, FlushRequest
<1>2. WrittenAhead(at)'
  BY LogLengths DEF LogInv, WrittenAhead, Begun, FlushRequest
<1>3. \A n : After(n)' = After(n)
  BY DEF After, FlushRequest
<1>4. BookNow' = BookNow
  BY DEF FlushRequest, bookVars, BookNow
<1>5. Recorded(at)'
  BY <1>3, <1>4 DEF LogInv, Recorded, FlushRequest, bookVars
<1>6. FileInv' /\ ReplayerInv(at)'
  <2>1. position' = 0 /\ ran' = 0 /\ rPc' = "idle" /\ phase' = "closed"
    BY DEF LogInv, ReplayerInv, replayVars
  <2>2. \A n \in DOMAIN at : at[n] > 0
    BY LogLengths
  <2> QED  BY <2>1, <2>2, LogLengths DEF FileInv, ReplayerInv
<1>7. Followed(at)'
  <2>1. /\ ran' = 0 /\ rPc' = "idle" /\ RBookNow' = RBookNow /\ ran = 0 /\ rPc = "idle"
        /\ rTrades' = rTrades
    BY DEF LogInv, ReplayerInv, replayVars, RBookNow
  <2> QED  BY <2>1 DEF LogInv, Followed
<1> QED  BY <1>1, <1>2, <1>5, <1>6, <1>7 DEF LogInv

LEMMA FlushTradesStep ==
  ASSUME NEW at, LogInv(at), FlushTrades, UNCHANGED replayVars
  PROVE  LogInv(at)'
<1>1. Places(at)'
  BY DEF LogInv, Places, Begun, FlushTrades
<1>2. WrittenAhead(at)'
  BY LogLengths DEF LogInv, WrittenAhead, Begun, FlushTrades
<1>3. \A n : After(n)' = After(n)
  BY DEF After, FlushTrades
<1>4. BookNow' = BookNow
  BY DEF FlushTrades, bookVars, BookNow
<1>5. Recorded(at)'
  BY <1>3, <1>4 DEF LogInv, Recorded, FlushTrades, bookVars
<1>6. \A n \in DOMAIN at : at[n] <= flushed
  BY DEF LogInv, WrittenAhead, FlushTrades
<1>7. \A i \in 1 .. Len(log) : ~IsTrade(log[i]) => i \in 1 .. flushed
  BY <1>6, LogLengths DEF LogInv, Places
<1>8. FileInv'
  <2>1. flushed' = Len(log) /\ log' = log /\ input' = input /\ phase' = phase
    BY DEF FlushTrades, replayVars
  <2> QED  BY <1>7, <2>1, LogLengths DEF LogInv, FileInv
<1>9. ReplayerInv(at)'
  <2>1. \A n \in DOMAIN at : ~(n > ran /\ at[n] <= position)
    BY <1>6, LogLengths DEF LogInv, ReplayerInv
  <2>2. /\ position' = position /\ ran' = ran /\ phase' = phase /\ input' = input /\ rPc' = rPc
        /\ Replayer!NextLine' = Replayer!NextLine
    BY DEF replayVars, Replayer!NextLine
  <2> QED  BY <2>1, <2>2 DEF LogInv, ReplayerInv
<1>10. RBookNow' = RBookNow /\ RFrameNow' = RFrameNow /\ Replayer!NextLine' = Replayer!NextLine
  BY DEF replayVars, RBookNow, RFrameNow, Replayer!NextLine
<1>11. rPc # "idle" => position + 1 <= flushed
  <2> SUFFICES ASSUME rPc # "idle"
               PROVE  position + 1 <= flushed
    OBVIOUS
  <2>1. ran + 1 \in DOMAIN at /\ at[ran + 1] = position + 1
    BY NextRequest DEF LogInv, ReplayerInv
  <2> QED  BY <1>6, <2>1
<1>12. ran > 0 => at[ran] <= flushed
  BY <1>6, LogLengths
<1>13. Followed(at)'
  BY <1>3, <1>10, <1>11, <1>12 DEF LogInv, Followed, FlushTrades, replayVars
<1> QED  BY <1>1, <1>2, <1>5, <1>8, <1>9, <1>13 DEF LogInv
\* A line is added that no file has yet.
LEMMA LogGrows ==
  ASSUME NEW at, LogInv(at), NEW l, log' = Append(log, l), UNCHANGED replayVars,
         flushed' = flushed, completed' = completed
  PROVE  /\ Whole(log') /\ Len(log') = Len(log) + 1
         /\ DOMAIN log' = 1 .. Len(log) + 1
         /\ \A i \in DOMAIN log : log'[i] = log[i]
         /\ log'[Len(log) + 1] = l
         /\ FileInv' /\ Followed(at)'
<1>1. Whole(log)
  BY DEF LogInv, Places
<1>2. /\ Whole(log') /\ Len(log') = Len(log) + 1
      /\ \A i \in 1 .. Len(log) : log'[i] = log[i]
      /\ log'[Len(log) + 1] = l
  BY <1>1, AppendWhole
<1>3. DOMAIN log' = 1 .. Len(log) + 1
  BY <1>2, WholeHasLength
<1>4. FileInv'
  <2>1. input' = input /\ phase' = phase
    BY DEF replayVars
  <2>2. ASSUME phase \notin {"closed", "refused"}
        PROVE  \A i \in DOMAIN input : log'[i] = log[i]
    BY <1>2, <2>2, LogLengths DEF LogInv, FileInv
  <2>3. \A i \in 1 .. flushed : log'[i] = log[i]
    BY <1>2, LogLengths
  <2> QED  BY <1>2, <2>1, <2>2, <2>3, LogLengths DEF LogInv, FileInv
<1>5. Followed(at)'
  <2>1. \A n : After(n)' = After(n)
    BY DEF After
  <2>2. RBookNow' = RBookNow /\ RFrameNow' = RFrameNow /\ Replayer!NextLine' = Replayer!NextLine
    BY DEF replayVars, RBookNow, RFrameNow, Replayer!NextLine
  <2>3. ran > 0 => log'[at[ran]] = log[at[ran]]
    BY <1>2, LogLengths
  <2> QED  BY <2>1, <2>2, <2>3 DEF LogInv, Followed, replayVars
<1> QED  BY <1>2, <1>3, <1>4, <1>5, LogLengths

LEMMA LogTradeStep ==
  ASSUME NEW at, LogInv(at), LogTrade, UNCHANGED replayVars
  PROVE  LogInv(at)'
<1> DEFINE l == TradeLine(Head(unlogged))
<1>1. IsTrade(l)
  BY DEF IsTrade, TradeLine
<1>2. log' = Append(log, l) /\ flushed' = flushed /\ completed' = completed
  BY DEF LogTrade
<1> HIDE DEF l
<1>3. /\ Whole(log') /\ Len(log') = Len(log) + 1
      /\ DOMAIN log' = 1 .. Len(log) + 1
      /\ \A i \in DOMAIN log : log'[i] = log[i]
      /\ log'[Len(log) + 1] = l
      /\ FileInv' /\ Followed(at)'
  BY <1>2, LogGrows
<1>4. Places(at)'
  <2>1. \A n \in DOMAIN at : at[n] \in DOMAIN log' /\ log'[at[n]] \in Requests
    BY <1>3, LogLengths DEF LogInv, Places
  <2>2. \A i \in DOMAIN log' : IsTrade(log'[i]) \/ \E n \in DOMAIN at : at[n] = i
    BY <1>1, <1>3, LogLengths DEF LogInv, Places
  <2> QED  BY <1>3, <2>1, <2>2 DEF LogInv, Places, Begun, LogTrade
<1>5. WrittenAhead(at)'
  BY <1>3, LogLengths DEF LogInv, WrittenAhead, Begun, LogTrade
<1>6. Recorded(at)'
  <2>1. \A n : After(n)' = After(n)
    BY <1>2 DEF After
  <2>2. \A n \in DOMAIN completed : log'[at[n]] = log[at[n]]
    BY <1>3, LogLengths DEF LogInv, Places
  <2>3. /\ BookNow' = BookNow /\ pc' = pc /\ trades' = trades
        /\ stage = "trades" /\ stage' = "trades"
    BY DEF LogTrade, bookVars, BookNow
  <2> QED  BY <1>2, <2>1, <2>2, <2>3 DEF LogInv, Recorded
<1>7. ReplayerInv(at)'
  BY <1>2 DEF LogInv, ReplayerInv, replayVars, Replayer!NextLine
<1> QED  BY <1>3, <1>4, <1>5, <1>6, <1>7 DEF LogInv

LEMMA WriteRequestStep ==
  ASSUME NEW at, LogInv(at), PrintablePrices, NEW r \in Requests, WriteRequest(r),
         phase = "closed", UNCHANGED replayVars, NEW more, more = Append(at, Len(log) + 1)
  PROVE  LogInv(more)'
<1>1. /\ Whole(more) /\ Len(more) = Len(at) + 1 /\ DOMAIN more = 1 .. Len(at) + 1
      /\ \A n \in DOMAIN at : more[n] = at[n]
      /\ more[Len(at) + 1] = Len(log) + 1
  <2>1. Whole(at)
    BY DEF LogInv, Places
  <2> QED  BY <2>1, AppendWhole, WholeHasLength
<1>2. log' = Append(log, r) /\ flushed' = flushed /\ completed' = completed
  BY PrintedRequest DEF WriteRequest
<1>3. /\ Whole(log') /\ Len(log') = Len(log) + 1
      /\ DOMAIN log' = 1 .. Len(log) + 1
      /\ \A i \in DOMAIN log : log'[i] = log[i]
      /\ log'[Len(log) + 1] = r
      /\ FileInv'
  BY <1>2, LogGrows
<1>4. Len(at) = Len(completed)
  BY DEF LogInv, Places, Begun, WriteRequest
<1>5. Places(more)'
  <2>1. \A n \in DOMAIN more : more[n] \in DOMAIN log' /\ log'[more[n]] \in Requests
    <3> SUFFICES ASSUME NEW n \in DOMAIN more
                 PROVE  more[n] \in DOMAIN log' /\ log'[more[n]] \in Requests
      OBVIOUS
    <3>1. CASE n = Len(at) + 1
      BY <1>1, <1>3, <3>1, LogLengths
    <3>2. CASE n \in DOMAIN at
      BY <1>1, <1>3, <3>2, LogLengths DEF LogInv, Places
    <3> QED  BY <1>1, <3>1, <3>2, LogLengths
  <2>2. \A m, n \in DOMAIN more : m < n => more[m] < more[n]
    <3> SUFFICES ASSUME NEW m \in DOMAIN more, NEW n \in DOMAIN more, m < n
                 PROVE  more[m] < more[n]
      OBVIOUS
    <3>1. m \in DOMAIN at
      BY <1>1, LogLengths
    <3>2. CASE n = Len(at) + 1
      BY <1>1, <3>1, <3>2, LogLengths
    <3>3. CASE n \in DOMAIN at
      BY <1>1, <3>1, <3>3 DEF LogInv, Places
    <3> QED  BY <1>1, <3>2, <3>3, LogLengths
  <2>3. \A i \in DOMAIN log' : IsTrade(log'[i]) \/ \E n \in DOMAIN more : more[n] = i
    <3> SUFFICES ASSUME NEW i \in DOMAIN log', ~IsTrade(log'[i])
                 PROVE  \E n \in DOMAIN more : more[n] = i
      OBVIOUS
    <3>1. CASE i = Len(log) + 1
      BY <1>1, <3>1, LogLengths
    <3>2. CASE i \in DOMAIN log
      <4>1. PICK n \in DOMAIN at : at[n] = i
        BY <1>3, <3>2 DEF LogInv, Places
      <4> QED  BY <1>1, <4>1, LogLengths
    <3> QED  BY <1>3, <3>1, <3>2, LogLengths
  <2>4. Len(more) = Len(completed') + 1 /\ stage' = "writing"
    BY <1>1, <1>2, <1>4 DEF WriteRequest
  <2> QED  BY <1>1, <1>3, <2>1, <2>2, <2>3, <2>4 DEF Places, Begun
<1>6. WrittenAhead(more)'
  <2>1. stage' = "writing" /\ request' = r
    BY DEF WriteRequest
  <2>2. log'[more[Len(more)]] = r
    BY <1>1, <1>3
  <2>3. \A n \in DOMAIN more : more[n] <= flushed \/ n = Len(more)
    BY <1>1, LogLengths DEF LogInv, WrittenAhead, WriteRequest
  <2> QED  BY <1>2, <1>3, <2>1, <2>2, <2>3, LogLengths DEF WrittenAhead
<1>7. Recorded(more)'
  <2>1. \A n : After(n)' = After(n)
    BY <1>2 DEF After
  <2>2. \A n \in DOMAIN completed : log'[more[n]] = log[at[n]]
    BY <1>1, <1>3, <1>4, LogLengths DEF LogInv, Places
  <2>3. /\ BookNow' = BookNow /\ pc' = pc /\ trades' = trades
        /\ stage = "idle" /\ stage' = "writing"
    BY DEF WriteRequest, bookVars, BookNow
  <2> QED  BY <1>2, <2>1, <2>2, <2>3 DEF LogInv, Recorded
<1>8. /\ position' = 0 /\ ran' = 0 /\ rPc' = "idle" /\ phase' = "closed"
      /\ RBookNow' = EmptyBook /\ rTrades' = <<>>
  BY DEF LogInv, ReplayerInv, Followed, replayVars, RBookNow
<1>9. ReplayerInv(more)' /\ Followed(more)'
  <2>1. \A n \in DOMAIN more : more[n] > 0
    BY <1>1, LogLengths
  <2> QED  BY <1>1, <1>8, <2>1, LogLengths DEF ReplayerInv, Followed
<1> QED  BY <1>3, <1>5, <1>6, <1>7, <1>9 DEF LogInv

LEMMA CallReturnsStep ==
  ASSUME NEW at, LogInv(at), CallReturns, UNCHANGED replayVars
  PROVE  LogInv(at)'
<1> DEFINE c == Len(completed)
<1>1. /\ stage = "calling" /\ stage' \in {"idle", "trades"} /\ pc = "return" /\ pc' = "idle"
      /\ log' = log /\ flushed' = flushed /\ request' = request
      /\ completed' = Append(completed, BookNow) /\ BookNow' = BookNow /\ trades' = <<>>
  BY DEF LogInv, Recorded, CallReturns, Book!Return, Book!book, BookNow
<1>2. /\ Whole(completed') /\ Len(completed') = c + 1 /\ DOMAIN completed' = 1 .. c + 1
      /\ \A n \in DOMAIN completed : completed'[n] = completed[n]
      /\ completed'[c + 1] = BookNow
  <2>1. Whole(completed)
    BY DEF LogInv, Recorded
  <2> QED  BY <1>1, <2>1, AppendWhole, WholeHasLength
<1>3. Len(at) = c + 1
  BY <1>1 DEF LogInv, Places, Begun
<1>4. \A n \in 0 .. c : After(n)' = After(n)
  BY <1>2, LogLengths DEF After
<1>5. Places(at)'
  BY <1>1, <1>2, <1>3 DEF LogInv, Places, Begun
<1>6. WrittenAhead(at)'
  BY <1>1 DEF LogInv, WrittenAhead, Begun
<1>7. Recorded(at)'
  <2>1. Effect(After(c), request, BookNow)
    <3>1. Leads(Called(After(c), request), FrameNow)
      BY <1>1 DEF LogInv, Recorded
    <3>2. FrameNow.pc # "match"
          /\ BookNow = [levels |-> FrameNow.levels, orderIndex |-> FrameNow.orderIndex]
      BY <1>1 DEF FrameNow, Frame, BookNow
    <3> QED  BY <3>1, <3>2 DEF Effect
  <2>2. log[at[c + 1]] = request
    BY <1>1, <1>3 DEF LogInv, WrittenAhead, Begun
  <2>3. \A n \in 1 .. c + 1 : Effect(After(n - 1), log[at[n]], completed'[n])
    <3> SUFFICES ASSUME NEW n \in 1 .. c + 1
                 PROVE  Effect(After(n - 1), log[at[n]], completed'[n])
      OBVIOUS
    <3>1. CASE n = c + 1
      BY <1>2, <2>1, <2>2, <3>1, LogLengths
    <3>2. CASE n \in 1 .. c
      BY <1>2, <3>2, LogLengths DEF LogInv, Recorded
    <3> QED  BY <3>1, <3>2, LogLengths
  <2>4. \A n \in 1 .. c + 1 : Effect(After(n - 1)', log[at[n]], completed'[n])
    <3> SUFFICES ASSUME NEW n \in 1 .. c + 1
                 PROVE  Effect(After(n - 1)', log[at[n]], completed'[n])
      OBVIOUS
    <3>1. n - 1 \in 0 .. c
      BY LogLengths
    <3>2. After(n - 1)' = After(n - 1)
      BY <1>4, <3>1
    <3> QED  BY <2>3, <3>2
  <2>5. After(Len(completed))' = BookNow
    BY <1>2, LogLengths DEF After
  <2>6. /\ stage' # "calling" /\ pc' = "idle" /\ trades' = <<>>
        /\ BookNow' = After(Len(completed))'
    BY <1>1, <2>5
  <2> QED  BY <1>1, <1>2, <2>4, <2>6 DEF Recorded
<1>8. FileInv' /\ ReplayerInv(at)'
  <2>1. FileInv'
    BY <1>1 DEF LogInv, replayVars, FileInv
  <2>2. ReplayerInv(at)'
    BY <1>1 DEF LogInv, replayVars, ReplayerInv, Replayer!NextLine
  <2> QED  BY <2>1, <2>2
<1>9. Followed(at)'
  <2>1. RBookNow' = RBookNow /\ RFrameNow' = RFrameNow /\ Replayer!NextLine' = Replayer!NextLine
    BY DEF replayVars, RBookNow, RFrameNow, Replayer!NextLine
  <2>2. ran > 0 => ran - 1 \in 0 .. c
    BY <1>3, LogLengths
  <2>3. rPc # "idle" => ran \in 0 .. c
    <3> SUFFICES ASSUME rPc # "idle"
                 PROVE  ran \in 0 .. c
      OBVIOUS
    <3>1. ran + 1 \in DOMAIN at
      BY NextRequest DEF LogInv, ReplayerInv
    <3> QED  BY <1>3, <3>1, LogLengths
  <2>4. ran' = ran /\ rPc' = rPc /\ position' = position /\ rTrades' = rTrades
    BY DEF replayVars
  <2>5. ran > 0 => After(ran - 1)' = After(ran - 1)
    BY <1>2, <2>2, <2>4, LogLengths DEF After
  <2>6. rPc # "idle" => After(ran)' = After(ran)
    BY <1>2, <2>3, <2>4, LogLengths DEF After
  <2> QED  BY <1>1, <2>1, <2>4, <2>5, <2>6 DEF LogInv, Followed
<1> QED  BY <1>5, <1>6, <1>7, <1>8, <1>9 DEF LogInv

LEMMA RecordStep ==
  ASSUME NEW at, LogInv(at), PrintablePrices, Record
  PROVE  \E more : LogInv(more)'
BY DelegateStep, MatchStep, CallReturnsStep, LogTradeStep, FlushTradesStep,
   FlushRequestStep, WriteRequestStep DEF Record, FinishCall
-----------------------------------------------------------------------------
(* The file.                                                               *)

\* What can be read of a TRADE line that was cut short is no request.
LEMMA TornTrade ==
  ASSUME NEW l, IsTrade(l), NEW k \in Torn(l)
  PROVE  k = Malformed \/ IsTrade(k)
<1>1. PICK t : l = [tag |-> "TRADE", trade |-> t]
  BY DEF IsTrade
<1>2. CASE k = Malformed
  BY <1>2
<1>3. CASE k \in {[l EXCEPT !.trade.quantity = n] : n \in Cut[l.trade.quantity]}
  <2>1. PICK n : k = [l EXCEPT !.trade.quantity = n]
    BY <1>3
  <2>2. k = [tag |-> "TRADE", trade |-> [t EXCEPT !.quantity = n]]
    BY <1>1, <2>1
  <2> QED  BY <2>2 DEF IsTrade
<1> QED  BY <1>1, <1>2, <1>3 DEF Torn

\* The lines that a file can hold.
LEMMA SavedLines ==
  ASSUME Whole(log), flushed \in 0 .. Len(log), NEW lines \in Saved
  PROVE  /\ Whole(lines) /\ Len(lines) >= flushed /\ Len(lines) <= Len(log)
         /\ \A i \in 1 .. flushed : lines[i] = log[i]
         /\ \A i \in 1 .. Len(lines) :
              IsTrade(log[i]) => lines[i] = Malformed \/ IsTrade(lines[i])
<1>1. PICK n \in flushed .. Len(log) :
        \/ lines = SubSeq(log, 1, n)
        \/ n # flushed /\ \E l \in Torn(log[n]) : lines = Append(SubSeq(log, 1, n - 1), l)
  BY DEF Saved
<1>2. n \in Nat /\ Len(log) \in Nat /\ flushed \in Nat /\ flushed <= Len(log)
  BY <1>1, WholeHasLength
<1>3. CASE lines = SubSeq(log, 1, n)
  <2>1. n \in 0 .. Len(log)
    BY <1>1, <1>2
  <2>2. Whole(lines) /\ Len(lines) = n /\ \A i \in 1 .. n : lines[i] = log[i]
    BY <1>2, <1>3, <2>1, PrefixOfWhole
  <2> QED  BY <1>1, <2>2
<1>4. ASSUME n # flushed, NEW l \in Torn(log[n]), lines = Append(SubSeq(log, 1, n - 1), l)
      PROVE  /\ Whole(lines) /\ Len(lines) = n /\ lines[n] = l
             /\ \A i \in 1 .. n - 1 : lines[i] = log[i]
  <2>1. n - 1 \in 0 .. Len(log)
    BY <1>1, <1>2, <1>4
  <2>2. /\ Whole(SubSeq(log, 1, n - 1)) /\ Len(SubSeq(log, 1, n - 1)) = n - 1
        /\ \A i \in 1 .. n - 1 : SubSeq(log, 1, n - 1)[i] = log[i]
    BY <1>2, <2>1, PrefixOfWhole
  <2> QED  BY <1>2, <1>4, <2>2, AppendWhole
<1>5. ASSUME n # flushed, NEW l \in Torn(log[n]), lines = Append(SubSeq(log, 1, n - 1), l)
      PROVE  \A i \in 1 .. n : IsTrade(log[i]) => lines[i] = Malformed \/ IsTrade(lines[i])
  BY <1>2, <1>4, <1>5, TornTrade
<1>6. CASE n # flushed /\ \E l \in Torn(log[n]) : lines = Append(SubSeq(log, 1, n - 1), l)
  <2>1. PICK l \in Torn(log[n]) : lines = Append(SubSeq(log, 1, n - 1), l)
    BY <1>6
  <2>2. /\ Whole(lines) /\ Len(lines) = n
        /\ \A i \in 1 .. n - 1 : lines[i] = log[i]
    BY <1>4, <1>6, <2>1
  <2>3. \A i \in 1 .. n : IsTrade(log[i]) => lines[i] = Malformed \/ IsTrade(lines[i])
    BY <1>5, <1>6, <2>1
  <2> QED  BY <1>1, <1>6, <2>2, <2>3
<1> QED  BY <1>1, <1>3, <1>6

LEMMA WholeFunction ==
  ASSUME NEW n \in Nat, NEW s, s = [i \in 1 .. n |-> s[i]]
  PROVE  Whole(s) /\ Len(s) = n
<1> DEFINE V == {s[i] : i \in DOMAIN s}
<1>1. DOMAIN s = 1 .. n
  OBVIOUS
<1>2. \A i \in 1 .. n : s[i] \in V
  BY <1>1
<1> HIDE DEF V
<1>3. s \in [1 .. n -> V]
  BY <1>2
<1>4. s \in Seq(V) /\ Len(s) = n
  BY <1>3
<1> QED  BY <1>4 DEF Whole, V

LEMMA OpenFileStep ==
  ASSUME NEW at, LogInv(at), PrintablePrices, OnlyTradesDamaged, OpenFile
  PROVE  LogInv(at)'
<1>1. PICK lines \in Saved : \E D \in Damages(lines) :
        Replayer!Open([i \in DOMAIN lines |-> IF i \in D THEN Malformed ELSE lines[i]])
  BY DEF OpenFile
<1>2. PICK D \in Damages(lines) :
        Replayer!Open([i \in DOMAIN lines |-> IF i \in D THEN Malformed ELSE lines[i]])
  BY <1>1
<1>3. /\ Whole(lines) /\ Len(lines) >= flushed /\ Len(lines) <= Len(log)
      /\ \A i \in 1 .. flushed : lines[i] = log[i]
      /\ \A i \in 1 .. Len(lines) :
           IsTrade(log[i]) => lines[i] = Malformed \/ IsTrade(lines[i])
  BY SavedLines DEF LogInv, Places, WrittenAhead
<1>4. Len(lines) \in Nat /\ DOMAIN lines = 1 .. Len(lines)
  BY <1>3, WholeHasLength
<1>5. input' = [i \in 1 .. Len(lines) |-> IF i \in D THEN Malformed ELSE lines[i]]
  BY <1>2, <1>4 DEF Replayer!Open
<1>6. Whole(input') /\ Len(input') = Len(lines) /\ DOMAIN input' = 1 .. Len(lines)
      /\ \A i \in 1 .. Len(lines) : input'[i] = IF i \in D THEN Malformed ELSE lines[i]
  BY <1>4, <1>5, WholeFunction
<1>7. \A i \in 1 .. flushed : ~IsTrade(log[i]) => i \notin D
  <2> SUFFICES ASSUME NEW i \in 1 .. flushed, ~IsTrade(log[i]), i \in D
               PROVE  FALSE
    OBVIOUS
  <2>1. lines[i] = log[i] /\ lines[i].tag = "TRADE"
    BY <1>3 DEF Damages, OnlyTradesDamaged
  <2>2. i \in DOMAIN log
    BY LogLengths
  <2>3. log[i] \in Requests
    BY <2>2 DEF LogInv, Places
  <2> QED  BY <2>1, <2>3, RequestsAssumption
<1>8. UNCHANGED recorderVars /\ phase = "closed" /\ phase' = "reading"
      /\ UNCHANGED <<rLevels, rOrderIndex, rPc, rIncoming, rTrades, position, ran>>
  BY <1>2 DEF OpenFile, Replayer!Open, Replayer!bookVars
<1>9. Places(at)' /\ WrittenAhead(at)' /\ Recorded(at)' /\ \A n : After(n)' = After(n)
  BY <1>8, RecorderUnchanged
<1>10. log' = log /\ flushed' = flushed
  BY <1>8 DEF recorderVars
<1>11. FileInv'
  BY <1>3, <1>4, <1>6, <1>7, <1>8, <1>10, LogLengths DEF FileInv
<1>12. position = 0 /\ ran = 0 /\ rPc = "idle"
  BY <1>8 DEF LogInv, ReplayerInv
<1>13. ReplayerInv(at)'
  <2>1. \A n \in DOMAIN at : at[n] > 0
    BY LogLengths
  <2> QED  BY <1>4, <1>6, <1>8, <1>12, <2>1, LogLengths DEF ReplayerInv
<1>14. Followed(at)'
  <2>1. RBookNow' = RBookNow
    BY <1>8 DEF RBookNow
  <2> QED  BY <1>8, <1>12, <2>1 DEF LogInv, Followed
<1> QED  BY <1>9, <1>11, <1>13, <1>14 DEF LogInv

-----------------------------------------------------------------------------
(* The steps of the replay.                                                *)

\* A line that is no request is passed.
LEMMA PassLine ==
  ASSUME NEW at, LogInv(at), UNCHANGED recorderVars, PrintablePrices,
         phase = "reading", rPc = "idle", position < Len(input),
         Replayer!NextLine = Malformed \/ Replayer!NextLine.tag = "TRADE",
         position' = position + 1,
         UNCHANGED <<rLevels, rOrderIndex, rPc, rIncoming, rTrades, input, ran, phase>>
  PROVE  LogInv(at)'
<1>1. Places(at)' /\ WrittenAhead(at)' /\ Recorded(at)' /\ \A n : After(n)' = After(n)
  BY RecorderUnchanged
<1>2. log' = log /\ flushed' = flushed
  BY DEF recorderVars
<1>3. FileInv'
  BY <1>2 DEF LogInv, FileInv
<1>4. \A n \in DOMAIN at : at[n] = position + 1 => at[n] > flushed
  <2> SUFFICES ASSUME NEW n \in DOMAIN at, at[n] = position + 1, ~(at[n] > flushed)
               PROVE  FALSE
    OBVIOUS
  <2>1. log[at[n]] \in Requests /\ at[n] \in 1 .. flushed
    BY LogLengths DEF LogInv, Places
  <2>2. ~IsTrade(log[at[n]]) /\ log[at[n]] # Malformed /\ log[at[n]].tag # "TRADE"
    BY <2>1, PrintedRequest, RequestsAssumption
  <2>3. Replayer!NextLine = log[at[n]]
    BY <2>1, <2>2 DEF LogInv, FileInv, Replayer!NextLine
  <2> QED  BY <2>2, <2>3
<1>5. ReplayerInv(at)'
  BY <1>2, <1>4, LogLengths DEF LogInv, ReplayerInv
<1>6. Followed(at)'
  <2>1. RBookNow' = RBookNow
    BY DEF RBookNow
  <2>2. ran > 0 => After(ran - 1)' = After(ran - 1)
    BY DEF After, recorderVars
  <2> QED  BY <1>2, <2>1, <2>2 DEF LogInv, Followed
<1> QED  BY <1>1, <1>3, <1>5, <1>6 DEF LogInv

\* Neither the file nor what is read of it changes.
LEMMA StaysAtLine ==
  ASSUME NEW at, LogInv(at), UNCHANGED recorderVars, UNCHANGED <<input, position, ran,
  phase>>,
         phase = "reading", position < Len(input), Replayer!NextLine # Malformed,
         ~IsTrade(Replayer!NextLine)
  PROVE  /\ Places(at)' /\ WrittenAhead(at)' /\ Recorded(at)' /\ FileInv' /\ ReplayerInv(at)'
         /\ log' = log /\ flushed' = flushed /\ Replayer!NextLine' = Replayer!NextLine
         /\ After(ran)' = After(ran)
<1>1. Places(at)' /\ WrittenAhead(at)' /\ Recorded(at)'
  BY RecorderUnchanged
<1>2. log' = log /\ flushed' = flushed /\ completed' = completed
      /\ Replayer!NextLine' = Replayer!NextLine
  BY DEF recorderVars, Replayer!NextLine
<1>3. FileInv' /\ ReplayerInv(at)'
  BY <1>2 DEF LogInv, FileInv, ReplayerInv
<1>4. After(ran)' = After(ran)
  BY <1>2 DEF After
<1> QED  BY <1>1, <1>2, <1>3, <1>4

LEMMA RunLineStep ==
  ASSUME NEW at, LogInv(at), PrintablePrices, Replayer!RunLine, UNCHANGED recorderVars
  PROVE  LogInv(at)'
<1> DEFINE l == Replayer!NextLine
<1>1. /\ phase = "reading" /\ rPc = "idle" /\ position < Len(input)
      /\ l # Malformed /\ ~IsTrade(l) /\ Ran(l)
      /\ UNCHANGED <<input, position, ran, phase>>
  <2>1. l.tag # "TRADE"
    BY DEF Replayer!RunLine, Replayer!Reading
  <2>2. ~IsTrade(l)
    BY <2>1 DEF IsTrade
  <2> QED  BY <2>2 DEF Replayer!RunLine, Replayer!Reading, Ran
<1>2. rPc' # "idle"
  BY <1>1 DEF Ran, Replayer!Book!AddOrder, Replayer!Book!CancelOrder,
     Replayer!Book!SubmitOrder, Replayer!Book!ModifyOrder, Replayer!Book!Answer
<1>3. RFrameNow' = Called(RBookNow, l)
  <2>1. rTrades = <<>>
    BY <1>1 DEF LogInv, Followed
  <2> QED  BY <1>1, <2>1, ReplayedCall
<1>4. /\ Places(at)' /\ WrittenAhead(at)' /\ Recorded(at)' /\ FileInv' /\ ReplayerInv(at)'
      /\ log' = log /\ flushed' = flushed /\ Replayer!NextLine' = Replayer!NextLine
      /\ After(ran)' = After(ran)
  BY <1>1, StaysAtLine
<1>5. ASSUME position + 1 <= flushed
      PROVE  RBookNow = After(ran)
  <2>1. ran + 1 \in DOMAIN at
    BY <1>1, NextRequest
  <2>2. ran <= Len(completed)
    BY <2>1, LogLengths DEF LogInv, Places
  <2> QED  BY <1>1, <2>2, ReplayedIsRecorded
<1>6. position + 1 <= flushed => Leads(Called(After(ran), l), RFrameNow')
  BY <1>3, <1>5, LeadsToItself
<1>7. Followed(at)'
  BY <1>1, <1>2, <1>4, <1>6 DEF Followed
<1> QED  BY <1>4, <1>7 DEF LogInv

LEMMA ReplayMatchStep ==
  ASSUME NEW at, LogInv(at), Replayer!ReplayMatch, UNCHANGED recorderVars
  PROVE  LogInv(at)'
<1>1. rPc = "match" /\ RFrameNow' = Advanced(RFrameNow) /\ RFrameNow.pc = "match"
  BY ReplayedMatch DEF RFrameNow, Frame
<1>2. rPc' # "idle"
  BY <1>1 DEF Replayer!ReplayMatch, Replayer!Book!ConsumeMaker, Replayer!Book!ReduceMaker,
     Replayer!Book!RestRemainder, Replayer!Book!DropRemainder, Replayer!Book!Answer,
     Replayer!Book!Fill
<1>3. UNCHANGED <<input, position, ran, phase>>
  BY DEF Replayer!ReplayMatch
<1>4. /\ phase = "reading" /\ position < Len(input)
      /\ Replayer!NextLine # Malformed /\ ~IsTrade(Replayer!NextLine)
  BY <1>1 DEF LogInv, ReplayerInv
<1>5. /\ Places(at)' /\ WrittenAhead(at)' /\ Recorded(at)' /\ FileInv' /\ ReplayerInv(at)'
      /\ log' = log /\ flushed' = flushed /\ Replayer!NextLine' = Replayer!NextLine
      /\ After(ran)' = After(ran)
  BY <1>3, <1>4, StaysAtLine
<1>6. position + 1 <= flushed => Leads(Called(After(ran), Replayer!NextLine), RFrameNow')
  BY <1>1, LeadsOn DEF LogInv, Followed
<1>7. Followed(at)'
  BY <1>2, <1>3, <1>5, <1>6 DEF Followed
<1> QED  BY <1>5, <1>7 DEF LogInv

LEMMA LineDoneStep ==
  ASSUME NEW at, LogInv(at), Replayer!LineDone, UNCHANGED recorderVars
  PROVE  LogInv(at)'
<1>1. /\ rPc = "return" /\ rPc' = "idle" /\ RBookNow' = RBookNow /\ rTrades' = <<>>
      /\ position' = position + 1 /\ ran' = ran + 1 /\ UNCHANGED <<input, phase>>
  BY DEF Replayer!LineDone, Replayer!Book!Return, Replayer!Book!book, RBookNow
<1>2. /\ phase = "reading" /\ position < Len(input)
      /\ Replayer!NextLine # Malformed /\ ~IsTrade(Replayer!NextLine)
  BY <1>1 DEF LogInv, ReplayerInv
<1>3. ran + 1 \in DOMAIN at /\ at[ran + 1] = position + 1
  BY <1>2, NextRequest
<1>4. Places(at)' /\ WrittenAhead(at)' /\ Recorded(at)' /\ \A n : After(n)' = After(n)
  BY RecorderUnchanged
<1>5. log' = log /\ flushed' = flushed /\ completed' = completed
  BY DEF recorderVars
<1>6. FileInv'
  BY <1>1, <1>5 DEF LogInv, FileInv
<1>7. ReplayerInv(at)'
  <2>1. \A n \in DOMAIN at : n <= ran + 1 => at[n] <= position + 1
    BY <1>3, LogLengths DEF LogInv, ReplayerInv
  <2>2. \A n \in DOMAIN at : n > ran + 1 => at[n] > position + 1
    BY <1>3, LogLengths DEF LogInv, Places
  <2> QED  BY <1>1, <1>2, <1>3, <1>5, <2>1, <2>2, LogLengths DEF LogInv, ReplayerInv
<1>8. ASSUME at[ran + 1] <= flushed
      PROVE  Effect(After(ran), log[at[ran + 1]], RBookNow)
  <2>1. Leads(Called(After(ran), Replayer!NextLine), RFrameNow)
    BY <1>1, <1>3, <1>8 DEF LogInv, Followed
  <2>2. RFrameNow.pc # "match"
        /\ RBookNow = [levels |-> RFrameNow.levels, orderIndex |-> RFrameNow.orderIndex]
    BY <1>1 DEF RFrameNow, Frame, RBookNow
  <2>3. Replayer!NextLine = log[at[ran + 1]]
    <3>1. ~IsTrade(log[position + 1])
      <4>1. log[at[ran + 1]] \in Requests
        BY <1>3 DEF LogInv, Places
      <4>2. ~IsTrade(log[at[ran + 1]])
        BY <4>1, RequestIsNoTrade
      <4> QED  BY <1>3, <4>2
    <3>2. position + 1 \in 1 .. flushed
      BY <1>3, <1>8, LogLengths
    <3>3. input[position + 1] = log[position + 1]
      BY <1>2, <3>1, <3>2 DEF LogInv, FileInv
    <3> QED  BY <1>3, <3>3 DEF Replayer!NextLine
  <2> QED  BY <2>1, <2>2, <2>3 DEF Effect
<1>9. Followed(at)'
  <2>1. ran' - 1 = ran /\ ran' > 0
    BY <1>1, LogLengths
  <2>2. After(ran - 1)' = After(ran)
    BY <1>5, <2>1 DEF After
  <2> QED  BY <1>1, <1>5, <1>8, <2>1, <2>2 DEF Followed
<1> QED  BY <1>4, <1>6, <1>7, <1>9 DEF LogInv

\* The replay ends: compareTrades, and the exit.
LEMMA EndStep ==
  ASSUME NEW at, LogInv(at), UNCHANGED recorderVars,
         Replayer!Compare \/ Replayer!Refuse \/ Replayer!Exit
  PROVE  LogInv(at)'
<1>1. /\ UNCHANGED <<rLevels, rOrderIndex, rPc, rIncoming, rTrades, input, position, ran>>
      /\ \/ phase = "reading" /\ rPc = "idle" /\ position = Len(input) /\ phase' = "done"
         \/ phase = "closed" /\ phase' = "refused"
         \/ phase = "done" /\ phase' = "exited"
  BY DEF Replayer!Compare, Replayer!Refuse, Replayer!Exit, Replayer!bookVars
<1>2. rPc = "idle"
  BY <1>1 DEF LogInv, ReplayerInv
<1>3. Places(at)' /\ WrittenAhead(at)' /\ Recorded(at)' /\ \A n : After(n)' = After(n)
  BY RecorderUnchanged
<1>4. log' = log /\ flushed' = flushed
  BY DEF recorderVars
<1>5. FileInv'
  BY <1>1, <1>4 DEF LogInv, FileInv
<1>6. ReplayerInv(at)'
  BY <1>1, <1>2, <1>4 DEF LogInv, ReplayerInv
<1>7. Followed(at)'
  <2>1. RBookNow' = RBookNow
    BY <1>1 DEF RBookNow
  <2>2. ran > 0 => After(ran - 1)' = After(ran - 1)
    BY <1>1 DEF After, recorderVars
  <2> QED  BY <1>1, <1>2, <1>4, <2>1, <2>2 DEF LogInv, Followed
<1> QED  BY <1>3, <1>5, <1>6, <1>7 DEF LogInv

LEMMA ReplayStepKeepsInv ==
  ASSUME NEW at, LogInv(at), PrintablePrices, Replayer!ReplayStep, UNCHANGED recorderVars
  PROVE  LogInv(at)'
<1>1. CASE Replayer!SkipLine
  BY <1>1, PassLine DEF Replayer!SkipLine, Replayer!bookVars
<1>2. CASE Replayer!CollectTrade
  BY <1>2, PassLine DEF Replayer!CollectTrade, Replayer!Reading, Replayer!bookVars
<1> QED
  BY <1>1, <1>2, RunLineStep, ReplayMatchStep, LineDoneStep, EndStep DEF Replayer!ReplayStep

-----------------------------------------------------------------------------
(* The theorem.                                                            *)

LEMMA InitLogInv == Init => LogInv(<<>>)
<1> SUFFICES ASSUME Init
             PROVE  LogInv(<<>>)
  OBVIOUS
<1> USE DEF Init, RecorderInit, Replayer!ReplayInit
<1>1. Whole(<<>>) /\ Len(<<>>) = 0 /\ DOMAIN <<>> = {}
  <2>1. <<>> \in Seq({}) /\ Len(<<>>) = 0 /\ DOMAIN <<>> = {}
    OBVIOUS
  <2>2. Whole(<<>>)
    BY <2>1, SeqOverItsValues
  <2> QED  BY <2>1, <2>2
<1>2. Places(<<>>)
  BY <1>1 DEF Places, Begun
<1>3. WrittenAhead(<<>>)
  BY <1>1 DEF WrittenAhead, Begun
<1>4. Recorded(<<>>)
  BY <1>1 DEF Recorded, After, BookNow, EmptyBook, Book!Init
<1>5. FileInv
  BY DEF FileInv
<1>6. ReplayerInv(<<>>)
  BY <1>1 DEF ReplayerInv, Replayer!Book!Init
<1>7. Followed(<<>>)
  BY DEF Followed, RBookNow, EmptyBook, Replayer!Book!Init, Book!Side, Replayer!Book!Side
<1> QED  BY <1>2, <1>3, <1>4, <1>5, <1>6, <1>7 DEF LogInv

SomeLogInv == \E at : LogInv(at)

LEMMA LogInvStep ==
  ASSUME PrintablePrices, OnlyTradesDamaged, SomeLogInv, [Next]_vars
  PROVE  SomeLogInv'
<1>1. PICK at : LogInv(at)
  BY DEF SomeLogInv
<1>2. CASE Record
  BY <1>1, <1>2, RecordStep DEF SomeLogInv
<1>3. CASE OpenFile
  BY <1>1, <1>3, OpenFileStep DEF SomeLogInv
<1>4. CASE Replayer!ReplayStep /\ UNCHANGED recorderVars
  BY <1>1, <1>4, ReplayStepKeepsInv DEF SomeLogInv
<1>5. CASE UNCHANGED vars
  <2>1. UNCHANGED recorderVars /\ UNCHANGED replayVars
    BY <1>5 DEF vars
  <2>2. flushed' = flushed /\ log' = log /\ completed' = completed
    BY <2>1 DEF recorderVars
  <2> QED  BY <1>1, <2>1, <2>2, RecorderUnchanged, ReplayUnchanged DEF SomeLogInv, LogInv
<1> QED  BY <1>2, <1>3, <1>4, <1>5 DEF Next

\* Whatever the requests, the takers and the makers they meet, and wherever the
\* file was cut: after n requests the replayed book is the recorded book after n
\* calls.
THEOREM ReplayAlwaysFollows ==
  ASSUME PrintablePrices, OnlyTradesDamaged
  PROVE  Spec => []ReplayFollowsRecording
<1>1. Init => SomeLogInv
  BY InitLogInv DEF SomeLogInv
<1>2. SomeLogInv /\ [Next]_vars => SomeLogInv'
  BY LogInvStep
<1>3. SomeLogInv => ReplayFollowsRecording
  BY LogInvMeans DEF SomeLogInv
<1> QED  BY <1>1, <1>2, <1>3, PTL DEF Spec

\* No call whose effects the recorded book has is missing from the file, and when
\* the recorder finishes its call the two books are the same.
THEOREM CrashesLoseNothing ==
  ASSUME PrintablePrices, OnlyTradesDamaged
  PROVE  Spec => []CrashLosesNothing
<1>1. Init => SomeLogInv
  BY InitLogInv DEF SomeLogInv
<1>2. SomeLogInv /\ [Next]_vars => SomeLogInv'
  BY LogInvStep
<1>3. SomeLogInv => CrashLosesNothing
  BY LogInvMeans DEF SomeLogInv
<1> QED  BY <1>1, <1>2, <1>3, PTL DEF Spec

-----------------------------------------------------------------------------
(* Types, whatever the prices and the damage.                              *)

\* The recorder's half of the types: the log is a sequence, and the request in
\* progress is a request.
RecorderTypes ==
  /\ stage \in {"idle", "writing", "logged", "calling", "trades"}
  /\ pc \in {"idle", "match", "return"} /\ (pc # "idle" => stage = "calling")
  /\ Whole(log) /\ Whole(completed)
  /\ flushed \in 0 .. Len(log)
  /\ stage \in {"idle", "logged", "calling"} => flushed = Len(log)
  /\ Len(completed) = Requested(log, Len(log))
                        - (IF stage \in {"writing", "logged", "calling"} THEN 1 ELSE 0)
  /\ stage \in {"writing", "logged", "calling"} => request \in Requests

\* The replay's half: the line it runs is a request.
ReplayTypes ==
  /\ phase \in {"closed", "reading", "done", "exited", "refused"}
  /\ rPc \in {"idle", "match", "return"} /\ (rPc # "idle" => phase = "reading")
  /\ Whole(input) /\ Whole(replayed) /\ Whole(logged) /\ Whole(rTrades)
  /\ position \in 0 .. Len(input)
  /\ phase \in {"closed", "refused"} => position = 0
  /\ ran = Requested(input, position)
  /\ Len(logged) <= position - ran
  /\ mismatches \in 0 .. Len(replayed) + Len(logged)
  /\ rPc # "idle" => /\ position < Len(input)
                     /\ Replayer!NextLine # Malformed /\ Replayer!NextLine.tag # "TRADE"

LogTypeInv == RecorderTypes /\ ReplayTypes

LEMMA PlacesAreFew ==
  ASSUME NEW n \in Nat, NEW S \in SUBSET (1 .. n)
  PROVE  IsFiniteSet(S) /\ Cardinality(S) \in 0 .. n
<1> DEFINE I == 1 .. n
<1>1. IsFiniteSet(I) /\ Cardinality(I) = n /\ S \in SUBSET I
  BY FS_Interval
<1> HIDE DEF I
<1>2. IsFiniteSet(S) /\ Cardinality(S) <= n
  BY <1>1, FS_Subset
<1>3. Cardinality(S) \in Nat
  BY <1>2, FS_CardinalityType
<1> QED  BY <1>2, <1>3

LEMMA RequestedCounts ==
  ASSUME NEW lines, NEW n \in Nat
  PROVE  /\ Requested(lines, n) \in 0 .. n
         /\ Requested(lines, n + 1) =
              Requested(lines, n)
                + (IF lines[n + 1] # Malformed /\ lines[n + 1].tag # "TRADE" THEN 1 ELSE 0)
<1> DEFINE R(m) == {i \in 1 .. m : lines[i] # Malformed /\ lines[i].tag # "TRADE"}
<1>1. IsFiniteSet(R(n)) /\ Cardinality(R(n)) \in 0 .. n
  <2> DEFINE S == R(n)
  <2>1. S \in SUBSET (1 .. n)
    OBVIOUS
  <2> HIDE DEF S
  <2>2. IsFiniteSet(S) /\ Cardinality(S) \in 0 .. n
    BY <2>1, PlacesAreFew
  <2> QED  BY <2>2 DEF S
<1>2. Requested(lines, n) \in 0 .. n
  BY <1>1 DEF Requested
<1>3. CASE lines[n + 1] # Malformed /\ lines[n + 1].tag # "TRADE"
  <2>1. R(n + 1) = R(n) \cup {n + 1} /\ n + 1 \notin R(n)
    BY <1>3
  <2> HIDE DEF R
  <2>2. Cardinality(R(n + 1)) = Cardinality(R(n)) + 1
    BY <1>1, <2>1, FS_AddElement
  <2>3. Requested(lines, n + 1) = Requested(lines, n) + 1
    BY <2>2 DEF Requested, R
  <2> QED  BY <1>2, <1>3, <2>3
<1>4. CASE ~(lines[n + 1] # Malformed /\ lines[n + 1].tag # "TRADE")
  <2>1. Requested(lines, n + 1) = Requested(lines, n) /\ Requested(lines, n) \in Nat
    <3>1. R(n + 1) = R(n)
      BY <1>4
    <3> QED  BY <1>1, <3>1 DEF Requested
  <2> QED  BY <1>2, <1>4, <2>1
<1> QED  BY <1>3, <1>4

\* Only the first n lines count.
LEMMA RequestedSame ==
  ASSUME NEW lines, NEW more, NEW n \in Nat, \A i \in 1 .. n : more[i] = lines[i]
  PROVE  Requested(more, n) = Requested(lines, n)
<1>1. {i \in 1 .. n : more[i] # Malformed /\ more[i].tag # "TRADE"}
        = {i \in 1 .. n : lines[i] # Malformed /\ lines[i].tag # "TRADE"}
  OBVIOUS
<1> QED  BY <1>1 DEF Requested

LEMMA RequestedOfAppend ==
  ASSUME NEW lines, Whole(lines), NEW l
  PROVE  Requested(Append(lines, l), Len(Append(lines, l))) =
           Requested(lines, Len(lines)) + (IF l # Malformed /\ l.tag # "TRADE" THEN 1 ELSE 0)
<1> DEFINE more == Append(lines, l)
<1>1. /\ Len(lines) \in Nat /\ Len(more) = Len(lines) + 1 /\ more[Len(lines) + 1] = l
      /\ \A i \in 1 .. Len(lines) : more[i] = lines[i]
  BY AppendWhole, WholeHasLength
<1> HIDE DEF more
<1>2. Requested(more, Len(lines)) = Requested(lines, Len(lines))
  BY <1>1, RequestedSame
<1>3. Requested(more, Len(lines) + 1) =
        Requested(more, Len(lines)) + (IF l # Malformed /\ l.tag # "TRADE" THEN 1 ELSE 0)
  BY <1>1, RequestedCounts
<1> QED  BY <1>1, <1>2, <1>3 DEF more

LEMMA ConcatWhole ==
  ASSUME NEW s, Whole(s), NEW t, Whole(t)
  PROVE  /\ Whole(s \o t) /\ Len(s \o t) = Len(s) + Len(t)
         /\ \A i \in 1 .. Len(s) : (s \o t)[i] = s[i]
         /\ \A i \in 1 .. Len(t) : (s \o t)[Len(s) + i] = t[i]
<1> DEFINE T == {s[i] : i \in DOMAIN s} \cup {t[i] : i \in DOMAIN t}
<1>1. s \in Seq(T) /\ t \in Seq(T)
  <2>1. {s[i] : i \in DOMAIN s} \subseteq T /\ {t[i] : i \in DOMAIN t} \subseteq T
    OBVIOUS
  <2>2. \A A, B : A \subseteq B => Seq(A) \subseteq Seq(B)
    OBVIOUS
  <2> HIDE DEF T
  <2> QED  BY <2>1, <2>2 DEF Whole
<1> HIDE DEF T
<1>2. /\ s \o t \in Seq(T) /\ Len(s \o t) = Len(s) + Len(t)
      /\ \A i \in 1 .. Len(s) : (s \o t)[i] = s[i]
      /\ \A i \in 1 .. Len(t) : (s \o t)[Len(s) + i] = t[i]
  BY <1>1
<1> QED  BY <1>2, SeqOverItsValues

LEMMA EmptyWhole == Whole(<<>>) /\ Len(<<>>) = 0
<1>1. <<>> \in Seq({}) /\ Len(<<>>) = 0
  OBVIOUS
<1> QED  BY <1>1, SeqOverItsValues

LEMMA LogTypesMeant == LogTypeInv => TypeOK
BY DEF LogTypeInv, RecorderTypes, ReplayTypes, TypeOK

LEMMA LineIsRequest ==
  ASSUME NEW r \in Requests
  PROVE  Line(r) # Malformed /\ Line(r).tag # "TRADE"
<1>1. CASE r \in [tag : {"ADD", "SUBMIT"}, order : Book!NewOrders]
  BY <1>1, MalformedAssumption DEF Line
<1>2. CASE r \in [tag : {"CANCEL"}, id : Ids]
  BY <1>2, MalformedAssumption DEF Line
<1>3. CASE r \in [tag : {"MODIFY"}, id : Ids, price : Prices, quantity : Quantities]
  BY <1>3, MalformedAssumption DEF Line
<1> QED  BY <1>1, <1>2, <1>3, RequestsAssumption

LEMMA InitLogTypeInv == Init => LogTypeInv
<1> SUFFICES ASSUME Init
             PROVE  LogTypeInv
  OBVIOUS
<1>1. \A s : Requested(s, 0) = 0
  <2>1. \A s : {i \in 1 .. 0 : s[i] # Malformed /\ s[i].tag # "TRADE"} = {}
    OBVIOUS
  <2> QED  BY <2>1, FS_EmptySet DEF Requested
<1>2. RecorderTypes
  BY <1>1, EmptyWhole DEF Init, RecorderInit, Book!Init, RecorderTypes
<1>3. ReplayTypes
  BY <1>1, EmptyWhole DEF Init, Replayer!ReplayInit, Replayer!Book!Init, ReplayTypes
<1> QED  BY <1>2, <1>3 DEF LogTypeInv

\* The recorder's steps.
LEMMA RecordTypes ==
  ASSUME RecorderTypes, Record
  PROVE  RecorderTypes'
<1> USE DEF RecorderTypes
<1>1. Len(log) \in Nat /\ Len(completed) \in Nat
  BY WholeHasLength
<1>2. CASE Delegate
  <2>1. pc' \in {"match", "return"}
    BY <1>2 DEF Delegate, Perform, Book!AddOrder, Book!CancelOrder, Book!SubmitOrder,
       Book!ModifyOrder, Book!Answer
  <2> QED  BY <1>2, <2>1 DEF Delegate
<1>3. CASE Match
  <2>1. pc = "match" /\ pc' \in {"match", "return"}
    BY <1>3 DEF Match, Book!ConsumeMaker, Book!ReduceMaker, Book!RestRemainder,
       Book!DropRemainder, Book!Answer, Book!Fill
  <2> QED  BY <1>3, <2>1 DEF Match
<1>4. CASE CallReturns
  <2>1. /\ stage = "calling" /\ stage' \in {"idle", "trades"} /\ pc' = "idle"
        /\ log' = log /\ flushed' = flushed /\ request' = request
        /\ completed' = Append(completed, BookNow)
    BY <1>4 DEF CallReturns, Book!Return, BookNow
  <2>2. Whole(completed') /\ Len(completed') = Len(completed) + 1
    BY <2>1, AppendWhole
  <2>3. Requested(log, Len(log)) \in Nat
    BY <1>1, RequestedCounts
  <2> QED  BY <1>1, <2>1, <2>2, <2>3
<1>5. CASE LogTrade
  <2> DEFINE l == TradeLine(Head(unlogged))
  <2>1. /\ stage = "trades" /\ stage' = "trades" /\ pc' = pc /\ flushed' = flushed
        /\ completed' = completed /\ log' = Append(log, l) /\ l.tag = "TRADE"
    BY <1>5 DEF LogTrade, TradeLine, bookVars
  <2> HIDE DEF l
  <2>2. Whole(log') /\ Len(log') = Len(log) + 1
        /\ Requested(log', Len(log')) = Requested(log, Len(log)) + 0
    BY <2>1, AppendWhole, RequestedOfAppend
  <2>3. Requested(log, Len(log)) \in Nat
    BY <1>1, RequestedCounts
  <2> QED  BY <1>1, <2>1, <2>2, <2>3
<1>6. CASE FlushTrades
  BY <1>1, <1>6 DEF FlushTrades, bookVars
<1>7. CASE FlushRequest
  BY <1>1, <1>7 DEF FlushRequest, bookVars
<1>8. ASSUME NEW r \in Requests, WriteRequest(r)
      PROVE  RecorderTypes'
  <2> DEFINE l == Line(r)
  <2>1. /\ stage = "idle" /\ stage' = "writing" /\ pc' = pc /\ flushed' = flushed
        /\ completed' = completed /\ log' = Append(log, l) /\ request' = r
        /\ l # Malformed /\ l.tag # "TRADE"
    BY <1>8, LineIsRequest DEF WriteRequest, bookVars
  <2> HIDE DEF l
  <2>2. Whole(log') /\ Len(log') = Len(log) + 1
        /\ Requested(log', Len(log')) = Requested(log, Len(log)) + 1
    BY <2>1, AppendWhole, RequestedOfAppend
  <2>3. Requested(log, Len(log)) \in Nat
    BY <1>1, RequestedCounts
  <2> QED  BY <1>1, <2>1, <2>2, <2>3
<1> QED  BY <1>2, <1>3, <1>4, <1>5, <1>6, <1>7, <1>8 DEF Record, FinishCall

\* The mismatches are places of one of the lists.
LEMMA DifferencesAreFew ==
  ASSUME Whole(replayed), Whole(logged)
  PROVE  /\ IsFiniteSet(Replayer!Differences)
         /\ Cardinality(Replayer!Differences) \in 0 .. Len(replayed) + Len(logged)
<1>1. /\ Len(replayed) \in Nat /\ DOMAIN replayed = 1 .. Len(replayed)
      /\ Len(logged) \in Nat /\ DOMAIN logged = 1 .. Len(logged)
  BY WholeHasLength
<1> DEFINE n == Len(replayed) + Len(logged)
<1>2. Replayer!Differences \in SUBSET (1 .. n)
  BY <1>1 DEF Replayer!Differences
<1>3. n \in Nat
  BY <1>1
<1> HIDE DEF n
<1>4. IsFiniteSet(Replayer!Differences) /\ Cardinality(Replayer!Differences) \in 0 .. n
  BY <1>2, <1>3, PlacesAreFew
<1> QED  BY <1>4 DEF n

\* The trades of a call are a sequence.
LEMMA ReplayTradesWhole ==
  ASSUME Whole(rTrades),
         Replayer!RunLine \/ Replayer!ReplayMatch \/ Replayer!Book!Return
  PROVE  Whole(rTrades')
<1>1. \A t : Whole(Append(rTrades, t))
  BY AppendWhole
<1>2. CASE Replayer!RunLine
  <2>1. rTrades' = rTrades
    BY <1>2 DEF Replayer!RunLine, Replayer!Book!AddOrder, Replayer!Book!CancelOrder,
       Replayer!Book!SubmitOrder, Replayer!Book!ModifyOrder, Replayer!Book!NoMatching
  <2> QED  BY <2>1
<1>3. CASE Replayer!ReplayMatch
  BY <1>1, <1>3 DEF Replayer!ReplayMatch, Replayer!Book!ConsumeMaker, Replayer!Book!ReduceMaker,
     Replayer!Book!RestRemainder, Replayer!Book!DropRemainder, Replayer!Book!NoMatching,
     Replayer!Book!Fill
<1>4. CASE Replayer!Book!Return
  BY <1>4, EmptyWhole DEF Replayer!Book!Return
<1> QED  BY <1>2, <1>3, <1>4

LEMMA ReplayStepTypes ==
  ASSUME ReplayTypes, Replayer!ReplayStep
  PROVE  ReplayTypes'
<1> USE DEF ReplayTypes
<1>1. /\ Len(input) \in Nat /\ Len(logged) \in Nat /\ Len(replayed) \in Nat
      /\ position \in Nat /\ position <= Len(input)
      /\ ran \in Nat /\ mismatches \in Nat
  BY WholeHasLength, RequestedCounts
<1>2. Requested(input, position + 1) =
        ran + (IF Replayer!NextLine # Malformed /\ Replayer!NextLine.tag # "TRADE"
               THEN 1 ELSE 0)
  BY <1>1, RequestedCounts DEF Replayer!NextLine
<1>3. CASE Replayer!SkipLine
  BY <1>1, <1>2, <1>3 DEF Replayer!SkipLine, Replayer!bookVars
<1>4. CASE Replayer!CollectTrade
  <2>1. Whole(logged') /\ Len(logged') = Len(logged) + 1
    BY <1>4, AppendWhole DEF Replayer!CollectTrade
  <2> QED
    BY <1>1, <1>2, <1>4, <2>1 DEF Replayer!CollectTrade, Replayer!Reading, Replayer!bookVars
<1>5. CASE Replayer!RunLine
  <2>1. rPc' \in {"match", "return"}
    BY <1>5 DEF Replayer!RunLine, Replayer!Book!AddOrder, Replayer!Book!CancelOrder,
       Replayer!Book!SubmitOrder, Replayer!Book!ModifyOrder, Replayer!Book!Answer
  <2>2. Whole(rTrades')
    BY <1>5, ReplayTradesWhole
  <2>3. /\ phase = "reading" /\ position < Len(input)
        /\ Replayer!NextLine # Malformed /\ Replayer!NextLine.tag # "TRADE"
        /\ UNCHANGED <<input, position, ran, replayed, logged, mismatches, phase, exit>>
    BY <1>5 DEF Replayer!RunLine, Replayer!Reading
  <2>4. Replayer!NextLine' = Replayer!NextLine
    BY <2>3 DEF Replayer!NextLine
  <2> QED  BY <2>1, <2>2, <2>3, <2>4
<1>6. CASE Replayer!ReplayMatch
  <2>1. rPc = "match" /\ rPc' \in {"match", "return"}
    BY <1>6 DEF Replayer!ReplayMatch, Replayer!Book!ConsumeMaker, Replayer!Book!ReduceMaker,
       Replayer!Book!RestRemainder, Replayer!Book!DropRemainder, Replayer!Book!Answer,
       Replayer!Book!Fill
  <2>2. Whole(rTrades')
    BY <1>6, ReplayTradesWhole
  <2>3. UNCHANGED <<input, position, ran, replayed, logged, mismatches, phase, exit>>
    BY <1>6 DEF Replayer!ReplayMatch
  <2>4. Replayer!NextLine' = Replayer!NextLine
    BY <2>3 DEF Replayer!NextLine
  <2> QED  BY <2>1, <2>2, <2>3, <2>4
<1>7. CASE Replayer!LineDone
  <2>1. rPc = "return" /\ rPc' = "idle" /\ Whole(rTrades')
    BY <1>7, ReplayTradesWhole DEF Replayer!LineDone, Replayer!Book!Return
  <2>2. Whole(replayed') /\ Len(replayed') = Len(replayed) + Len(rTrades) /\ Len(rTrades) \in Nat
    BY <1>7, ConcatWhole, WholeHasLength DEF Replayer!LineDone
  <2> QED  BY <1>1, <1>2, <1>7, <2>1, <2>2 DEF Replayer!LineDone
<1>8. CASE Replayer!Compare
  <2>1. mismatches' \in 0 .. Len(replayed) + Len(logged)
    BY <1>8, DifferencesAreFew DEF Replayer!Compare, Replayer!Cardinality, Cardinality
  <2> QED  BY <1>1, <1>8, <2>1 DEF Replayer!Compare, Replayer!bookVars
<1>9. CASE Replayer!Refuse \/ Replayer!Exit
  BY <1>1, <1>9 DEF Replayer!Refuse, Replayer!Exit, Replayer!bookVars
<1> QED  BY <1>3, <1>4, <1>5, <1>6, <1>7, <1>8, <1>9 DEF Replayer!ReplayStep

LEMMA OpenFileTypes ==
  ASSUME LogTypeInv, OpenFile
  PROVE  ReplayTypes'
<1>1. PICK lines \in Saved : \E D \in Damages(lines) :
        Replayer!Open([i \in DOMAIN lines |-> IF i \in D THEN Malformed ELSE lines[i]])
  BY DEF OpenFile
<1>2. PICK D \in Damages(lines) :
        Replayer!Open([i \in DOMAIN lines |-> IF i \in D THEN Malformed ELSE lines[i]])
  BY <1>1
<1>3. Whole(lines)
  BY SavedLines DEF LogTypeInv, RecorderTypes
<1>4. Len(lines) \in Nat /\ DOMAIN lines = 1 .. Len(lines)
  BY <1>3, WholeHasLength
<1>5. input' = [i \in 1 .. Len(lines) |-> IF i \in D THEN Malformed ELSE lines[i]]
  BY <1>2, <1>4 DEF Replayer!Open
<1>6. Whole(input') /\ Len(input') \in Nat
  BY <1>4, <1>5, WholeFunction
<1>7. position = 0 /\ rPc = "idle"
  BY <1>2 DEF LogTypeInv, ReplayTypes, Replayer!Open
<1>8. Requested(input', 0) = Requested(input, 0)
  BY RequestedSame
<1> QED
  BY <1>2, <1>6, <1>7, <1>8 DEF LogTypeInv, ReplayTypes, Replayer!Open, Replayer!bookVars

LEMMA LogTypeInvStep ==
  ASSUME LogTypeInv, [Next]_vars
  PROVE  LogTypeInv'
<1>1. ASSUME UNCHANGED recorderVars
      PROVE  RecorderTypes'
  BY <1>1 DEF LogTypeInv, RecorderTypes, recorderVars, bookVars
<1>2. ASSUME UNCHANGED replayVars
      PROVE  ReplayTypes'
  BY <1>2 DEF LogTypeInv, ReplayTypes, replayVars, Replayer!NextLine
<1>3. CASE Record
  BY <1>2, <1>3, RecordTypes DEF LogTypeInv, Record
<1>4. CASE OpenFile
  BY <1>1, <1>4, OpenFileTypes DEF LogTypeInv, OpenFile
<1>5. CASE Replayer!ReplayStep /\ UNCHANGED recorderVars
  BY <1>1, <1>5, ReplayStepTypes DEF LogTypeInv
<1>6. CASE UNCHANGED vars
  BY <1>1, <1>2, <1>6 DEF LogTypeInv, vars
<1> QED  BY <1>3, <1>4, <1>5, <1>6 DEF Next

\* Whatever is recorded, wherever the file is cut and whatever is damaged: the log
\* has a request for each call, and the counts of the replay are those of the lines
\* it is done with.
THEOREM LogTypeCorrect == Spec => []TypeOK
BY InitLogTypeInv, LogTypeInvStep, LogTypesMeant, PTL DEF Spec

-----------------------------------------------------------------------------
(* The recorded book is the book of OrderBook.                             *)

LEMMA RecorderStepsBook ==
  ASSUME LogTypeInv, [Next]_vars
  PROVE  [Book!Next]_(Book!vars)
<1>1. UNCHANGED bookVars => UNCHANGED Book!vars
  BY DEF bookVars, Book!vars
<1>2. ASSUME Delegate
      PROVE  Book!Next
  <2>1. request \in Requests /\ Perform(request)
    BY <1>2 DEF LogTypeInv, RecorderTypes, Delegate
  <2> QED  BY <2>1, RequestsAssumption DEF Perform, Book!Next, Book!Call
<1>3. ASSUME Match \/ CallReturns
      PROVE  Book!Next
  BY <1>3 DEF Match, CallReturns, Book!Next, Book!Run
<1>4. ASSUME LogTrade \/ FlushTrades \/ FlushRequest \/ \E r \in Requests : WriteRequest(r)
      PROVE  UNCHANGED Book!vars
  BY <1>1, <1>4 DEF LogTrade, FlushTrades, FlushRequest, WriteRequest
<1>5. ASSUME UNCHANGED recorderVars
      PROVE  UNCHANGED Book!vars
  BY <1>1, <1>5 DEF recorderVars
<1> QED
  BY <1>2, <1>3, <1>4, <1>5 DEF Next, Record, FinishCall, OpenFile, vars

\* What is recorded does not change what the book does: the recorder's book is the
\* book of OrderBook with one caller that follows no convention.
THEOREM RecorderRunsBook == Spec => Book!Spec
<1>1. Init => Book!Init
  BY DEF Init, RecorderInit
<1> QED  BY <1>1, InitLogTypeInv, LogTypeInvStep, RecorderStepsBook, PTL DEF Spec, Book!Spec

LEMMA BookAssumptions ==
  /\ BookProofs!PricesAssumption /\ BookProofs!QuantitiesAssumption
  /\ BookProofs!NoOrderAssumption /\ BookProofs!DisciplineAssumption
BY BookAssumption
DEF Book!PricesAssumption, BookProofs!PricesAssumption, Book!QuantitiesAssumption,
    BookProofs!QuantitiesAssumption, Book!NoOrderAssumption, BookProofs!NoOrderAssumption,
    BookProofs!DisciplineAssumption, Book!Uint64, BookProofs!Uint64, Book!Order,
    BookProofs!Order, Book!Side, BookProofs!Side, Book!OrderType, BookProofs!OrderType

\* The two instances of the book say the same.
LEMMA SameBookContainers ==
  /\ \A s : Book!Best(s) = BookProofs!Best(s)
  /\ \A map, p : Book!Level(map, p) = BookProofs!Level(map, p)
  /\ \A map, p, q : Book!SetLevel(map, p, q) = BookProofs!SetLevel(map, p, q)
  /\ \A q, id : Book!HasId(q, id) = BookProofs!HasId(q, id)
  /\ \A q, id : Book!FindId(q, id) = BookProofs!FindId(q, id)
  /\ \A q, id : Book!EraseId(q, id) = BookProofs!EraseId(q, id)
  /\ \A id : Book!WithoutId(id) = BookProofs!WithoutId(id)
  /\ \A s : Book!Opposite(s) = BookProofs!Opposite(s)
  /\ \A s, p, q : Book!Crosses(s, p, q) <=> BookProofs!Crosses(s, p, q)
<1>1. \A s : Book!Best(s) = BookProofs!Best(s)
  BY DEF Book!Best, BookProofs!Best, Book!Better, BookProofs!Better
<1>2. \A q, id : Book!FindId(q, id) = BookProofs!FindId(q, id)
  BY DEF Book!FindId, BookProofs!FindId
<1>3. \A q, id : Book!EraseId(q, id) = BookProofs!EraseId(q, id)
  BY <1>2 DEF Book!EraseId, BookProofs!EraseId
<1>4. \A map, p, q : Book!SetLevel(map, p, q) = BookProofs!SetLevel(map, p, q)
  BY DEF Book!SetLevel, BookProofs!SetLevel
<1>5. \A id : Book!WithoutId(id) = BookProofs!WithoutId(id)
  BY DEF Book!WithoutId, BookProofs!WithoutId
<1> QED
  BY <1>1, <1>2, <1>3, <1>4, <1>5
  DEF Book!Level, BookProofs!Level, Book!HasId, BookProofs!HasId,
      Book!Crosses, BookProofs!Crosses, Book!Opposite, BookProofs!Opposite

\* The sums of the preview included.
LEMMA SameBookPreview ==
  /\ \A s, S : Book!Total(s, S) = BookProofs!Total(s, S)
  /\ \A s : Book!Slots(s) = BookProofs!Slots(s)
  /\ \A o : Book!Refused(o) <=> BookProofs!Refused(o)
<1>1. \A s, S : Book!Total(s, S) = BookProofs!Total(s, S)
  BY DEF Book!Total, BookProofs!Total, Book!At, BookProofs!At, Book!MapThenSumSet,
     BookProofs!MapThenSumSet, Book!MapThenFoldSet, BookProofs!MapThenFoldSet
<1>2. \A s : Book!Slots(s) = BookProofs!Slots(s)
  BY DEF Book!Slots, BookProofs!Slots
<1>3. \A s, x : Book!UpTo(s, x) = BookProofs!UpTo(s, x)
  BY <1>2 DEF Book!UpTo, BookProofs!UpTo, Book!Better, BookProofs!Better
<1>4. \A o : Book!CanFullyFill(o) <=> BookProofs!CanFullyFill(o)
  BY <1>1, <1>2, <1>3, SameBookContainers DEF Book!CanFullyFill, BookProofs!CanFullyFill
<1> QED  BY <1>1, <1>2, <1>4 DEF Book!Refused, BookProofs!Refused

LEMMA SameBookEffects ==
  /\ \A o : Book!PushBack(o) <=> BookProofs!PushBack(o)
  /\ \A id : Book!Erase(id) <=> BookProofs!Erase(id)
  /\ \A id : Book!Located(id) <=> BookProofs!Located(id)
  /\ \A id, q : Book!ModifyInPlace(id, q) <=> BookProofs!ModifyInPlace(id, q)
<1>1. \A o : Book!PushBack(o) <=> BookProofs!PushBack(o)
  BY SameBookContainers DEF Book!PushBack, BookProofs!PushBack
<1>2. \A id : Book!Erase(id) <=> BookProofs!Erase(id)
  BY SameBookContainers DEF Book!Erase, BookProofs!Erase
<1>3. \A id : Book!Located(id) <=> BookProofs!Located(id)
  BY SameBookContainers DEF Book!Located, BookProofs!Located
<1>4. \A id, q : Book!ModifyInPlace(id, q) <=> BookProofs!ModifyInPlace(id, q)
  BY SameBookContainers DEF Book!ModifyInPlace, BookProofs!ModifyInPlace
<1> QED  BY <1>1, <1>2, <1>3, <1>4

LEMMA SameBookCalls ==
  /\ \A o : Book!AddOrder(o) <=> BookProofs!AddOrder(o)
  /\ \A o : Book!SubmitOrder(o) <=> BookProofs!SubmitOrder(o)
  /\ \A id : Book!CancelOrder(id) <=> BookProofs!CancelOrder(id)
  /\ \A id, p, q : Book!ModifyOrder(id, p, q) <=> BookProofs!ModifyOrder(id, p, q)
<1>1. \A o : Book!AddOrder(o) <=> BookProofs!AddOrder(o)
  BY SameBookEffects
  DEF Book!AddOrder, BookProofs!AddOrder, Book!Addable, BookProofs!Addable, Book!Fresh,
      BookProofs!Fresh, Book!Answer, BookProofs!Answer, Book!NoMatching, BookProofs!NoMatching
<1>2. \A o : Book!SubmitOrder(o) <=> BookProofs!SubmitOrder(o)
  BY SameBookPreview
  DEF Book!SubmitOrder, BookProofs!SubmitOrder, Book!Fresh, BookProofs!Fresh,
      Book!Answer, BookProofs!Answer
<1>3. \A id : Book!CancelOrder(id) <=> BookProofs!CancelOrder(id)
  BY SameBookEffects
  DEF Book!CancelOrder, BookProofs!CancelOrder, Book!Answer, BookProofs!Answer,
      Book!NoMatching, BookProofs!NoMatching, Book!book, BookProofs!book
<1>4. ASSUME NEW id, NEW p, NEW q
      PROVE  Book!ModifyOrder(id, p, q) <=> BookProofs!ModifyOrder(id, p, q)
  <2> DEFINE deque == levels[orderIndex[id].side][orderIndex[id].price]
             keeps == Book!KeepsPlace(deque[Book!FindId(deque, id)], p, q)
  <2>1. keeps <=> BookProofs!KeepsPlace(deque[BookProofs!FindId(deque, id)], p, q)
    BY SameBookContainers DEF Book!KeepsPlace, BookProofs!KeepsPlace
  <2> HIDE DEF keeps
  <2>2. Book!ModifyOrder(id, p, q) <=>
          /\ pc = "idle"
          /\ \/ ~Book!Located(id)
                /\ UNCHANGED Book!book /\ Book!Answer("absent") /\ Book!NoMatching
             \/ /\ Book!Located(id) /\ q = 0
                /\ Book!Erase(id) /\ Book!Answer("ok") /\ Book!NoMatching
             \/ /\ Book!Located(id) /\ q > 0 /\ keeps
                /\ Book!ModifyInPlace(id, q)
                /\ Book!Answer("ok") /\ Book!NoMatching /\ UNCHANGED orderIndex
             \/ /\ Book!Located(id) /\ q > 0 /\ ~keeps
                /\ Book!Erase(id)
                /\ incoming' = [id |-> id, side |-> orderIndex[id].side, price |-> p,
                                quantity |-> q, type |-> "LIMIT"]
                /\ pc' = "match"
                /\ UNCHANGED <<trades, result>>
    BY DEF Book!ModifyOrder, keeps
  <2> QED
    BY <2>1, <2>2, SameBookEffects
    DEF BookProofs!ModifyOrder, Book!Answer, BookProofs!Answer,
        Book!NoMatching, BookProofs!NoMatching, Book!book, BookProofs!book
<1> QED  BY <1>1, <1>2, <1>3, <1>4

LEMMA SameBookRun == Book!Run <=> BookProofs!Run
<1>1. /\ Book!MakerSide = BookProofs!MakerSide /\ Book!Maker = BookProofs!Maker
      /\ Book!LoopCondition <=> BookProofs!LoopCondition
      /\ Book!MakerFilled <=> BookProofs!MakerFilled
  BY SameBookContainers
  DEF Book!MakerSide, BookProofs!MakerSide, Book!Maker, BookProofs!Maker,
      Book!LoopCondition, BookProofs!LoopCondition, Book!MakerFilled, BookProofs!MakerFilled,
      Book!SkipsPriceCheck, BookProofs!SkipsPriceCheck
<1>2. \A n : Book!Fill(n) <=> BookProofs!Fill(n)
  BY <1>1 DEF Book!Fill, BookProofs!Fill
<1>3. Book!ConsumeMaker <=> BookProofs!ConsumeMaker
  BY <1>1, <1>2, SameBookContainers DEF Book!ConsumeMaker, BookProofs!ConsumeMaker
<1>4. Book!ReduceMaker <=> BookProofs!ReduceMaker
  BY <1>1, <1>2, SameBookContainers DEF Book!ReduceMaker, BookProofs!ReduceMaker
<1>5. Book!RestRemainder <=> BookProofs!RestRemainder
  BY <1>1, SameBookEffects
  DEF Book!RestRemainder, BookProofs!RestRemainder, Book!NeverRests, BookProofs!NeverRests,
      Book!Answer, BookProofs!Answer, Book!NoMatching, BookProofs!NoMatching
<1>6. Book!DropRemainder <=> BookProofs!DropRemainder
  BY <1>1
  DEF Book!DropRemainder, BookProofs!DropRemainder, Book!NeverRests, BookProofs!NeverRests,
      Book!Answer, BookProofs!Answer, Book!NoMatching, BookProofs!NoMatching,
      Book!book, BookProofs!book
<1>7. Book!Return <=> BookProofs!Return
  BY DEF Book!Return, BookProofs!Return, Book!book, BookProofs!book
<1> QED  BY <1>3, <1>4, <1>5, <1>6, <1>7 DEF Book!Run, BookProofs!Run

LEMMA SameBookNext ==
  /\ Book!Init <=> BookProofs!Init
  /\ [Book!Next]_(Book!vars) <=> [BookProofs!Next]_(BookProofs!vars)
<1>1. Book!NewOrders = BookProofs!NewOrders
  BY DEF Book!NewOrders, BookProofs!NewOrders, Book!Side, BookProofs!Side,
     Book!OrderType, BookProofs!OrderType
<1>2. Book!Call <=> BookProofs!Call
  BY <1>1, SameBookCalls DEF Book!Call, BookProofs!Call
<1>3. UNCHANGED Book!vars <=> UNCHANGED BookProofs!vars
  BY DEF Book!vars, BookProofs!vars
<1>4. Book!Init <=> BookProofs!Init
  BY DEF Book!Init, BookProofs!Init, Book!Side, BookProofs!Side
<1> QED  BY <1>2, <1>3, <1>4, SameBookRun DEF Book!Next, BookProofs!Next

LEMMA RecordedBookTypes == Spec => []Book!TypeOK
<1>1. BookProofs!Spec => []BookProofs!TypeOK
  BY BookAssumptions, BookProofs!TypeCorrectForAnyCaller
<1>2. BookProofs!TypeOK => Book!TypeOK
  BY DEF Book!TypeOK, BookProofs!TypeOK, Book!BookTypeOK, BookProofs!BookTypeOK,
     Book!IsBookMap, BookProofs!IsBookMap, Book!IsIndex, BookProofs!IsIndex,
     Book!Order, BookProofs!Order, Book!Trade, BookProofs!Trade,
     Book!Location, BookProofs!Location, Book!Side, BookProofs!Side,
     Book!OrderType, BookProofs!OrderType, Book!Uint64, BookProofs!Uint64
<1> QED
  BY <1>1, <1>2, SameBookNext, RecorderRunsBook, PTL DEF Book!Spec, BookProofs!Spec

-----------------------------------------------------------------------------
(* The trades.                                                             *)

\* A call of request r on book b leaves book c and makes the trades ts.
Yields(b, r, c, ts) ==
  \E f : /\ Leads(Called(b, r), f) /\ f.pc # "match"
         /\ c = [levels |-> f.levels, orderIndex |-> f.orderIndex] /\ ts = f.trades

\* A call has one outcome.
LEMMA YieldsUnique ==
  ASSUME NEW b, NEW r, NEW c, NEW d, NEW ts, NEW us, Yields(b, r, c, ts), Yields(b, r, d, us)
  PROVE  c = d /\ ts = us
BY LoopsEndAlike DEF Yields

\* The last line of the n-th call, so far.
End(at, n) == IF n < Len(at) THEN at[n + 1] - 1 ELSE Len(log)

\* The n-th call made the trades ts: they are in its lines, but for those of the last
\* call that are not logged yet.
TradesOfCall(at, n, ts) ==
  /\ Yields(After(n - 1), log[at[n]], completed[n], ts) /\ Whole(ts)
  /\ Len(ts) = End(at, n) - at[n] + (IF n = Len(completed) THEN Len(unlogged) ELSE 0)
  /\ \A i \in at[n] + 1 .. End(at, n) : log[i] = [tag |-> "TRADE", trade |-> ts[i - at[n]]]
  /\ n = Len(completed) =>
       \A j \in 1 .. Len(unlogged) : unlogged[j] = ts[End(at, n) - at[n] + j]

\* The log is one call after the other, each a request and its trades.
LogTrades(at) ==
  /\ Whole(unlogged) /\ \A j \in 1 .. Len(unlogged) : unlogged[j] \in Book!Trade
  /\ stage # "trades" => unlogged = <<>>
  /\ stage # "idle" => Len(at) > 0
  /\ Len(at) = 0 => Len(log) = 0
  /\ Len(at) > 0 => at[1] = 1
  /\ Begun => at[Len(at)] = Len(log)
  /\ \A n \in DOMAIN at : n <= at[n]
  /\ \A i \in DOMAIN log : log[i] # Malformed
  /\ \A i \in DOMAIN log : \E n \in DOMAIN at : at[n] <= i /\ i <= End(at, n)
  /\ \A n \in DOMAIN completed : \E ts : TradesOfCall(at, n, ts)

\* replayed has the trades of the calls before the m-th: of the lines up to i, n are
\* requests when i is a line of the n-th call.
ReplayedUpTo(at, m) ==
  \A n \in 1 .. m - 1 : \A i \in at[n] + 1 .. at[n + 1] - 1 :
    i - n \in 1 .. Len(replayed) /\ replayed[i - n] = log[i].trade

\* It has the trades of the last request the replay ran, too.
ReplayTrades(at) ==
  /\ rPc = "idle" /\ ran = 0 => replayed = <<>>
  /\ rPc = "idle" /\ ran > 0 /\ at[ran] <= flushed =>
       \E ts : /\ Yields(After(ran - 1), log[at[ran]], RBookNow, ts) /\ Whole(ts)
               /\ Len(replayed) = at[ran] - ran + Len(ts)
               /\ \A j \in 1 .. Len(ts) : replayed[at[ran] - ran + j] = ts[j]
               /\ ReplayedUpTo(at, ran)
  /\ rPc # "idle" /\ position + 1 <= flushed =>
       Len(replayed) = position - ran /\ ReplayedUpTo(at, ran + 1)

\* Line i of the file comes after n of the first m requests of the log.
Follows(at, m, n, i) ==
  /\ n > 0 => at[n] < i
  /\ n < m => i < at[n + 1]

\* logged has the trades of the file, unless one of its lines could not be read.
FileTrades(at) ==
  phase \notin {"closed", "refused"} =>
    \/ /\ Len(logged) = position - ran
       /\ \A i \in 1 .. position : input[i] # Malformed
       /\ \A n \in 0 .. ran : \A i \in 1 .. position :
            Follows(at, ran, n, i) =>
              i - n \in 1 .. Len(logged) /\ logged[i - n] = input[i].trade
       /\ \A k \in 1 .. Len(logged) :
            \E n \in 0 .. ran : \E i \in 1 .. position : Follows(at, ran, n, i) /\ k = i - n
    \/ /\ Len(logged) < position - ran
       /\ \E i \in 1 .. position : input[i] = Malformed

\* The verdict compares the two.
Verdict ==
  /\ phase = "done" => (mismatches = 0 <=> replayed = logged)
  /\ phase = "exited" => (exit = {0} <=> replayed = logged)

TradeInv(at) == LogTrades(at) /\ ReplayTrades(at) /\ FileTrades(at) /\ Verdict

\* Sequences are equal when their lengths and their elements are.
LEMMA WholeEqual ==
  ASSUME NEW s, Whole(s), NEW t, Whole(t), Len(s) = Len(t),
         \A i \in 1 .. Len(s) : s[i] = t[i]
  PROVE  s = t
<1>1. \A A, B : A \subseteq B => Seq(A) \subseteq Seq(B)
  OBVIOUS
<1> DEFINE T == {s[i] : i \in DOMAIN s} \cup {t[i] : i \in DOMAIN t}
<1>2. {s[i] : i \in DOMAIN s} \subseteq T /\ {t[i] : i \in DOMAIN t} \subseteq T
  OBVIOUS
<1> HIDE DEF T
<1>3. s \in Seq(T) /\ t \in Seq(T)
  BY <1>1, <1>2 DEF Whole
<1> QED  BY <1>3

\* What the recorder and the replay have in the end.
LEMMA EndOfReplay ==
  ASSUME NEW at, LogInv(at), TradeInv(at), LogTypeInv, stage = "idle",
         phase \in {"done", "exited"}
  PROVE  /\ ran = Len(at) /\ Len(at) = Len(completed) /\ Len(at) \in Nat
         /\ rPc = "idle" /\ position = Len(input)
         /\ Len(log) \in Nat /\ Len(input) \in Nat /\ Len(input) <= Len(log)
         /\ Len(logged) \in Nat /\ Len(replayed) \in Nat
         /\ Whole(log) /\ Whole(input) /\ Whole(logged) /\ Whole(replayed)
         /\ \A n \in 1 .. Len(at) : at[n] <= flushed /\ at[n] \in 1 .. Len(log)
<1>1. ran = Len(at) /\ Len(at) = Len(completed) /\ rPc = "idle" /\ position = Len(input)
  BY ReplayIsComplete, LogLengths DEF LogInv, Places, Begun
<1>2. /\ Whole(log) /\ Whole(input) /\ Whole(logged) /\ Whole(replayed)
      /\ Len(input) <= Len(log)
  BY DEF LogInv, Places, FileInv, LogTypeInv, ReplayTypes
<1>3. \A n \in 1 .. Len(at) : at[n] <= flushed
  BY LogLengths DEF LogInv, WrittenAhead
<1> QED  BY <1>1, <1>2, <1>3, WholeHasLength, LogLengths

\* The n-th call is that of line i.
LEMMA AllReplayed ==
  ASSUME NEW at, LogInv(at), TradeInv(at), LogTypeInv, stage = "idle",
         phase \in {"done", "exited"}
  PROVE  /\ Len(replayed) = Len(log) - Len(at)
         /\ \A n \in 1 .. Len(at) : \A i \in at[n] + 1 .. End(at, n) :
              /\ log[i].tag = "TRADE" /\ i - n \in 1 .. Len(replayed)
              /\ replayed[i - n] = log[i].trade
<1> DEFINE c == Len(at)
<1>1. /\ ran = c /\ c = Len(completed) /\ c \in Nat /\ rPc = "idle"
      /\ Len(log) \in Nat /\ Len(replayed) \in Nat
      /\ \A n \in 1 .. c : at[n] <= flushed /\ at[n] \in 1 .. Len(log)
  BY EndOfReplay
<1> HIDE DEF c
<1>2. CASE c = 0
  BY <1>1, <1>2, EmptyWhole DEF TradeInv, ReplayTrades, LogTrades, c
<1>3. CASE c > 0
  <2>1. PICK ts : /\ Yields(After(c - 1), log[at[c]], RBookNow, ts)
                  /\ Len(replayed) = at[c] - c + Len(ts)
                  /\ \A j \in 1 .. Len(ts) : replayed[at[c] - c + j] = ts[j]
                  /\ ReplayedUpTo(at, c)
    BY <1>1, <1>3 DEF TradeInv, ReplayTrades
  <2>2. c \in 1 .. c /\ c \in DOMAIN completed /\ c \in DOMAIN at
    BY <1>1, <1>3, LogLengths DEF c
  <2>3. PICK us : TradesOfCall(at, c, us)
    BY <2>2 DEF TradeInv, LogTrades
  <2>4. ts = us
    BY <2>1, <2>3, YieldsUnique DEF TradesOfCall
  <2>5. End(at, c) = Len(log) /\ Len(unlogged) = 0
    BY <1>1, EmptyWhole DEF End, c, TradeInv, LogTrades
  <2>6. /\ Len(ts) = Len(log) - at[c] /\ c <= at[c]
        /\ \A i \in at[c] + 1 .. Len(log) : log[i] = [tag |-> "TRADE", trade |-> ts[i - at[c]]]
    BY <1>1, <2>2, <2>3, <2>4, <2>5 DEF TradesOfCall, TradeInv, LogTrades
  <2>7. Len(replayed) = Len(log) - c
    BY <1>1, <2>1, <2>2, <2>6
  <2>8. ASSUME NEW n \in 1 .. c, NEW i \in at[n] + 1 .. End(at, n)
        PROVE  log[i].tag = "TRADE" /\ i - n \in 1 .. Len(replayed)
               /\ replayed[i - n] = log[i].trade
    <3>1. CASE n = c
      <4>1. i \in at[c] + 1 .. Len(log)
        BY <2>5, <2>8, <3>1
      <4>2. /\ at[c] \in Nat /\ c \in Nat /\ c <= at[c] /\ Len(log) \in Nat
            /\ Len(ts) = Len(log) - at[c] /\ Len(replayed) = Len(log) - c
        BY <1>1, <2>2, <2>6, <2>7
      <4>3. PICK j \in Int : j = i - at[c]
        BY <4>1, <4>2
      <4>4. j \in 1 .. Len(ts) /\ i - c \in 1 .. Len(replayed) /\ i - c = at[c] - c + j
        BY <4>1, <4>2, <4>3, SMTT(30)
      <4>5. replayed[i - c] = ts[j]
        BY <2>1, <4>4
      <4>6. log[i] = [tag |-> "TRADE", trade |-> ts[j]]
        BY <2>6, <4>1, <4>3
      <4> QED  BY <3>1, <4>4, <4>5, <4>6
    <3>2. CASE n # c
      <4>1. n \in 1 .. c - 1 /\ n \in DOMAIN completed /\ End(at, n) = at[n + 1] - 1
        BY <1>1, <3>2, LogLengths DEF End, c
      <4>2. PICK vs : TradesOfCall(at, n, vs)
        BY <4>1 DEF TradeInv, LogTrades
      <4>3. log[i] = [tag |-> "TRADE", trade |-> vs[i - at[n]]]
        BY <2>8, <4>2 DEF TradesOfCall
      <4>4. i - n \in 1 .. Len(replayed) /\ replayed[i - n] = log[i].trade
        BY <2>1, <2>8, <4>1 DEF ReplayedUpTo
      <4> QED  BY <4>3, <4>4
    <3> QED  BY <3>1, <3>2
  <2> QED  BY <2>7, <2>8 DEF c
<1> QED  BY <1>1, <1>2, <1>3

\* A trade that is missing from the file, or was cut short in it, shows in logged.
LEMMA SameTradesSameFile ==
  ASSUME NEW at, LogInv(at), TradeInv(at), LogTypeInv, stage = "idle",
         phase \in {"done", "exited"}, replayed = logged
  PROVE  input = log
<1> DEFINE c == Len(at)
<1>1. /\ ran = c /\ c = Len(completed) /\ c \in Nat /\ position = Len(input)
      /\ Len(log) \in Nat /\ Len(input) \in Nat /\ Len(input) <= Len(log)
      /\ Len(logged) \in Nat /\ Whole(log) /\ Whole(input)
      /\ \A n \in 1 .. c : at[n] <= flushed /\ at[n] \in 1 .. Len(log)
  BY EndOfReplay
<1>2. /\ Len(logged) = Len(log) - c
      /\ \A n \in 1 .. c : \A i \in at[n] + 1 .. End(at, n) :
           /\ log[i].tag = "TRADE" /\ i - n \in 1 .. Len(replayed)
           /\ replayed[i - n] = log[i].trade
  BY AllReplayed
<1> HIDE DEF c
<1>3. /\ Len(input) = Len(log)
      /\ \A i \in 1 .. Len(log) : input[i] # Malformed
      /\ \A n \in 0 .. c : \A i \in 1 .. Len(log) :
           Follows(at, c, n, i) => logged[i - n] = input[i].trade
  <2>1. phase \notin {"closed", "refused"}
    OBVIOUS
  <2>2. Len(logged) <= Len(input) - c /\ (Len(logged) = Len(input) - c => Len(input) = Len(log))
    BY <1>1, <1>2, <2>1 DEF TradeInv, FileTrades
  <2>3. ~(Len(logged) < Len(input) - c)
    BY <1>1, <1>2
  <2> QED  BY <1>1, <2>1, <2>2, <2>3 DEF TradeInv, FileTrades
<1>4. ASSUME NEW i \in 1 .. Len(log)
      PROVE  input[i] = log[i]
  <2>1. PICK n \in DOMAIN at : at[n] <= i /\ i <= End(at, n)
    BY LogLengths DEF TradeInv, LogTrades
  <2>2. n \in 1 .. c /\ n \in 0 .. c /\ at[n] \in 1 .. Len(log)
    BY <1>1, LogLengths DEF c
  <2>3. CASE at[n] = i
    <3>1. log[i] \in Requests /\ ~IsTrade(log[i])
      BY <2>3, RequestIsNoTrade DEF LogInv, Places
    <3>2. i \in 1 .. flushed
      BY <1>1, <2>2, <2>3, LogLengths
    <3> QED  BY <3>1, <3>2 DEF LogInv, FileInv
  <2>4. CASE at[n] # i
    <3>1. i \in at[n] + 1 .. End(at, n) /\ at[n] < i
      <4>1. End(at, n) \in Int
        BY <1>1, <2>2, LogLengths DEF End, c
      <4> QED  BY <2>1, <2>2, <2>4, <4>1
    <3>2. Follows(at, c, n, i)
      BY <1>1, <2>1, <2>2, <3>1, LogLengths DEF Follows, End, c
    <3>3. input[i].trade = log[i].trade /\ log[i].tag = "TRADE" /\ input[i] # Malformed
      BY <1>2, <1>3, <2>2, <3>1, <3>2
    <3>4. IsTrade(log[i])
      <4>1. log[i] \notin Requests
        BY <3>3, RequestIsNoTrade
      <4>2. i \in DOMAIN log /\ \A m \in DOMAIN at : at[m] # i
        BY <4>1, LogLengths DEF LogInv, Places
      <4> QED  BY <4>2 DEF LogInv, Places
    <3>5. IsTrade(input[i])
      BY <1>1, <1>3, <3>3, <3>4, WholeHasLength DEF LogInv, FileInv
    <3> QED  BY <3>3, <3>4, <3>5 DEF IsTrade
  <2> QED  BY <2>3, <2>4
<1> QED  BY <1>1, <1>3, <1>4, WholeEqual

\* The replay of a whole file makes the trades that are logged in it.
LEMMA SameFileSameTrades ==
  ASSUME NEW at, LogInv(at), TradeInv(at), LogTypeInv, stage = "idle",
         phase \in {"done", "exited"}, input = log
  PROVE  replayed = logged
<1> DEFINE c == Len(at)
<1>1. /\ ran = c /\ c = Len(completed) /\ c \in Nat /\ position = Len(log)
      /\ Len(log) \in Nat /\ Len(logged) \in Nat /\ Whole(logged) /\ Whole(replayed)
      /\ \A n \in 1 .. c : at[n] \in 1 .. Len(log)
  BY EndOfReplay
<1>2. /\ Len(replayed) = Len(log) - c
      /\ \A n \in 1 .. c : \A i \in at[n] + 1 .. End(at, n) : replayed[i - n] = log[i].trade
  BY AllReplayed
<1> HIDE DEF c
<1>3. \A i \in 1 .. Len(log) : input[i] # Malformed
  BY LogLengths DEF TradeInv, LogTrades
<1>4. /\ Len(logged) = Len(log) - c
      /\ \A n \in 0 .. c : \A i \in 1 .. Len(log) :
           Follows(at, c, n, i) => logged[i - n] = log[i].trade
      /\ \A k \in 1 .. Len(logged) :
           \E n \in 0 .. c : \E i \in 1 .. Len(log) : Follows(at, c, n, i) /\ k = i - n
  BY <1>1, <1>3 DEF TradeInv, FileTrades
<1>5. ASSUME NEW k \in 1 .. Len(logged)
      PROVE  replayed[k] = logged[k]
  <2>1. PICK n \in 0 .. c : \E i \in 1 .. Len(log) : Follows(at, c, n, i) /\ k = i - n
    BY <1>4
  <2>2. PICK i \in 1 .. Len(log) : Follows(at, c, n, i) /\ k = i - n
    BY <2>1
  <2>3. n \in 1 .. c
    <3>1. c > 0
      BY <1>1, <1>4, <2>2, LogLengths DEF TradeInv, LogTrades, c
    <3>2. at[1] = 1
      BY <3>1 DEF TradeInv, LogTrades, c
    <3>3. ASSUME n = 0
          PROVE  FALSE
      BY <2>2, <3>1, <3>2, <3>3 DEF Follows
    <3> QED  BY <1>1, <3>3
  <2>4. i \in at[n] + 1 .. End(at, n)
    <3>1. at[n] \in Int /\ at[n] < i /\ (n < c => i < at[n + 1])
      BY <1>1, <2>2, <2>3 DEF Follows
    <3>2. n < c => at[n + 1] \in Int
      BY <1>1, <2>3
    <3> QED  BY <1>1, <2>3, <3>1, <3>2 DEF End, c
  <2> QED  BY <1>2, <1>4, <2>2, <2>3, <2>4
<1> QED  BY <1>1, <1>2, <1>4, <1>5, WholeEqual

LEMMA TradeInvMeans ==
  ASSUME NEW at, LogInv(at), TradeInv(at), LogTypeInv
  PROVE  VerdictIsRight
BY SameTradesSameFile, SameFileSameTrades DEF VerdictIsRight, TradeInv, Verdict

-----------------------------------------------------------------------------
(* The recorder logs the trades of its calls.                              *)

\* A trade is read as it was made.
LEMMA PrintedTrade ==
  ASSUME PrintablePrices, NEW t \in Book!Trade
  PROVE  TradeLine(t) = [tag |-> "TRADE", trade |-> t] /\ TradeLine(t) # Malformed
<1>1. t.price \in Prices
  BY DEF Book!Trade
<1>2. Printed(t.price) = t.price
  BY <1>1, PrintedPrice
<1>3. [t EXCEPT !.price = t.price] = t
  BY DEF Book!Trade
<1> QED  BY <1>2, <1>3, MalformedAssumption DEF TradeLine

\* A step that adds nothing to the log.
LEMMA LogTradesStay ==
  ASSUME NEW at, LogTrades(at), log' = log, completed' = completed, unlogged' = unlogged,
         stage' # "trades" => unlogged = <<>>, stage' # "idle" => stage # "idle",
         Begun' => Begun
  PROVE  LogTrades(at)'
<1>1. \A n : After(n)' = After(n)
  BY DEF After
<1>2. \A n : End(at, n)' = End(at, n)
  BY DEF End
<1>3. \A n, ts : TradesOfCall(at, n, ts) => TradesOfCall(at, n, ts)'
  BY <1>1, <1>2 DEF TradesOfCall
<1>4. \A n \in DOMAIN completed' : \E ts : TradesOfCall(at, n, ts)'
  BY <1>3 DEF LogTrades
<1> QED  BY <1>2, <1>4 DEF LogTrades

\* What the replay did stays true of a log that grows.
LEMMA ReplayTradesStay ==
  ASSUME NEW at, LogInv(at), ReplayTrades(at), FileTrades(at), Verdict, UNCHANGED replayVars,
         \A i \in DOMAIN log : log'[i] = log[i],
         \A n \in 0 .. Len(completed) : After(n)' = After(n),
         flushed' = flushed \/ \A n \in DOMAIN at : at[n] <= flushed
  PROVE  ReplayTrades(at)' /\ FileTrades(at)' /\ Verdict'
<1>1. FileTrades(at)' /\ Verdict'
  BY DEF FileTrades, Verdict, replayVars, Follows
<1>2. /\ rPc' = rPc /\ ran' = ran /\ replayed' = replayed /\ position' = position
      /\ RBookNow' = RBookNow
  BY DEF replayVars, RBookNow
<1>3. ASSUME NEW m, m \in 1 .. Len(at), ReplayedUpTo(at, m)
      PROVE  ReplayedUpTo(at, m)'
  <2>1. ASSUME NEW n \in 1 .. m - 1, NEW i \in at[n] + 1 .. at[n + 1] - 1
        PROVE  log'[i] = log[i]
    <3>1. n \in DOMAIN at /\ n + 1 \in DOMAIN at
      BY <1>3, LogLengths
    <3>2. i \in DOMAIN log
      BY <3>1, LogLengths
    <3> QED  BY <3>2
  <2> QED  BY <1>2, <1>3, <2>1 DEF ReplayedUpTo
<1>4. ASSUME rPc = "idle", ran > 0
      PROVE  /\ ran \in 1 .. Len(at) /\ log'[at[ran]] = log[at[ran]]
             /\ After(ran - 1)' = After(ran - 1)
             /\ at[ran] <= flushed' => at[ran] <= flushed
  <2>1. ran \in 1 .. Len(at) /\ ran - 1 \in 0 .. Len(completed)
    BY <1>4, LogLengths DEF LogInv, Places
  <2>2. After(ran - 1)' = After(ran - 1)
    <3> DEFINE k == ran - 1
    <3>1. After(k)' = After(k) /\ ran' - 1 = k
      BY <1>2, <2>1 DEF After
    <3> QED  BY <1>2, <2>1, <3>1 DEF After
  <2> QED  BY <2>1, <2>2, LogLengths
<1>5. ASSUME rPc # "idle", position + 1 <= flushed'
      PROVE  position + 1 <= flushed /\ ran + 1 \in 1 .. Len(at)
  <2>1. ran + 1 \in DOMAIN at /\ at[ran + 1] = position + 1
    BY <1>5, NextRequest DEF LogInv, ReplayerInv
  <2> QED  BY <1>5, <2>1, LogLengths
<1>6. ReplayTrades(at)'
  BY <1>2, <1>3, <1>4, <1>5 DEF ReplayTrades
<1> QED  BY <1>1, <1>6

\* What is left when the first element is taken away.
LEMMA TailWhole ==
  ASSUME NEW s, Whole(s), s # <<>>
  PROVE  /\ Len(s) > 0 /\ Head(s) = s[1] /\ Whole(Tail(s)) /\ Len(Tail(s)) = Len(s) - 1
         /\ \A j \in 1 .. Len(s) - 1 : Tail(s)[j] = s[j + 1]
<1> DEFINE T == {s[i] : i \in DOMAIN s}
<1>1. s \in Seq(T)
  BY DEF Whole
<1> HIDE DEF T
<1>2. /\ Len(s) > 0 /\ Head(s) = s[1] /\ Tail(s) \in Seq(T) /\ Len(Tail(s)) = Len(s) - 1
      /\ \A j \in 1 .. Len(s) - 1 : Tail(s)[j] = s[j + 1]
  BY <1>1
<1> QED  BY <1>2, SeqOverItsValues

\* A trade goes from unlogged to the log.
LEMMA LogTradeLogs ==
  ASSUME NEW at, PrintablePrices, LogInv(at), LogTrades(at), LogTrade
  PROVE  LogTrades(at)'
<1> DEFINE t == Head(unlogged)
<1>1. /\ stage = "trades" /\ stage' = "trades" /\ unlogged # <<>> /\ completed' = completed
      /\ log' = Append(log, TradeLine(t)) /\ unlogged' = Tail(unlogged)
  BY DEF LogTrade
<1>2. /\ Len(unlogged) \in Nat /\ Len(unlogged) > 0 /\ t = unlogged[1] /\ Whole(unlogged')
      /\ Len(unlogged') = Len(unlogged) - 1
      /\ \A j \in 1 .. Len(unlogged) - 1 : unlogged'[j] = unlogged[j + 1]
  BY <1>1, TailWhole, WholeHasLength DEF LogTrades
<1>3. TradeLine(t) = [tag |-> "TRADE", trade |-> t] /\ TradeLine(t) # Malformed
  BY <1>2, PrintedTrade DEF LogTrades
<1> HIDE DEF t
<1>4. /\ Len(log') = Len(log) + 1 /\ DOMAIN log' = 1 .. Len(log) + 1 /\ Len(log) \in Nat
      /\ \A i \in 1 .. Len(log) : log'[i] = log[i]
      /\ log'[Len(log) + 1] = [tag |-> "TRADE", trade |-> t]
  BY <1>1, <1>3, AppendWhole, WholeHasLength DEF LogInv, Places
<1>5. PICK c \in Nat :
        /\ c = Len(completed) /\ Len(at) = c /\ c > 0 /\ DOMAIN at = 1 .. c
        /\ DOMAIN completed = 1 .. c /\ \A n \in 1 .. c : at[n] \in 1 .. Len(log)
  <2>1. Len(at) = Len(completed) /\ Len(at) > 0
    BY <1>1 DEF LogInv, Places, Begun, LogTrades
  <2> QED  BY <2>1, LogLengths
<1>6. /\ End(at, c) = Len(log) /\ End(at, c)' = Len(log) + 1
      /\ \A n \in 1 .. c - 1 : End(at, n)' = End(at, n) /\ End(at, n) \in 0 .. Len(log)
  <2>1. End(at, c) = Len(log) /\ End(at, c)' = Len(log) + 1
    BY <1>4, <1>5 DEF End
  <2>2. ASSUME NEW n \in 1 .. c - 1
        PROVE  End(at, n)' = End(at, n) /\ End(at, n) \in 0 .. Len(log)
    <3>1. n < c /\ n + 1 \in 1 .. c
      BY <1>5
    <3>2. End(at, n) = at[n + 1] - 1 /\ End(at, n)' = at[n + 1] - 1
      BY <1>5, <3>1 DEF End
    <3>3. at[n + 1] \in 1 .. Len(log)
      BY <1>5, <3>1
    <3> QED  BY <1>4, <3>2, <3>3
  <2> QED  BY <2>1, <2>2
<1>7. \A n : After(n)' = After(n)
  BY <1>1 DEF After
<1>8. ASSUME NEW n \in 1 .. c, NEW ts, TradesOfCall(at, n, ts)
      PROVE  TradesOfCall(at, n, ts)'
  <2>1. Yields(After(n - 1), log[at[n]], completed[n], ts)' /\ Whole(ts)
    BY <1>1, <1>4, <1>5, <1>7, <1>8 DEF TradesOfCall
  <2>2. CASE n # c
    <3>1. n \in 1 .. c - 1 /\ n # Len(completed)
      BY <1>5, <2>2
    <3>2. \A i \in at[n] + 1 .. End(at, n) : log'[i] = log[i]
      BY <1>4, <1>5, <1>6, <3>1
    <3> QED  BY <1>1, <1>6, <1>8, <2>1, <3>1, <3>2 DEF TradesOfCall
  <2>3. CASE n = c
    <3>2. PICK a \in Nat : a = at[c] /\ a <= Len(log)
      BY <1>4, <1>5
    <3>0. PICK k \in Nat : Len(log) - a = k
      BY <1>4, <3>2
    <3>1. /\ Len(ts) = k + Len(unlogged)
          /\ \A i \in a + 1 .. Len(log) : log[i] = [tag |-> "TRADE", trade |-> ts[i - a]]
          /\ \A j \in 1 .. Len(unlogged) : unlogged[j] = ts[k + j]
      BY <1>5, <1>6, <1>8, <2>3, <3>2, <3>0 DEF TradesOfCall
    <3>3. t = ts[k + 1]
      BY <1>2, <3>1
    <3>4. PICK m \in Nat : m = k + 1
      OBVIOUS
    <3>5. Len(ts) = m + Len(unlogged')
          /\ \A j \in 1 .. Len(unlogged') : unlogged'[j] = ts[m + j]
      <4>1. Len(unlogged') \in Nat /\ Len(unlogged) = Len(unlogged') + 1
        BY <1>2
      <4>2. \A j \in 1 .. Len(unlogged') :
              j + 1 \in 1 .. Len(unlogged) /\ k + (j + 1) = m + j
        BY <3>4, <4>1
      <4>3. \A j \in 1 .. Len(unlogged') : unlogged'[j] = unlogged[j + 1]
        BY <1>2, <4>1
      <4>4. ASSUME NEW j \in 1 .. Len(unlogged')
            PROVE  unlogged'[j] = ts[m + j]
        <5>1. unlogged[j + 1] = ts[k + (j + 1)] /\ k + (j + 1) = m + j
          BY <3>1, <4>2
        <5> QED  BY <4>3, <5>1
      <4>5. Len(ts) = m + Len(unlogged')
        BY <3>1, <3>4, <4>1
      <4> QED  BY <4>4, <4>5
    <3>6. \A i \in a + 1 .. Len(log) + 1 :
            log'[i] = [tag |-> "TRADE", trade |-> ts[i - a]]
      <4> SUFFICES ASSUME NEW i \in a + 1 .. Len(log) + 1
                   PROVE  log'[i] = [tag |-> "TRADE", trade |-> ts[i - a]]
        OBVIOUS
      <4>1. CASE i = Len(log) + 1
        <5>1. i - a = k + 1
          BY <1>4, <3>0, <3>2, <4>1
        <5> QED  BY <1>4, <3>3, <4>1, <5>1
      <4>2. CASE i # Len(log) + 1
        <5>1. i \in a + 1 .. Len(log) /\ i \in 1 .. Len(log)
          BY <1>4, <3>2, <4>2
        <5> QED  BY <1>4, <3>1, <5>1
      <4> QED  BY <4>1, <4>2
    <3>7. n = Len(completed') /\ End(at, n)' = Len(log) + 1
      BY <1>1, <1>5, <1>6, <2>3
    <3>8. End(at, n)' - at[n] = m
      BY <1>4, <2>3, <3>0, <3>2, <3>4, <3>7
    <3>9. \A i \in at[n] + 1 .. End(at, n)' :
            log'[i] = [tag |-> "TRADE", trade |-> ts[i - at[n]]]
      BY <2>3, <3>2, <3>6, <3>7
    <3> QED  BY <2>1, <3>5, <3>7, <3>8, <3>9 DEF TradesOfCall
  <2> QED  BY <2>2, <2>3
<1>9. \A n \in DOMAIN completed' : \E ts : TradesOfCall(at, n, ts)'
  <2> SUFFICES ASSUME NEW n \in DOMAIN completed'
               PROVE  \E ts : TradesOfCall(at, n, ts)'
    OBVIOUS
  <2>1. n \in 1 .. c /\ n \in DOMAIN completed
    BY <1>1, <1>5
  <2>2. PICK ts : TradesOfCall(at, n, ts)
    BY <2>1 DEF LogTrades
  <2> QED  BY <1>8, <2>1, <2>2
<1>10. \A i \in DOMAIN log' : log'[i] # Malformed
  BY <1>3, <1>4, LogLengths DEF LogTrades
<1>11. \A i \in DOMAIN log' : \E n \in DOMAIN at : at[n] <= i /\ i <= End(at, n)'
  <2> SUFFICES ASSUME NEW i \in 1 .. Len(log) + 1
               PROVE  \E n \in DOMAIN at : at[n] <= i /\ i <= End(at, n)'
    BY <1>4
  <2>1. CASE i = Len(log) + 1
    BY <1>4, <1>5, <1>6, <2>1, SMTT(30)
  <2>2. CASE i \in 1 .. Len(log)
    <3>1. PICK n \in DOMAIN at : at[n] <= i /\ i <= End(at, n)
      BY <2>2, LogLengths DEF LogTrades
    <3>2. i <= End(at, n)'
      BY <1>4, <1>5, <1>6, <3>1
    <3> QED  BY <3>1, <3>2
  <2> QED  BY <1>4, <2>1, <2>2
<1>12. \A j \in 1 .. Len(unlogged') : unlogged'[j] \in Book!Trade
  BY <1>2 DEF LogTrades
<1> QED  BY <1>1, <1>2, <1>4, <1>5, <1>9, <1>10, <1>11, <1>12 DEF LogTrades, Begun

\* A call begins: its request follows the lines of the calls before.
LEMMA WriteRequestLogs ==
  ASSUME NEW at, PrintablePrices, LogInv(at), LogTrades(at), NEW r \in Requests,
         WriteRequest(r), NEW more, more = Append(at, Len(log) + 1)
  PROVE  LogTrades(more)'
<1>1. /\ stage = "idle" /\ stage' = "writing" /\ completed' = completed
      /\ unlogged' = unlogged /\ log' = Append(log, r) /\ r # Malformed
  BY PrintedRequest DEF WriteRequest
<1>2. /\ Len(log') = Len(log) + 1 /\ DOMAIN log' = 1 .. Len(log) + 1 /\ Len(log) \in Nat
      /\ \A i \in 1 .. Len(log) : log'[i] = log[i]
      /\ log'[Len(log) + 1] = r
  BY <1>1, AppendWhole, WholeHasLength DEF LogInv, Places
<1>3. PICK c \in Nat :
        /\ c = Len(completed) /\ Len(at) = c /\ DOMAIN at = 1 .. c
        /\ DOMAIN completed = 1 .. c /\ \A n \in 1 .. c : at[n] \in 1 .. Len(log)
  <2>1. Len(at) = Len(completed)
    BY <1>1 DEF LogInv, Places, Begun
  <2> QED  BY <2>1, LogLengths
<1>4. /\ Len(more) = c + 1 /\ DOMAIN more = 1 .. c + 1
      /\ \A n \in 1 .. c : more[n] = at[n]
      /\ more[c + 1] = Len(log) + 1
  <2>1. Whole(at)
    BY DEF LogInv, Places
  <2> QED  BY <1>3, <2>1, AppendWhole, WholeHasLength
<1>5. ASSUME NEW n \in 1 .. c
      PROVE  End(more, n)' = End(at, n) /\ End(at, n) \in 0 .. Len(log)
  <2>1. CASE n = c
    BY <1>2, <1>3, <1>4, <2>1 DEF End
  <2>2. CASE n # c
    <3>1. n < c /\ n < c + 1 /\ n + 1 \in 1 .. c
      BY <1>3, <2>2
    <3>2. End(at, n) = at[n + 1] - 1 /\ End(more, n)' = more[n + 1] - 1
      BY <1>3, <1>4, <3>1 DEF End
    <3>3. PICK e \in 1 .. Len(log) : at[n + 1] = e /\ more[n + 1] = e
      BY <1>3, <1>4, <3>1
    <3>4. e - 1 \in 0 .. Len(log)
      BY <1>2
    <3> QED  BY <3>2, <3>3, <3>4
  <2> QED  BY <2>1, <2>2
<1>6. \A n : After(n)' = After(n)
  BY <1>1 DEF After
<1>7. ASSUME NEW n \in DOMAIN completed'
      PROVE  \E ts : TradesOfCall(more, n, ts)'
  <2>1. n \in 1 .. c /\ n \in DOMAIN completed
    BY <1>1, <1>3
  <2>2. PICK ts : TradesOfCall(at, n, ts)
    BY <2>1 DEF LogTrades
  <2>3. more[n] = at[n] /\ at[n] \in 1 .. Len(log) /\ log'[at[n]] = log[at[n]]
    BY <1>2, <1>3, <1>4, <2>1
  <2>4. End(more, n)' = End(at, n) /\ End(at, n) \in 0 .. Len(log)
    BY <1>5, <2>1
  <2>5. \A i \in at[n] + 1 .. End(at, n) : log'[i] = log[i]
    BY <1>2, <2>3, <2>4, SMTT(30)
  <2>6. Yields(After(n - 1)', log'[more[n]], completed'[n], ts)
    BY <1>1, <1>6, <2>2, <2>3 DEF TradesOfCall
  <2>7. TradesOfCall(more, n, ts)'
    BY <1>1, <2>2, <2>3, <2>4, <2>5, <2>6 DEF TradesOfCall
  <2> QED  BY <2>7
<1>8. \A i \in DOMAIN log' : log'[i] # Malformed
  BY <1>1, <1>2, LogLengths DEF LogTrades
<1>9. ASSUME NEW i \in DOMAIN log'
      PROVE  \E n \in DOMAIN more : more[n] <= i /\ i <= End(more, n)'
  <2>1. CASE i = Len(log) + 1
    <3>1. End(more, c + 1)' = Len(log) + 1
      BY <1>2, <1>4 DEF End
    <3> QED  BY <1>2, <1>4, <2>1, <3>1
  <2>2. CASE i \in 1 .. Len(log)
    <3>1. PICK n \in DOMAIN at : at[n] <= i /\ i <= End(at, n)
      BY <2>2, LogLengths DEF LogTrades
    <3>2. n \in 1 .. c /\ n \in DOMAIN more /\ more[n] = at[n] /\ End(more, n)' = End(at, n)
      BY <1>3, <1>4, <1>5, <3>1
    <3> QED  BY <3>1, <3>2
  <2> QED  BY <1>2, <2>1, <2>2
<1>10. more[1] = 1 /\ Len(more) > 0 /\ Len(more) # 0
  <2>1. CASE c = 0
    BY <1>3, <1>4, <2>1 DEF LogTrades
  <2>2. CASE c > 0
    BY <1>3, <1>4, <2>2 DEF LogTrades
  <2> QED  BY <1>3, <1>4, <2>1, <2>2
<1>11. \A n \in DOMAIN more : n <= more[n]
  <2>1. c <= Len(log)
    <3>1. CASE c = 0
      BY <1>2, <3>1
    <3>2. CASE c > 0
      <4>1. c \in 1 .. c
        BY <3>2
      <4> QED  BY <1>2, <1>3, <4>1 DEF LogTrades
    <3> QED  BY <1>3, <3>1, <3>2
  <2> QED  BY <1>2, <1>3, <1>4, <2>1 DEF LogTrades
<1>12. unlogged' = <<>> /\ Whole(unlogged')
       /\ \A j \in 1 .. Len(unlogged') : unlogged'[j] \in Book!Trade
  BY <1>1 DEF LogTrades
<1> QED
  BY <1>1, <1>2, <1>4, <1>7, <1>8, <1>9, <1>10, <1>11, <1>12 DEF LogTrades

\* A call returns: its request is the last line, and its trades are to be logged.
LEMMA CallReturnsLogs ==
  ASSUME NEW at, LogInv(at), LogTrades(at), Book!TypeOK, CallReturns
  PROVE  LogTrades(at)'
<1>1. /\ stage = "calling" /\ stage' = (IF trades = <<>> THEN "idle" ELSE "trades")
      /\ pc = "return" /\ log' = log /\ unlogged' = trades
      /\ completed' = Append(completed, BookNow)
  BY DEF LogInv, Recorded, CallReturns, Book!Return, BookNow
<1>2. unlogged = <<>>
  BY <1>1 DEF LogTrades
<1>3. Whole(trades) /\ Len(trades) \in Nat /\ \A j \in 1 .. Len(trades) : trades[j] \in Book!Trade
  <2>1. trades \in Seq(Book!Trade)
    BY DEF Book!TypeOK
  <2> QED  BY <2>1, SeqOverItsValues
<1>4. PICK c \in Nat :
        /\ c = Len(completed) /\ Len(at) = c + 1 /\ DOMAIN at = 1 .. c + 1
        /\ DOMAIN completed = 1 .. c /\ \A n \in 1 .. c + 1 : at[n] \in 1 .. Len(log)
  <2>1. Len(at) = Len(completed) + 1
    BY <1>1 DEF LogInv, Places, Begun
  <2> QED  BY <2>1, LogLengths
<1>5. /\ Len(completed') = c + 1 /\ DOMAIN completed' = 1 .. c + 1
      /\ \A n \in 1 .. c : completed'[n] = completed[n]
      /\ completed'[c + 1] = BookNow
  <2>1. Whole(completed)
    BY DEF LogInv, Recorded
  <2> QED  BY <1>1, <1>4, <2>1, AppendWhole, WholeHasLength
<1>6. \A n \in 0 .. c : After(n)' = After(n)
  BY <1>4, <1>5 DEF After
<1>7. \A n : End(at, n)' = End(at, n)
  BY <1>1 DEF End
<1>8. ASSUME NEW n \in 1 .. c
      PROVE  \E ts : TradesOfCall(at, n, ts)'
  <2>1. PICK ts : TradesOfCall(at, n, ts)
    BY <1>4 DEF LogTrades
  <2>2. n # c + 1 /\ n - 1 \in 0 .. c
    BY <1>4
  <2>3. Yields(After(n - 1)', log'[at[n]], completed'[n], ts)
    BY <1>1, <1>5, <1>6, <2>1, <2>2 DEF TradesOfCall
  <2>4. Len(ts) = End(at, n) - at[n] + 0
    BY <1>2, <2>1, EmptyWhole DEF TradesOfCall
  <2>5. TradesOfCall(at, n, ts)'
    BY <1>1, <1>5, <1>7, <2>1, <2>2, <2>3, <2>4 DEF TradesOfCall
  <2> QED  BY <2>5
<1>9. PICK made : made = trades
  OBVIOUS
<1>10. TradesOfCall(at, c + 1, made)'
  <2>1. Leads(Called(After(c), request), FrameNow)
    BY <1>1, <1>4 DEF LogInv, Recorded
  <2>2. /\ FrameNow.pc # "match" /\ FrameNow.trades = made
        /\ BookNow = [levels |-> FrameNow.levels, orderIndex |-> FrameNow.orderIndex]
    BY <1>1, <1>9 DEF FrameNow, Frame, BookNow
  <2>3. Yields(After(c), request, BookNow, made)
    BY <2>1, <2>2 DEF Yields
  <2>4. log'[at[c + 1]] = request /\ at[c + 1] = Len(log) /\ Len(log) \in Nat
    BY <1>1, <1>4, LogLengths DEF LogInv, WrittenAhead, Begun, LogTrades
  <2>5. After(c + 1 - 1)' = After(c)
    <3>1. c + 1 - 1 = c
      OBVIOUS
    <3>2. After(c)' = After(c)
      BY <1>6
    <3> QED  BY <3>1, <3>2
  <2>6. End(at, c + 1)' = Len(log)
    BY <1>1, <1>4 DEF End
  <2>7. Yields(After(c + 1 - 1)', log'[at[c + 1]], completed'[c + 1], made)
    BY <1>5, <2>3, <2>4, <2>5
  <2>8. Len(made) = Len(log) - at[c + 1] + Len(unlogged')
    BY <1>1, <1>3, <1>9, <2>4
  <2>9. \A j \in 1 .. Len(unlogged') : unlogged'[j] = made[Len(log) - at[c + 1] + j]
    BY <1>1, <1>3, <1>9, <2>4
  <2>10. \A i \in at[c + 1] + 1 .. Len(log) :
           log'[i] = [tag |-> "TRADE", trade |-> made[i - at[c + 1]]]
    BY <2>4
  <2> QED  BY <1>3, <1>5, <1>9, <2>6, <2>7, <2>8, <2>9, <2>10 DEF TradesOfCall
<1>11. \A n \in DOMAIN completed' : \E ts : TradesOfCall(at, n, ts)'
  BY <1>4, <1>5, <1>8, <1>10
<1>12. stage' # "trades" => unlogged' = <<>>
  BY <1>1
<1> QED
  BY <1>1, <1>3, <1>4, <1>7, <1>11, <1>12 DEF LogTrades, Begun

\* Nothing is replayed before the file is open.
LEMMA NothingReplayed ==
  ASSUME NEW at, LogInv(at), TradeInv(at), phase = "closed", UNCHANGED replayVars, NEW more
  PROVE  ReplayTrades(more)' /\ FileTrades(more)' /\ Verdict'
<1>1. ran = 0 /\ rPc = "idle" /\ replayed = <<>>
  BY DEF LogInv, ReplayerInv, TradeInv, ReplayTrades
<1>2. ran' = 0 /\ rPc' = "idle" /\ replayed' = <<>> /\ phase' = "closed"
  BY <1>1 DEF replayVars
<1> QED  BY <1>2 DEF ReplayTrades, FileTrades, Verdict

\* The steps of the recorder.
LEMMA RecordTradesStep ==
  ASSUME NEW at, PrintablePrices, LogInv(at), TradeInv(at), Book!TypeOK, Record
  PROVE  \E more : LogInv(more)' /\ TradeInv(more)'
<1> USE DEF TradeInv
<1>1. UNCHANGED replayVars
  BY DEF Record
<1>2. ASSUME UNCHANGED log, completed' = completed,
             flushed' = flushed \/ \A n \in DOMAIN at : at[n] <= flushed
      PROVE  ReplayTrades(at)' /\ FileTrades(at)' /\ Verdict'
  <2>1. \A n \in 0 .. Len(completed) : After(n)' = After(n)
    BY <1>2 DEF After
  <2> QED  BY <1>1, <1>2, <2>1, ReplayTradesStay
<1>3. CASE Delegate \/ Match
  <2>1. /\ log' = log /\ completed' = completed /\ unlogged' = unlogged /\ flushed' = flushed
        /\ \/ stage' = stage
           \/ stage = "logged" /\ stage' = "calling"
    BY <1>3 DEF Delegate, Match
  <2>2. LogTrades(at)'
    BY <2>1, LogTradesStay DEF Begun, LogTrades
  <2>3. LogInv(at)'
    BY <1>1, <1>3, DelegateStep, MatchStep
  <2> QED  BY <1>2, <2>1, <2>2, <2>3
<1>4. CASE CallReturns
  <2>1. LogTrades(at)' /\ LogInv(at)'
    BY <1>1, <1>4, CallReturnsLogs, CallReturnsStep
  <2>2. log' = log /\ flushed' = flushed /\ completed' = Append(completed, BookNow)
    BY <1>4 DEF CallReturns, BookNow
  <2>3. \A n \in 1 .. Len(completed) : completed'[n] = completed[n]
    BY <2>2, AppendWhole DEF LogInv, Recorded
  <2>4. \A n \in 0 .. Len(completed) : After(n)' = After(n)
    BY <2>3, LogLengths DEF After
  <2>5. ReplayTrades(at)' /\ FileTrades(at)' /\ Verdict'
    BY <1>1, <2>2, <2>4, ReplayTradesStay
  <2> QED  BY <2>1, <2>5
<1>5. CASE LogTrade
  <2>1. LogTrades(at)' /\ LogInv(at)'
    BY <1>1, <1>5, LogTradeLogs, LogTradeStep
  <2>2. flushed' = flushed /\ completed' = completed
        /\ log' = Append(log, TradeLine(Head(unlogged)))
    BY <1>5 DEF LogTrade
  <2>3. \A i \in DOMAIN log : log'[i] = log[i]
    BY <2>2, AppendWhole, LogLengths DEF LogInv, Places
  <2>4. \A n \in 0 .. Len(completed) : After(n)' = After(n)
    BY <2>2 DEF After
  <2>5. ReplayTrades(at)' /\ FileTrades(at)' /\ Verdict'
    BY <1>1, <2>2, <2>3, <2>4, ReplayTradesStay
  <2> QED  BY <2>1, <2>5
<1>6. CASE FlushTrades
  <2>1. /\ log' = log /\ completed' = completed /\ unlogged' = unlogged /\ unlogged = <<>>
        /\ stage = "trades" /\ stage' = "idle"
    BY <1>6 DEF FlushTrades
  <2>2. LogTrades(at)' /\ LogInv(at)'
    BY <1>1, <1>6, <2>1, LogTradesStay, FlushTradesStep DEF Begun
  <2>3. \A n \in DOMAIN at : at[n] <= flushed
    BY <2>1 DEF LogInv, WrittenAhead
  <2> QED  BY <1>2, <2>1, <2>2, <2>3
<1>7. CASE phase = "closed" /\ FlushRequest
  <2>1. /\ log' = log /\ completed' = completed /\ unlogged' = unlogged
        /\ stage = "writing" /\ stage' = "logged"
    BY <1>7 DEF FlushRequest
  <2>2. LogTrades(at)' /\ LogInv(at)'
    BY <1>1, <1>7, <2>1, LogTradesStay, FlushRequestStep DEF Begun, LogTrades
  <2> QED  BY <1>1, <1>7, <2>2, NothingReplayed
<1>8. CASE phase = "closed" /\ \E r \in Requests : WriteRequest(r)
  <2>1. PICK r \in Requests : WriteRequest(r)
    BY <1>8
  <2>2. PICK more : more = Append(at, Len(log) + 1)
    OBVIOUS
  <2>3. LogTrades(more)' /\ LogInv(more)'
    BY <1>1, <1>8, <2>1, <2>2, WriteRequestLogs, WriteRequestStep
  <2> QED  BY <1>1, <1>8, <2>3, NothingReplayed
<1> QED  BY <1>3, <1>4, <1>5, <1>6, <1>7, <1>8 DEF Record, FinishCall

-----------------------------------------------------------------------------
(* The replay collects them.                                               *)

\* A step between two requests.
LEMMA ReplayTradesIdle ==
  ASSUME NEW at, ReplayTrades(at), rPc = "idle", UNCHANGED recorderVars,
         UNCHANGED <<rLevels, rOrderIndex, rPc, ran, replayed>>
  PROVE  ReplayTrades(at)'
<1>1. log' = log /\ flushed' = flushed /\ RBookNow' = RBookNow /\ After(ran - 1)' = After(ran - 1)
  BY DEF recorderVars, RBookNow, After
<1>2. \A m : ReplayedUpTo(at, m)' <=> ReplayedUpTo(at, m)
  BY <1>1 DEF ReplayedUpTo
<1> QED  BY <1>1, <1>2 DEF ReplayTrades

LEMMA FileTradesSame ==
  ASSUME NEW at, FileTrades(at), UNCHANGED <<input, position, ran, logged>>,
         phase' = phase \/ (phase = "reading" /\ phase' = "done")
           \/ (phase = "done" /\ phase' = "exited") \/ phase' = "refused"
  PROVE  FileTrades(at)'
BY DEF FileTrades, Follows

\* From a line that is skipped on, logged is too short.
LEMMA SkipLineTrades ==
  ASSUME NEW at, LogInv(at), FileTrades(at), LogTypeInv, Replayer!SkipLine
  PROVE  FileTrades(at)'
<1>1. /\ phase = "reading" /\ phase' = "reading" /\ position' = position + 1
      /\ UNCHANGED <<input, ran, logged>> /\ input[position + 1] = Malformed
  BY DEF Replayer!SkipLine, Replayer!NextLine
<1>2. Len(logged) <= position - ran /\ Len(logged) \in Nat /\ position \in Nat /\ ran \in Nat
  BY LogLengths, WholeHasLength DEF LogTypeInv, ReplayTypes
<1>3. Len(logged') < position' - ran' /\ position + 1 \in 1 .. position'
  BY <1>1, <1>2
<1> QED  BY <1>1, <1>3 DEF FileTrades

\* The line of a trade is of the last request that was run.
LEMMA CollectTradeTrades ==
  ASSUME NEW at, LogInv(at), FileTrades(at), LogTypeInv, Replayer!CollectTrade
  PROVE  FileTrades(at)'
<1>1. /\ phase = "reading" /\ phase' = "reading" /\ position' = position + 1
      /\ UNCHANGED <<input, ran>> /\ input[position + 1] # Malformed
      /\ logged' = Append(logged, input[position + 1].trade)
  BY DEF Replayer!CollectTrade, Replayer!Reading, Replayer!NextLine
<1>2. Whole(logged) /\ Len(logged) \in Nat /\ position \in Nat /\ ran \in Nat /\ ran <= Len(at)
  BY LogLengths, WholeHasLength DEF LogTypeInv, ReplayTypes
<1>3. /\ Len(logged') = Len(logged) + 1
      /\ \A k \in 1 .. Len(logged) : logged'[k] = logged[k]
      /\ logged'[Len(logged) + 1] = input[position + 1].trade
  BY <1>1, <1>2, AppendWhole
<1>4. \A n \in 1 .. ran : at[n] <= position /\ at[n] \in Nat
  BY <1>2, LogLengths DEF LogInv, ReplayerInv
<1>5. CASE Len(logged) < position - ran /\ \E i \in 1 .. position : input[i] = Malformed
  BY <1>1, <1>2, <1>3, <1>5 DEF FileTrades
<1>6. ASSUME Len(logged) = position - ran,
             \A i \in 1 .. position : input[i] # Malformed,
             \A n \in 0 .. ran : \A i \in 1 .. position :
               Follows(at, ran, n, i) =>
                 i - n \in 1 .. Len(logged) /\ logged[i - n] = input[i].trade,
             \A k \in 1 .. Len(logged) :
               \E n \in 0 .. ran : \E i \in 1 .. position :
                 Follows(at, ran, n, i) /\ k = i - n
      PROVE  FileTrades(at)'
  <2>1. Len(logged') = position + 1 - ran
    BY <1>2, <1>3, <1>6
  <2>2. \A i \in 1 .. position + 1 : input[i] # Malformed
    BY <1>1, <1>2, <1>6
  <2>3. ASSUME NEW n \in 0 .. ran, NEW i \in 1 .. position + 1, Follows(at, ran, n, i)
        PROVE  i - n \in 1 .. Len(logged') /\ logged'[i - n] = input[i].trade
    <3>1. CASE i = position + 1
      <4>1. n = ran
        <5>1. n < ran => n + 1 \in 1 .. ran
          BY <1>2
        <5>2. n < ran => i < at[n + 1] /\ at[n + 1] <= position /\ at[n + 1] \in Nat
          BY <1>4, <2>3, <5>1 DEF Follows
        <5> QED  BY <1>2, <3>1, <5>2
      <4>2. i - n = Len(logged) + 1
        BY <1>2, <1>6, <3>1, <4>1
      <4> QED  BY <1>2, <1>3, <3>1, <4>2
    <3>2. CASE i # position + 1
      <4>1. i \in 1 .. position
        BY <1>2, <3>2
      <4>2. i - n \in 1 .. Len(logged) /\ logged[i - n] = input[i].trade
        BY <1>6, <2>3, <4>1
      <4> QED  BY <1>2, <1>3, <4>2
    <3> QED  BY <3>1, <3>2
  <2>4. ASSUME NEW k \in 1 .. Len(logged')
        PROVE  \E n \in 0 .. ran : \E i \in 1 .. position + 1 : Follows(at, ran, n, i) /\ k = i - n
    <3>1. CASE k = Len(logged) + 1
      <4>1. PICK i \in 1 .. position + 1 : i = position + 1
        BY <1>2
      <4>2. ran > 0 => at[ran] < i
        BY <1>2, <1>4, <4>1
      <4>3. Follows(at, ran, ran, i) /\ ran \in 0 .. ran
        BY <1>2, <4>2 DEF Follows
      <4>4. k = i - ran
        BY <1>2, <1>6, <3>1, <4>1
      <4> QED  BY <4>3, <4>4
    <3>2. CASE k # Len(logged) + 1
      <4>1. k \in 1 .. Len(logged)
        BY <1>2, <1>3, <3>2
      <4>2. PICK n \in 0 .. ran : \E i \in 1 .. position : Follows(at, ran, n, i) /\ k = i - n
        BY <1>6, <4>1
      <4>3. PICK i \in 1 .. position : Follows(at, ran, n, i) /\ k = i - n
        BY <4>2
      <4>4. i \in 1 .. position + 1
        BY <1>2
      <4> QED  BY <4>3, <4>4
    <3> QED  BY <3>1, <3>2
  <2>5. \A n \in 0 .. ran' : \A i \in 1 .. position' :
          Follows(at, ran', n, i) =>
            i - n \in 1 .. Len(logged') /\ logged'[i - n] = input'[i].trade
    BY <1>1, <2>3
  <2>6. \A k \in 1 .. Len(logged') :
          \E n \in 0 .. ran' : \E i \in 1 .. position' : Follows(at, ran', n, i) /\ k = i - n
    BY <1>1, <2>4
  <2>7. Len(logged') = position' - ran' /\ \A i \in 1 .. position' : input'[i] # Malformed
    BY <1>1, <1>2, <2>1, <2>2
  <2> QED  BY <2>5, <2>6, <2>7 DEF FileTrades, Follows
<1> QED  BY <1>1, <1>5, <1>6 DEF FileTrades

\* A request is run: what the replay collected is the trades of the calls before it.
LEMMA RunLineTrades ==
  ASSUME NEW at, LogInv(at), TradeInv(at), LogTypeInv, Replayer!RunLine,
         UNCHANGED recorderVars
  PROVE  ReplayTrades(at)'
<1>1. /\ phase = "reading" /\ rPc = "idle" /\ position < Len(input)
      /\ Replayer!NextLine # Malformed /\ ~IsTrade(Replayer!NextLine)
      /\ UNCHANGED <<position, ran, replayed>> /\ rPc' # "idle"
  <2>1. Replayer!NextLine.tag # "TRADE"
    BY DEF Replayer!RunLine, Replayer!Reading
  <2>2. ~IsTrade(Replayer!NextLine)
    BY <2>1 DEF IsTrade
  <2>3. rPc' # "idle"
    BY DEF Replayer!RunLine, Replayer!Book!AddOrder, Replayer!Book!CancelOrder,
       Replayer!Book!SubmitOrder, Replayer!Book!ModifyOrder, Replayer!Book!Answer
  <2> QED  BY <2>2, <2>3 DEF Replayer!RunLine, Replayer!Reading
<1>2. ran + 1 \in DOMAIN at /\ at[ran + 1] = position + 1
  BY <1>1, NextRequest
<1>3. /\ log' = log /\ flushed' = flushed
      /\ ran \in Nat /\ position \in Nat /\ ran + 1 \in 1 .. Len(at) /\ Len(at) \in Nat
  BY <1>2, LogLengths DEF recorderVars
<1>4. ASSUME position + 1 <= flushed
      PROVE  Len(replayed) = position - ran /\ ReplayedUpTo(at, ran + 1)
  <2>1. CASE ran = 0
    <3>1. replayed = <<>> /\ at[1] = 1
      BY <1>1, <1>3, <2>1 DEF TradeInv, ReplayTrades, LogTrades
    <3>2. position = 0
      BY <1>2, <1>3, <2>1, <3>1
    <3>3. ReplayedUpTo(at, ran + 1)
      BY <2>1 DEF ReplayedUpTo
    <3> QED  BY <2>1, <3>1, <3>2, <3>3, EmptyWhole
  <2>2. CASE ran > 0
    <3>1. ran \in DOMAIN at /\ ran \in DOMAIN completed /\ at[ran] < at[ran + 1]
      BY <1>2, <1>3, <2>2, LogLengths DEF LogInv, Places
    <3>2. at[ran] \in Nat /\ ran <= at[ran] /\ at[ran] <= position /\ at[ran] <= flushed
      BY <1>2, <1>3, <1>4, <3>1, LogLengths DEF TradeInv, LogTrades
    <3>3. PICK ts : /\ Yields(After(ran - 1), log[at[ran]], RBookNow, ts)
                    /\ Len(replayed) = at[ran] - ran + Len(ts)
                    /\ \A j \in 1 .. Len(ts) : replayed[at[ran] - ran + j] = ts[j]
                    /\ ReplayedUpTo(at, ran)
      BY <1>1, <2>2, <3>2 DEF TradeInv, ReplayTrades
    <3>4. PICK us : TradesOfCall(at, ran, us)
      BY <3>1 DEF TradeInv, LogTrades
    <3>5. ts = us
      BY <3>3, <3>4, YieldsUnique DEF TradesOfCall
    <3>6. End(at, ran) = position
      BY <1>2, <1>3 DEF End
    <3>7. ran = Len(completed) => Len(unlogged) = 0
      <4>1. ran = Len(completed) => Begun
        BY <1>3, LogLengths DEF LogInv, Places
      <4>2. Begun => unlogged = <<>>
        BY DEF Begun, TradeInv, LogTrades
      <4> QED  BY <4>1, <4>2, EmptyWhole
    <3>8. Len(ts) = position - at[ran]
          /\ \A i \in at[ran] + 1 .. position :
               log[i] = [tag |-> "TRADE", trade |-> ts[i - at[ran]]]
      BY <1>3, <3>2, <3>4, <3>5, <3>6, <3>7 DEF TradesOfCall
    <3>9. PICK a \in Nat : a = at[ran] /\ ran <= a /\ a <= position
      BY <3>2
    <3>10. PICK p \in Nat : p = position /\ Len(ts) = p - a
      BY <1>3, <3>8, <3>9
    <3>11. PICK m \in Nat : m = ran /\ m <= a /\ a <= p
      BY <1>3, <3>9, <3>10
    <3>12. Len(replayed) = p - m
      BY <3>3, <3>9, <3>10, <3>11
    <3>13. ASSUME NEW i \in a + 1 .. p
           PROVE  i - m \in 1 .. Len(replayed) /\ replayed[i - m] = log[i].trade
      <4>1. PICK j \in Nat : j = i - a
        OBVIOUS
      <4>2. j \in 1 .. Len(ts) /\ i - m \in 1 .. Len(replayed) /\ a - m + j = i - m
        BY <3>10, <3>11, <3>12, <4>1
      <4>3. replayed[a - m + j] = ts[j]
        BY <3>3, <3>9, <3>11, <4>2
      <4>4. log[i] = [tag |-> "TRADE", trade |-> ts[j]]
        BY <3>8, <3>9, <3>10, <4>1
      <4> QED  BY <4>2, <4>3, <4>4
    <3>14. ASSUME NEW n \in 1 .. ran, NEW i \in at[n] + 1 .. at[n + 1] - 1
           PROVE  i - n \in 1 .. Len(replayed) /\ replayed[i - n] = log[i].trade
      <4>1. CASE n = ran
        <5>1. i \in a + 1 .. p
          <6>1. at[n + 1] - 1 = p
            BY <1>2, <1>3, <3>10, <4>1
          <6> QED  BY <3>9, <3>14, <4>1, <6>1
        <5> QED  BY <3>11, <3>13, <4>1, <5>1
      <4>2. CASE n # ran
        <5>1. n \in 1 .. ran - 1
          BY <1>3, <4>2
        <5> QED  BY <3>3, <3>14, <5>1 DEF ReplayedUpTo
      <4> QED  BY <4>1, <4>2
    <3>15. ReplayedUpTo(at, ran + 1)
      <4> SUFFICES ASSUME NEW n \in 1 .. (ran + 1) - 1, NEW i \in at[n] + 1 .. at[n + 1] - 1
                   PROVE  i - n \in 1 .. Len(replayed) /\ replayed[i - n] = log[i].trade
        BY DEF ReplayedUpTo
      <4>1. n \in 1 .. ran
        BY <1>3
      <4> QED  BY <3>14, <4>1
    <3> QED  BY <3>10, <3>11, <3>12, <3>15
  <2> QED  BY <1>3, <2>1, <2>2
<1>5. ReplayedUpTo(at, ran + 1) => ReplayedUpTo(at, ran + 1)'
  BY <1>1, <1>3 DEF ReplayedUpTo
<1> QED  BY <1>1, <1>3, <1>4, <1>5 DEF ReplayTrades

LEMMA ReplayMatchTrades ==
  ASSUME NEW at, ReplayTrades(at), Replayer!ReplayMatch, UNCHANGED recorderVars
  PROVE  ReplayTrades(at)'
<1>1. rPc # "idle" /\ rPc' # "idle" /\ UNCHANGED <<position, ran, replayed>>
  BY DEF Replayer!ReplayMatch, Replayer!Book!ConsumeMaker, Replayer!Book!ReduceMaker,
     Replayer!Book!RestRemainder, Replayer!Book!DropRemainder, Replayer!Book!Answer,
     Replayer!Book!Fill
<1>2. log' = log /\ flushed' = flushed
  BY DEF recorderVars
<1>3. ReplayedUpTo(at, ran + 1) => ReplayedUpTo(at, ran + 1)'
  BY <1>1, <1>2 DEF ReplayedUpTo
<1> QED  BY <1>1, <1>2, <1>3 DEF ReplayTrades

\* A call of the replay returns, and its trades are added.
LEMMA LineDoneTrades ==
  ASSUME NEW at, LogInv(at), TradeInv(at), LogTypeInv, Replayer!LineDone,
         UNCHANGED recorderVars
  PROVE  ReplayTrades(at)'
<1>1. /\ rPc = "return" /\ rPc' = "idle" /\ RBookNow' = RBookNow
      /\ position' = position + 1 /\ ran' = ran + 1 /\ replayed' = replayed \o rTrades
  BY DEF Replayer!LineDone, Replayer!Book!Return, Replayer!Book!book, RBookNow
<1>2. /\ phase = "reading" /\ position < Len(input)
      /\ Replayer!NextLine # Malformed /\ ~IsTrade(Replayer!NextLine)
  BY <1>1 DEF LogInv, ReplayerInv
<1>3. ran + 1 \in DOMAIN at /\ at[ran + 1] = position + 1
  BY <1>2, NextRequest
<1>4. log' = log /\ flushed' = flushed /\ completed' = completed
  BY DEF recorderVars
<1>5. ran \in Nat /\ position \in Nat
  BY LogLengths
<1>0. PICK m \in Nat : m = ran + 1
  BY <1>5
<1>6. ASSUME position + 1 <= flushed
      PROVE  \E ts : /\ Yields(After(ran), log[at[m]], RBookNow, ts) /\ Whole(ts)
                     /\ Len(replayed') = at[m] - m + Len(ts)
                     /\ \A j \in 1 .. Len(ts) :
                          replayed'[at[m] - m + j] = ts[j]
                     /\ ReplayedUpTo(at, m)'
  <2>1. PICK ts : ts = rTrades
    OBVIOUS
  <2>2. Whole(ts) /\ Whole(replayed) /\ Len(replayed) \in Nat /\ Len(ts) \in Nat
    BY <2>1, WholeHasLength DEF LogTypeInv, ReplayTypes
  <2>3. Len(replayed) = position - ran /\ ReplayedUpTo(at, m)
    BY <1>0, <1>1, <1>6 DEF TradeInv, ReplayTrades
  <2>4. /\ Len(replayed') = Len(replayed) + Len(ts)
        /\ \A k \in 1 .. Len(replayed) : replayed'[k] = replayed[k]
        /\ \A j \in 1 .. Len(ts) : replayed'[Len(replayed) + j] = ts[j]
    BY <1>1, <2>1, <2>2, ConcatWhole
  <2>5. at[m] - m = Len(replayed)
    BY <1>0, <1>3, <1>5, <2>3
  <2>6. Yields(After(ran), log[at[m]], RBookNow, ts)
    <3>1. Leads(Called(After(ran), Replayer!NextLine), RFrameNow)
      BY <1>1, <1>6 DEF LogInv, Followed
    <3>2. /\ RFrameNow.pc # "match" /\ RFrameNow.trades = ts
          /\ RBookNow = [levels |-> RFrameNow.levels, orderIndex |-> RFrameNow.orderIndex]
      BY <1>1, <2>1 DEF RFrameNow, Frame, RBookNow
    <3>3. Replayer!NextLine = log[at[m]]
      <4>1. log[at[m]] \in Requests
        BY <1>0, <1>3 DEF LogInv, Places
      <4>2. ~IsTrade(log[position + 1])
        BY <1>0, <1>3, <4>1, RequestIsNoTrade
      <4>3. position + 1 \in 1 .. flushed
        BY <1>5, <1>6, LogLengths
      <4>4. input[position + 1] = log[position + 1]
        BY <1>2, <4>2, <4>3 DEF LogInv, FileInv
      <4> QED  BY <1>0, <1>3, <4>4 DEF Replayer!NextLine
    <3> QED  BY <3>1, <3>2, <3>3 DEF Yields
  <2>7. ReplayedUpTo(at, m)'
    <3>1. ASSUME NEW n \in 1 .. m - 1, NEW i \in at[n] + 1 .. at[n + 1] - 1
          PROVE  i - n \in 1 .. Len(replayed') /\ replayed'[i - n] = log'[i].trade
      <4>1. i - n \in 1 .. Len(replayed) /\ replayed[i - n] = log[i].trade
        BY <2>3, <3>1 DEF ReplayedUpTo
      <4> QED  BY <1>4, <2>2, <2>4, <4>1
    <3> QED  BY <3>1 DEF ReplayedUpTo
  <2>8. Len(replayed') = at[m] - m + Len(ts)
    BY <2>4, <2>5
  <2>9. \A j \in 1 .. Len(ts) : replayed'[at[m] - m + j] = ts[j]
    BY <2>4, <2>5
  <2> QED  BY <2>2, <2>6, <2>7, <2>8, <2>9
<1>7. m - 1 = ran /\ m > 0 /\ ran' = m
  BY <1>0, <1>1, <1>5
<1>8. After(ran - 1)' = After(ran)
  BY <1>4, <1>7 DEF After
<1>9. at[m] = position + 1
  BY <1>0, <1>3
<1>10. rPc' = "idle" /\ ran' > 0
  BY <1>1, <1>5
<1>11. ReplayedUpTo(at, m)' => ReplayedUpTo(at, ran)'
  BY <1>7 DEF ReplayedUpTo
<1>12. ASSUME at[ran'] <= flushed'
       PROVE  \E ts : /\ Yields(After(ran - 1)', log'[at[ran']], RBookNow', ts) /\ Whole(ts)
                      /\ Len(replayed') = at[ran'] - ran' + Len(ts)
                      /\ \A j \in 1 .. Len(ts) : replayed'[at[ran'] - ran' + j] = ts[j]
                      /\ ReplayedUpTo(at, ran)'
  <2>1. position + 1 <= flushed
    BY <1>4, <1>7, <1>9, <1>12
  <2>2. PICK ts : /\ Yields(After(ran), log[at[m]], RBookNow, ts) /\ Whole(ts)
                  /\ Len(replayed') = at[m] - m + Len(ts)
                  /\ \A j \in 1 .. Len(ts) : replayed'[at[m] - m + j] = ts[j]
                  /\ ReplayedUpTo(at, m)'
    BY <1>6, <2>1
  <2>3. Yields(After(ran - 1)', log'[at[ran']], RBookNow', ts)
    BY <1>1, <1>4, <1>7, <1>8, <2>2
  <2>4. Len(replayed') = at[ran'] - ran' + Len(ts)
    BY <1>7, <2>2
  <2>5. \A j \in 1 .. Len(ts) : replayed'[at[ran'] - ran' + j] = ts[j]
    BY <1>7, <2>2
  <2> QED  BY <1>11, <2>2, <2>3, <2>4, <2>5
<1>13. ReplayTrades(at)' =
         /\ rPc' = "idle" /\ ran' = 0 => replayed' = <<>>
         /\ rPc' = "idle" /\ ran' > 0 /\ at[ran'] <= flushed' =>
              \E ts : /\ Yields(After(ran - 1)', log'[at[ran']], RBookNow', ts) /\ Whole(ts)
                      /\ Len(replayed') = at[ran'] - ran' + Len(ts)
                      /\ \A j \in 1 .. Len(ts) : replayed'[at[ran'] - ran' + j] = ts[j]
                      /\ ReplayedUpTo(at, ran)'
         /\ rPc' # "idle" /\ position' + 1 <= flushed' =>
              Len(replayed') = position' - ran' /\ ReplayedUpTo(at, ran + 1)'
  BY DEF ReplayTrades, Yields
<1>14. ran' # 0
  BY <1>5, <1>1
<1> QED  BY <1>10, <1>12, <1>13, <1>14

\* The line of a request is no trade of the file.
LEMMA LineDoneFile ==
  ASSUME NEW at, LogInv(at), FileTrades(at), LogTypeInv, Replayer!LineDone
  PROVE  FileTrades(at)'
<1>1. /\ phase' = phase /\ rPc = "return" /\ position' = position + 1 /\ ran' = ran + 1
      /\ UNCHANGED <<input, logged>>
  BY DEF Replayer!LineDone, Replayer!Book!Return
<1>2. /\ phase = "reading" /\ position < Len(input)
      /\ Replayer!NextLine # Malformed /\ ~IsTrade(Replayer!NextLine)
  BY <1>1 DEF LogInv, ReplayerInv
<1>3. ran + 1 \in DOMAIN at /\ at[ran + 1] = position + 1
  BY <1>2, NextRequest
<1>4. Len(logged) \in Nat /\ position \in Nat /\ ran \in Nat
  BY LogLengths, WholeHasLength DEF LogTypeInv, ReplayTypes
<1>5. PICK m \in Nat : m = ran + 1
  BY <1>4
<1>6. PICK p \in Nat : p = position + 1
  BY <1>4
<1>7. /\ at[m] = p /\ m - 1 = ran /\ p - 1 = position /\ m > 0 /\ p > 0
      /\ ran' = m /\ position' = p /\ input[p] # Malformed
  BY <1>1, <1>2, <1>3, <1>4, <1>5, <1>6 DEF Replayer!NextLine
<1>8. CASE Len(logged) < position - ran /\ \E i \in 1 .. position : input[i] = Malformed
  <2>1. Len(logged) < p - m /\ \E i \in 1 .. p : input[i] = Malformed
    BY <1>4, <1>5, <1>6, <1>8
  <2> QED  BY <1>1, <1>7, <2>1 DEF FileTrades
<1>9. ASSUME Len(logged) = position - ran,
             \A i \in 1 .. position : input[i] # Malformed,
             \A n \in 0 .. ran : \A i \in 1 .. position :
               Follows(at, ran, n, i) =>
                 i - n \in 1 .. Len(logged) /\ logged[i - n] = input[i].trade,
             \A k \in 1 .. Len(logged) :
               \E n \in 0 .. ran : \E i \in 1 .. position :
                 Follows(at, ran, n, i) /\ k = i - n
      PROVE  FileTrades(at)'
  <2>1. Len(logged) = p - m
    BY <1>4, <1>5, <1>6, <1>9
  <2>2. \A i \in 1 .. p : input[i] # Malformed
    <3>1. \A i \in 1 .. p : i = p \/ i \in 1 .. position
      BY <1>4, <1>6
    <3> QED  BY <1>7, <1>9, <3>1
  <2>3. ASSUME NEW n \in 0 .. m, NEW i \in 1 .. p, Follows(at, m, n, i)
        PROVE  i - n \in 1 .. Len(logged) /\ logged[i - n] = input[i].trade
    <3>1. n # m
      BY <1>5, <1>7, <2>3 DEF Follows
    <3>2. n \in 0 .. ran /\ n < m
      BY <1>5, <1>7, <3>1
    <3>3. Follows(at, ran, n, i)
      BY <1>4, <1>5, <2>3, <3>2 DEF Follows
    <3>4. i # p
      <4>1. CASE n = ran
        BY <1>5, <1>6, <1>7, <2>3, <3>2, <4>1 DEF Follows
      <4>2. CASE n # ran
        <5>1. n + 1 \in DOMAIN at /\ n + 1 <= ran
          BY <1>3, <1>4, <3>2, <4>2, LogLengths
        <5>2. at[n + 1] <= position /\ at[n + 1] \in Nat /\ i < at[n + 1]
          BY <2>3, <3>2, <5>1, LogLengths DEF LogInv, ReplayerInv, Follows
        <5> QED  BY <1>4, <1>6, <5>2
      <4> QED  BY <4>1, <4>2
    <3>5. i \in 1 .. position
      BY <1>4, <1>6, <3>4
    <3> QED  BY <1>9, <3>2, <3>3, <3>5
  <2>4. ASSUME NEW k \in 1 .. Len(logged)
        PROVE  \E n \in 0 .. m : \E i \in 1 .. p : Follows(at, m, n, i) /\ k = i - n
    <3>1. PICK n \in 0 .. ran : \E i \in 1 .. position : Follows(at, ran, n, i) /\ k = i - n
      BY <1>9
    <3>2. PICK i \in 1 .. position : Follows(at, ran, n, i) /\ k = i - n
      BY <3>1
    <3>3. Follows(at, m, n, i)
      <4>1. n + 1 = m \/ n < ran
        BY <1>4, <1>5
      <4>2. n + 1 = m => i < at[n + 1]
        BY <1>4, <1>6, <1>7
      <4> QED  BY <3>2, <4>1, <4>2 DEF Follows
    <3>4. n \in 0 .. m /\ i \in 1 .. p
      BY <1>4, <1>5, <1>6
    <3> QED  BY <3>2, <3>3, <3>4
  <2>5. \A n \in 0 .. ran' : \A i \in 1 .. position' :
          Follows(at, ran', n, i) =>
            i - n \in 1 .. Len(logged') /\ logged'[i - n] = input'[i].trade
    BY <1>1, <1>7, <2>3
  <2>6. \A k \in 1 .. Len(logged') :
          \E n \in 0 .. ran' : \E i \in 1 .. position' : Follows(at, ran', n, i) /\ k = i - n
    BY <1>1, <1>7, <2>4
  <2>7. Len(logged') = position' - ran' /\ \A i \in 1 .. position' : input'[i] # Malformed
    BY <1>1, <1>7, <2>1, <2>2
  <2> QED  BY <2>5, <2>6, <2>7 DEF FileTrades, Follows
<1> QED  BY <1>1, <1>2, <1>8, <1>9 DEF FileTrades

\* compareTrades finds no mismatch exactly when the two lists are the same.
LEMMA NoDifference ==
  ASSUME Whole(replayed), Whole(logged)
  PROVE  Cardinality(Replayer!Differences) = 0 <=> replayed = logged
<1>1. /\ Len(replayed) \in Nat /\ DOMAIN replayed = 1 .. Len(replayed)
      /\ Len(logged) \in Nat /\ DOMAIN logged = 1 .. Len(logged)
  BY WholeHasLength
<1>2. PICK D : D = Replayer!Differences
  OBVIOUS
<1>3. Cardinality(D) = 0 <=> D = {}
  <2>1. IsFiniteSet(D)
    BY <1>2, DifferencesAreFew
  <2> QED  BY <2>1, FS_EmptySet
<1>4. ASSUME D = {}
      PROVE  replayed = logged
  <2>1. DOMAIN replayed \cup DOMAIN logged \subseteq
          {i \in DOMAIN replayed \cap DOMAIN logged : replayed[i] = logged[i]}
    BY <1>2, <1>4 DEF Replayer!Differences
  <2>2. \A i \in 1 .. Len(replayed) : i \in 1 .. Len(logged) /\ replayed[i] = logged[i]
    BY <1>1, <2>1
  <2>3. \A i \in 1 .. Len(logged) : i \in 1 .. Len(replayed)
    BY <1>1, <2>1
  <2>4. Len(replayed) = Len(logged)
    <3>1. Len(replayed) > 0 => Len(replayed) <= Len(logged)
      BY <1>1, <2>2
    <3>2. Len(logged) > 0 => Len(logged) <= Len(replayed)
      BY <1>1, <2>3
    <3>3. PICK n \in Nat, k \in Nat : n = Len(replayed) /\ k = Len(logged)
      BY <1>1
    <3>4. (n > 0 => n <= k) /\ (k > 0 => k <= n)
      BY <3>1, <3>2, <3>3
    <3>5. n = k
      BY <3>4
    <3> QED  BY <3>3, <3>5
  <2> QED  BY <2>2, <2>4, WholeEqual
<1>5. replayed = logged => D = {}
  BY <1>2 DEF Replayer!Differences
<1> QED  BY <1>2, <1>3, <1>4, <1>5

LEMMA CompareVerdict ==
  ASSUME LogTypeInv, Replayer!Compare
  PROVE  Verdict'
<1>1. mismatches' = Cardinality(Replayer!Differences) /\ phase' = "done"
      /\ UNCHANGED <<replayed, logged>>
  BY DEF Replayer!Compare, Replayer!Cardinality, Cardinality
<1>2. Cardinality(Replayer!Differences) = 0 <=> replayed = logged
  BY NoDifference DEF LogTypeInv, ReplayTypes
<1> QED  BY <1>1, <1>2 DEF Verdict

\* The steps of the replay.
LEMMA ReplayTradesStep ==
  ASSUME NEW at, LogInv(at), TradeInv(at), LogTypeInv, Replayer!ReplayStep,
         UNCHANGED recorderVars
  PROVE  TradeInv(at)'
<1> USE DEF TradeInv
<1>1. LogTrades(at)'
  <2>1. log' = log /\ completed' = completed /\ unlogged' = unlogged /\ stage' = stage
    BY DEF recorderVars
  <2> QED  BY <2>1, LogTradesStay DEF LogTrades, Begun
<1>2. ASSUME phase' = "reading"
      PROVE  Verdict'
  BY <1>2 DEF Verdict
<1>3. CASE Replayer!SkipLine
  <2>1. /\ rPc = "idle" /\ phase' = "reading"
        /\ UNCHANGED <<rLevels, rOrderIndex, rPc, ran, replayed>>
    BY <1>3 DEF Replayer!SkipLine, Replayer!bookVars
  <2> QED  BY <1>1, <1>2, <1>3, <2>1, SkipLineTrades, ReplayTradesIdle
<1>4. CASE Replayer!CollectTrade
  <2>1. /\ rPc = "idle" /\ phase' = "reading"
        /\ UNCHANGED <<rLevels, rOrderIndex, rPc, ran, replayed>>
    BY <1>4 DEF Replayer!CollectTrade, Replayer!Reading, Replayer!bookVars
  <2> QED  BY <1>1, <1>2, <1>4, <2>1, CollectTradeTrades, ReplayTradesIdle
<1>5. CASE Replayer!RunLine
  <2>1. phase = "reading" /\ UNCHANGED <<input, position, ran, logged, phase>>
    BY <1>5 DEF Replayer!RunLine, Replayer!Reading
  <2> QED  BY <1>1, <1>2, <1>5, <2>1, RunLineTrades, FileTradesSame
<1>6. CASE Replayer!ReplayMatch
  <2>1. rPc # "idle" /\ UNCHANGED <<input, position, ran, logged, phase>>
    BY <1>6 DEF Replayer!ReplayMatch, Replayer!Book!ConsumeMaker, Replayer!Book!ReduceMaker,
       Replayer!Book!RestRemainder, Replayer!Book!DropRemainder
  <2>2. phase = "reading"
    BY <2>1 DEF LogInv, ReplayerInv
  <2> QED  BY <1>1, <1>2, <1>6, <2>1, <2>2, ReplayMatchTrades, FileTradesSame
<1>7. CASE Replayer!LineDone
  <2>1. rPc = "return" /\ phase' = phase
    BY <1>7 DEF Replayer!LineDone, Replayer!Book!Return
  <2>2. phase = "reading"
    BY <2>1 DEF LogInv, ReplayerInv
  <2> QED  BY <1>1, <1>2, <1>7, <2>1, <2>2, LineDoneTrades, LineDoneFile
<1>8. CASE Replayer!Compare \/ Replayer!Refuse \/ Replayer!Exit
  <2>1. /\ UNCHANGED <<rLevels, rOrderIndex, rPc, input, position, ran, replayed, logged>>
        /\ \/ phase = "reading" /\ phase' = "done" /\ rPc = "idle"
           \/ phase = "closed" /\ phase' = "refused"
           \/ phase = "done" /\ phase' = "exited"
    BY <1>8 DEF Replayer!Compare, Replayer!Refuse, Replayer!Exit, Replayer!bookVars
  <2>2. rPc = "idle"
    BY <2>1 DEF LogInv, ReplayerInv
  <2>3. FileTrades(at)' /\ ReplayTrades(at)'
    BY <2>1, <2>2, ReplayTradesIdle, FileTradesSame
  <2>4. Verdict'
    <3>1. Replayer!Exit => Verdict'
      BY DEF Replayer!Exit, Verdict
    <3>2. Replayer!Refuse => Verdict'
      BY DEF Replayer!Refuse, Verdict
    <3> QED  BY <1>8, <3>1, <3>2, CompareVerdict
  <2> QED  BY <1>1, <2>3, <2>4
<1> QED  BY <1>3, <1>4, <1>5, <1>6, <1>7, <1>8 DEF Replayer!ReplayStep

LEMMA OpenFileTrades ==
  ASSUME NEW at, LogInv(at), TradeInv(at), LogTypeInv, OpenFile
  PROVE  TradeInv(at)'
<1> USE DEF TradeInv
<1>1. /\ UNCHANGED recorderVars /\ phase = "closed" /\ phase' = "reading"
      /\ UNCHANGED <<rLevels, rOrderIndex, rPc, position, ran, replayed, logged>>
  BY DEF OpenFile, Replayer!Open, Replayer!bookVars
<1>2. LogTrades(at)'
  <2>1. log' = log /\ completed' = completed /\ unlogged' = unlogged /\ stage' = stage
    BY <1>1 DEF recorderVars
  <2> QED  BY <2>1, LogTradesStay DEF LogTrades, Begun
<1>3. rPc = "idle" /\ position = 0 /\ ran = 0
  BY <1>1 DEF LogInv, ReplayerInv
<1>4. ReplayTrades(at)'
  BY <1>1, <1>3, ReplayTradesIdle
<1>5. Len(logged) = 0
  BY <1>3, WholeHasLength DEF LogTypeInv, ReplayTypes
<1>6. FileTrades(at)'
  <2>1. position' = 0 /\ ran' = 0 /\ Len(logged') = 0
    BY <1>1, <1>3, <1>5
  <2> QED  BY <2>1 DEF FileTrades
<1>7. Verdict'
  BY <1>1 DEF Verdict
<1> QED  BY <1>2, <1>4, <1>6, <1>7

-----------------------------------------------------------------------------
(* The theorem about the verdict.                                          *)

LEMMA InitTradeInv == Init => TradeInv(<<>>)
<1> SUFFICES ASSUME Init
             PROVE  TradeInv(<<>>)
  OBVIOUS
<1> USE DEF Init, RecorderInit, Replayer!ReplayInit
<1>1. Whole(<<>>) /\ Len(<<>>) = 0 /\ DOMAIN <<>> = {}
  BY EmptyWhole
<1>2. LogTrades(<<>>)
  BY <1>1 DEF LogTrades, Begun
<1>3. ReplayTrades(<<>>) /\ FileTrades(<<>>) /\ Verdict
  BY <1>1 DEF ReplayTrades, FileTrades, Verdict, Replayer!Book!Init
<1> QED  BY <1>2, <1>3 DEF TradeInv

SomeTradeInv == \E at : LogInv(at) /\ TradeInv(at)

LEMMA TradeInvStep ==
  ASSUME PrintablePrices, OnlyTradesDamaged, SomeTradeInv, LogTypeInv, Book!TypeOK,
         [Next]_vars
  PROVE  SomeTradeInv'
<1>1. PICK at : LogInv(at) /\ TradeInv(at)
  BY DEF SomeTradeInv
<1>2. CASE Record
  BY <1>1, <1>2, RecordTradesStep DEF SomeTradeInv
<1>3. CASE OpenFile
  BY <1>1, <1>3, OpenFileStep, OpenFileTrades DEF SomeTradeInv
<1>4. CASE Replayer!ReplayStep /\ UNCHANGED recorderVars
  BY <1>1, <1>4, ReplayStepKeepsInv, ReplayTradesStep DEF SomeTradeInv
<1>5. CASE UNCHANGED vars
  <2>1. UNCHANGED recorderVars /\ UNCHANGED replayVars
    BY <1>5 DEF vars
  <2>2. /\ flushed' = flushed /\ log' = log /\ completed' = completed
        /\ unlogged' = unlogged /\ stage' = stage /\ \A n : After(n)' = After(n)
    BY <2>1 DEF recorderVars, After
  <2>3. LogInv(at)'
    BY <1>1, <2>1, <2>2, RecorderUnchanged, ReplayUnchanged DEF LogInv
  <2>4. LogTrades(at)'
    BY <1>1, <2>2, LogTradesStay DEF TradeInv, LogTrades, Begun
  <2>5. ReplayTrades(at)' /\ FileTrades(at)' /\ Verdict'
    BY <1>1, <2>1, <2>2, ReplayTradesStay DEF TradeInv
  <2> QED  BY <2>3, <2>4, <2>5 DEF TradeInv, SomeTradeInv
<1> QED  BY <1>2, <1>3, <1>4, <1>5 DEF Next

\* The verdict of compareTrades, and the exit status of replay_tool, are right: the
\* trades of the replay are those of the file exactly when the file is the log,
\* whatever was cut off it, torn or damaged, and whatever the calls and their trades.
THEOREM VerdictAlwaysRight ==
  ASSUME PrintablePrices, OnlyTradesDamaged
  PROVE  Spec => []VerdictIsRight
<1>1. Init => SomeTradeInv
  BY InitLogInv, InitTradeInv DEF SomeTradeInv
<1>2. SomeTradeInv /\ LogTypeInv /\ Book!TypeOK /\ [Next]_vars => SomeTradeInv'
  BY TradeInvStep
<1>3. SomeTradeInv /\ LogTypeInv => VerdictIsRight
  BY TradeInvMeans DEF SomeTradeInv
<1> QED
  BY <1>1, <1>2, <1>3, InitLogTypeInv, LogTypeInvStep, RecordedBookTypes, PTL DEF Spec
=============================================================================

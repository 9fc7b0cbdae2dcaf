--------------------------- MODULE FillOrKillProofs ---------------------------
(***************************************************************************)
(* What the levels of OrderBook add up to, for every set of ids, prices    *)
(* and quantities and every width of uint64_t.  Of the quantities: what    *)
(* the preview canFullyFill_ promises for a fill-or-kill order, the        *)
(* matching loop keeps, whatever the callers send.  Of the orders: the     *)
(* queries that read the maps and those that read the index agree.         *)
(***************************************************************************)
EXTENDS OrderBookPriorityProofs

-----------------------------------------------------------------------------
(* The quantities of one map.                                              *)

SlotsOf(map) == UNION {{p} \X DOMAIN map[p] : p \in DOMAIN map}
TotalOf(map, S) == MapThenSumSet(LAMBDA x : map[x[1]][x[2]].quantity, S)
CrossingOf(map, o) == {x \in SlotsOf(map) : Crosses(o.side, o.price, x[1])}
LiquidityOf(map, o) == TotalOf(map, CrossingOf(map, o))

\* The quantities as a function, and the recursion TotalOf follows.
QuantityAt(map, S) == [x \in S |-> map[x[1]][x[2]].quantity]
TotalStep(g, map, t) ==
  IF t = {} THEN 0
  ELSE LET x == CHOOSE y \in t : TRUE IN map[x[1]][x[2]].quantity + g[t \ {x}]
Totals(map, S) == CHOOSE g : g = [t \in SUBSET S |-> TotalStep(g, map, t)]

LEMMA SlotIsPlace ==
  ASSUME NEW map, IsBookMap(map)
  PROVE  /\ \A x \in SlotsOf(map) :
              /\ x = <<x[1], x[2]>> /\ x[1] \in DOMAIN map /\ x[2] \in DOMAIN map[x[1]]
              /\ map[x[1]][x[2]].quantity \in Uint64
         /\ \A p \in DOMAIN map : \A k \in DOMAIN map[p] : <<p, k>> \in SlotsOf(map)
<1>1. \A x \in SlotsOf(map) :
        x = <<x[1], x[2]>> /\ x[1] \in DOMAIN map /\ x[2] \in DOMAIN map[x[1]]
  BY DEF SlotsOf
<1>2. ASSUME NEW p \in DOMAIN map, NEW k \in DOMAIN map[p]
      PROVE  map[p][k].quantity \in Uint64 /\ <<p, k>> \in SlotsOf(map)
  <2>1. map[p][k] \in Order
    BY DEF IsBookMap
  <2> QED  BY <2>1 DEF Order, SlotsOf
<1> QED  BY <1>1, <1>2

\* A set of integers whose subsets have a first and a last one is finite.
LEMMA PricesFinite == IsFiniteSet(Prices)
<1>1. CASE Prices = {}
  BY <1>1, FS_EmptySet
<1>2. CASE Prices # {}
  <2>1. PICK lo \in Prices : \A q \in Prices : lo <= q
    BY <1>2, PricesAssumption
  <2>2. PICK hi \in Prices : \A q \in Prices : q <= hi
    BY <1>2, PricesAssumption
  <2>3. lo \in Int /\ hi \in Int /\ Prices \subseteq lo .. hi
    BY <2>1, <2>2, PricesAssumption
  <2> QED  BY <2>3, FS_Interval, FS_Subset
<1> QED  BY <1>1, <1>2

LEMMA SlotsFinite ==
  ASSUME NEW map, IsBookMap(map)
  PROVE  IsFiniteSet(SlotsOf(map))
<1> DEFINE D == DOMAIN map
           h == [p \in D |-> {p} \X DOMAIN map[p]]
           R == {h[p] : p \in D}
<1>1. IsFiniteSet(D)
  BY PricesFinite, FS_Subset DEF IsBookMap
<1>2. \A p \in D : IsFiniteSet(h[p])
  <2> SUFFICES ASSUME NEW p \in D
               PROVE  IsFiniteSet({p} \X DOMAIN map[p])
    OBVIOUS
  <2>1. Len(map[p]) \in Nat /\ DOMAIN map[p] = 1 .. Len(map[p])
    BY DEF IsBookMap
  <2>2. IsFiniteSet(DOMAIN map[p])
    BY <2>1, FS_Interval
  <2>3. IsFiniteSet({p})
    BY FS_Singleton
  <2> QED  BY <2>2, <2>3, FS_Product
<1>3. SlotsOf(map) = UNION R
  BY DEF SlotsOf
<1> HIDE DEF h, D
<1>4. IsFiniteSet(R)
  BY <1>1, ImageIsFinite
<1>5. \A r \in R : IsFiniteSet(r)
  BY <1>2
<1> HIDE DEF R
<1> QED  BY <1>3, <1>4, <1>5, FS_UNION

\* The book's total is a sum as FiniteSums has it.
LEMMA TotalIsSum ==
  ASSUME NEW map, NEW S, IsFiniteSet(S)
  PROVE  TotalOf(map, S) = SumOf(QuantityAt(map, S), S)
<1> DEFINE w == QuantityAt(map, S)
           h == Sums(w, S)
           g == Totals(map, S)
<1>1. \A f : \A t \in SUBSET S : TotalStep(f, map, t) = SumStep(f, w, t)
  <2> SUFFICES ASSUME NEW f, NEW t \in SUBSET S
               PROVE  TotalStep(f, map, t) = SumStep(f, w, t)
    OBVIOUS
  <2>1. CASE t = {}
    BY <2>1 DEF TotalStep, SumStep
  <2>2. CASE t # {}
    <3> DEFINE x == CHOOSE y \in t : TRUE
    <3>1. x \in t
      BY <2>2
    <3>2. w[x] = map[x[1]][x[2]].quantity
      BY <3>1 DEF QuantityAt
    <3>3. TotalStep(f, map, t) = map[x[1]][x[2]].quantity + f[t \ {x}]
      BY <2>2 DEF TotalStep
    <3>4. SumStep(f, w, t) = w[x] + f[t \ {x}]
      BY <2>2 DEF SumStep
    <3> QED  BY <3>2, <3>3, <3>4
  <2> QED  BY <2>1, <2>2
<1>2. h = [t \in SUBSET S |-> SumStep(h, w, t)]
  <2> HIDE DEF w
  <2>1. IsSums(h, w, S)
    BY SumsExist
  <2> QED  BY <2>1 DEF IsSums
<1> HIDE DEF w, h
<1>3. h = [t \in SUBSET S |-> TotalStep(h, map, t)]
  BY <1>1, <1>2
<1>4. g = [t \in SUBSET S |-> TotalStep(g, map, t)]
  BY <1>3 DEF Totals
<1> HIDE DEF g
<1>5. \A t \in SUBSET S : g[t] = SumStep(g, w, t)
  BY <1>1, <1>4
<1>6. \A t \in SUBSET S : h[t] = SumStep(h, w, t)
  BY <1>2
<1>7. g[S] = h[S]
  BY <1>5, <1>6, SumsAgree
<1>8. TotalOf(map, S) = g[S]
  BY DEF TotalOf, g, Totals, TotalStep, MapThenSumSet, MapThenFoldSet
<1> QED  BY <1>7, <1>8, SumOfSums DEF h, w

LEMMA TotalEmpty ==
  ASSUME NEW map
  PROVE  TotalOf(map, {}) = 0
BY FS_EmptySet, TotalIsSum, SumEmpty

LEMMA TotalIsNat ==
  ASSUME NEW map, IsBookMap(map), NEW S \in SUBSET SlotsOf(map)
  PROVE  /\ IsFiniteSet(S) /\ TotalOf(map, S) \in Nat
         /\ \A x \in S : QuantityAt(map, S)[x] \in Nat
<1>1. IsFiniteSet(S)
  BY SlotsFinite, FS_Subset
<1>2. \A x \in S : QuantityAt(map, S)[x] \in Nat
  BY SlotIsPlace, QuantitiesAssumption DEF QuantityAt, Uint64
<1>3. SumOf(QuantityAt(map, S), S) \in Nat
  BY <1>1, <1>2, SumIsNat
<1> QED  BY <1>1, <1>2, <1>3, TotalIsSum

LEMMA TotalOfPart ==
  ASSUME NEW map, IsBookMap(map), NEW S \in SUBSET SlotsOf(map), NEW P \in SUBSET S
  PROVE  TotalOf(map, P) <= TotalOf(map, S)
<1>1. /\ IsFiniteSet(S) /\ IsFiniteSet(P)
      /\ \A x \in S : QuantityAt(map, S)[x] \in Nat
  BY TotalIsNat
<1>2. SumOf(QuantityAt(map, S), P) <= SumOf(QuantityAt(map, S), S)
  BY <1>1, SumOfPart
<1>3. SumOf(QuantityAt(map, P), P) = SumOf(QuantityAt(map, S), P)
  <2>1. \A x \in P : QuantityAt(map, P)[x] = QuantityAt(map, S)[x]
    BY DEF QuantityAt
  <2> QED  BY <1>1, <2>1, SumSameValues
<1> QED  BY <1>1, <1>2, <1>3, TotalIsSum

-----------------------------------------------------------------------------
(* The preview and the liquidity.                                          *)

LEMMA LiquidityIsNat ==
  ASSUME NEW map, IsBookMap(map), NEW o
  PROVE  LiquidityOf(map, o) \in Nat
BY TotalIsNat DEF LiquidityOf, CrossingOf

\* A sum that has wrapped is no larger than the sum.
LEMMA WrappedIsLess ==
  ASSUME NEW n \in Nat, NEW m \in Nat
  PROVE  /\ n % (m + 1) \in Nat /\ n % (m + 1) <= n
         /\ n <= m => n % (m + 1) = n
OBVIOUS

\* The orders up to a place that crosses cross.
PlacesUpTo(map, s, x) ==
  {y \in SlotsOf(map) : \/ Better(s, y[1], x[1])
                        \/ y[1] = x[1] /\ y[2] <= x[2]}

LEMMA UpToCrosses ==
  ASSUME NEW map, IsBookMap(map), NEW o \in Order, NEW x \in CrossingOf(map, o)
  PROVE  PlacesUpTo(map, Opposite(o.side), x) \subseteq CrossingOf(map, o)
<1> SUFFICES ASSUME NEW y \in PlacesUpTo(map, Opposite(o.side), x)
             PROVE  Crosses(o.side, o.price, y[1])
  BY DEF PlacesUpTo, CrossingOf
<1>1. x \in SlotsOf(map) /\ Crosses(o.side, o.price, x[1])
  BY DEF CrossingOf
<1>2. y \in SlotsOf(map) /\ (Better(Opposite(o.side), y[1], x[1]) \/ y[1] = x[1])
  BY DEF PlacesUpTo
<1>3. x[1] \in Int /\ y[1] \in Int /\ o.price \in Int /\ o.side \in Side
  BY <1>1, <1>2, SlotIsPlace, PricesAssumption DEF IsBookMap, Order
<1> QED  BY <1>1, <1>2, <1>3 DEF Crosses, Better, Opposite, Side

\* What the preview counted is there, even if its sum has wrapped.
LEMMA PreviewIsSafe ==
  ASSUME BookTypeOK, NEW o \in Order, CanFullyFill(o)
  PROVE  o.quantity <= LiquidityOf(levels[Opposite(o.side)], o)
<1> DEFINE s == Opposite(o.side)
           map == levels[s]
<1>1. s \in Side /\ IsBookMap(map)
  BY DEF Opposite, Side, BookTypeOK
<1>2. PICK x \in Slots(s) : /\ Crosses(o.side, o.price, x[1])
                            /\ Total(s, UpTo(s, x)) % (MaxUint + 1) >= o.quantity
  BY DEF CanFullyFill
<1>3. Slots(s) = SlotsOf(map)
  BY DEF Slots, SlotsOf
<1>4. UpTo(s, x) = PlacesUpTo(map, s, x)
  BY <1>3 DEF UpTo, PlacesUpTo
<1>5. \A S : Total(s, S) = TotalOf(map, S)
  BY DEF Total, TotalOf, At
<1>6. o.quantity \in Nat
  BY QuantitiesAssumption DEF Order, Uint64
<1> HIDE DEF map
<1>7. x \in CrossingOf(map, o)
  BY <1>2, <1>3 DEF CrossingOf
<1> DEFINE U == PlacesUpTo(map, s, x)
<1>8. U \subseteq CrossingOf(map, o) /\ CrossingOf(map, o) \subseteq SlotsOf(map)
  BY <1>1, <1>7, UpToCrosses DEF CrossingOf
<1> HIDE DEF U
<1>9. TotalOf(map, U) <= LiquidityOf(map, o)
  BY <1>1, <1>8, TotalOfPart DEF LiquidityOf
<1>10. TotalOf(map, U) \in Nat /\ LiquidityOf(map, o) \in Nat
  BY <1>1, <1>8, TotalIsNat, LiquidityIsNat
<1> DEFINE n == TotalOf(map, U)
<1>11. n % (MaxUint + 1) >= o.quantity
  BY <1>2, <1>4, <1>5 DEF U
<1> HIDE DEF n
<1>12. n % (MaxUint + 1) <= n /\ n % (MaxUint + 1) \in Nat
  BY <1>10, QuantitiesAssumption, WrappedIsLess DEF n
<1> QED  BY <1>6, <1>9, <1>10, <1>11, <1>12 DEF map, n

\* Unless the sum wraps, the preview finds all the liquidity there is.
LEMMA PreviewIsComplete ==
  ASSUME BookTypeOK, NEW o \in Order, o.quantity > 0, ~CanFullyFill(o),
         LiquidityOf(levels[Opposite(o.side)], o) <= MaxUint
  PROVE  LiquidityOf(levels[Opposite(o.side)], o) < o.quantity
<1> DEFINE s == Opposite(o.side)
           map == levels[s]
           C == CrossingOf(map, o)
           P == {x[1] : x \in C}
<1>1. s \in Side /\ IsBookMap(map) /\ o.side \in Side
  BY DEF Opposite, Side, BookTypeOK, Order
<1>2. o.quantity \in Nat
  BY QuantitiesAssumption DEF Order, Uint64
<1>3. CASE C = {}
  BY <1>2, <1>3, TotalEmpty DEF LiquidityOf
<1>4. CASE C # {}
  <2>1. Slots(s) = SlotsOf(map) /\ \A S : Total(s, S) = TotalOf(map, S)
    BY DEF Slots, SlotsOf, Total, TotalOf, At
  <2> HIDE DEF map, s
  <2>2. P \subseteq Prices /\ P # {}
    BY <1>1, <1>4, SlotIsPlace DEF CrossingOf, IsBookMap
  <2>3. PICK w \in P : \A p \in P : p = w \/ Better(s, p, w)
    <3> HIDE DEF P
    <3>1. PICK hi \in P : \A p \in P : p <= hi
      BY <2>2, PricesAssumption
    <3>2. PICK lo \in P : \A p \in P : lo <= p
      BY <2>2, PricesAssumption
    <3>3. P \subseteq Int
      BY <2>2, PricesAssumption
    <3>4. CASE s = "BUY"
      <4>1. \A p \in P : p = lo \/ p > lo
        BY <3>2, <3>3
      <4> QED  BY <3>4, <4>1 DEF Better
    <3>5. CASE s # "BUY"
      <4>1. \A p \in P : p = hi \/ p < hi
        BY <3>1, <3>3
      <4> QED  BY <3>5, <4>1 DEF Better
    <3> QED  BY <3>4, <3>5
  <2>4. PICK c \in C : c[1] = w
    BY <2>3
  <2>5. w \in DOMAIN map /\ c[2] \in DOMAIN map[w] /\ map[w] \in Seq(Order)
    BY <1>1, <2>4, SlotIsPlace DEF CrossingOf, IsBookMap
  <2> DEFINE last == Len(map[w])
             x == <<w, last>>
  <2>6. last \in DOMAIN map[w] /\ DOMAIN map[w] = 1 .. last /\ last \in Nat
    BY <2>5
  <2>7. x \in C
    <3>1. x \in SlotsOf(map)
      BY <1>1, <2>5, <2>6, SlotIsPlace
    <3>2. Crosses(o.side, o.price, w)
      BY <2>4 DEF CrossingOf
    <3> QED  BY <3>1, <3>2 DEF CrossingOf
  <2>8. PlacesUpTo(map, s, x) = C
    <3>1. PlacesUpTo(map, s, x) \subseteq C
      BY <1>1, <2>7, UpToCrosses DEF s
    <3>2. ASSUME NEW y \in C
          PROVE  y \in PlacesUpTo(map, s, x)
      <4>1. y \in SlotsOf(map) /\ y[2] \in DOMAIN map[y[1]]
        BY <1>1, SlotIsPlace DEF CrossingOf
      <4>2. y[1] = w \/ Better(s, y[1], w)
        BY <2>3
      <4>3. y[1] = w => y[2] <= last
        BY <2>6, <4>1
      <4> QED  BY <4>1, <4>2, <4>3 DEF PlacesUpTo
    <3> QED  BY <3>1, <3>2
  <2> DEFINE n == TotalOf(map, C)
  <2>9. x \in Slots(s) /\ Crosses(o.side, o.price, x[1]) /\ UpTo(s, x) = PlacesUpTo(map, s, x)
    BY <2>1, <2>7 DEF CrossingOf, UpTo, PlacesUpTo
  <2>10. Total(s, UpTo(s, x)) = n
    BY <2>1, <2>8, <2>9
  <2> HIDE DEF x, C
  <2>11. ~(n % (MaxUint + 1) >= o.quantity)
    BY <2>9, <2>10 DEF CanFullyFill, s
  <2>12. n \in Nat /\ n <= MaxUint
    BY <1>1, LiquidityIsNat DEF LiquidityOf, C, map, s
  <2> HIDE DEF n
  <2>13. n % (MaxUint + 1) = n
    BY <2>12, QuantitiesAssumption, WrappedIsLess
  <2>14. n < o.quantity
    BY <1>2, <2>11, <2>12, <2>13
  <2> QED  BY <2>14 DEF n, C, LiquidityOf, map, s
<1> QED  BY <1>3, <1>4

-----------------------------------------------------------------------------
(* A fill takes from the liquidity what it takes from the taker.           *)

\* The front of a crossing level goes, and the orders behind it move up.
LEMMA FrontRemoved ==
  ASSUME NEW map, IsBookMap(map), NEW b \in DOMAIN map, map[b] # <<>>,
         NEW o, Crosses(o.side, o.price, b)
  PROVE  LiquidityOf(map, o) =
           map[b][1].quantity + LiquidityOf(SetLevel(map, b, Tail(map[b])), o)
<1> DEFINE q == Tail(map[b])
           new == SetLevel(map, b, q)
           C == CrossingOf(map, o)
           N == CrossingOf(new, o)
           front == <<b, 1>>
           h == [x \in N |-> IF x[1] = b THEN <<b, x[2] + 1>> ELSE x]
           R == {h[x] : x \in N}
           w == QuantityAt(map, C)
           v == QuantityAt(new, N)
<1>1. /\ b \in Prices /\ map[b] \in Seq(Order) /\ 1 \in DOMAIN map[b]
      /\ q \in Seq(Order) /\ Len(q) = Len(map[b]) - 1 /\ Len(map[b]) \in Nat
      /\ DOMAIN map[b] = 1 .. Len(map[b]) /\ DOMAIN q = 1 .. Len(q)
      /\ \A k \in DOMAIN q : q[k] = map[b][k + 1]
  BY DEF IsBookMap
<1> HIDE DEF q
<1>2. /\ IsBookMap(new)
      /\ \A x : x \in DOMAIN new <=> IF x = b THEN q # <<>> ELSE x \in DOMAIN map
      /\ \A x \in DOMAIN new : new[x] = IF x = b THEN q ELSE map[x]
  BY <1>1, SetLevelFacts
<1> HIDE DEF new
<1>3. front \in C
  BY <1>1, SlotIsPlace DEF CrossingOf
<1>4. ASSUME NEW x \in N
      PROVE  /\ x = <<x[1], x[2]>> /\ h[x] \in C \ {front}
             /\ v[x] \in Nat /\ w[h[x]] = v[x]
             /\ x[1] = b => x[2] \in Nat /\ h[x] = <<b, x[2] + 1>>
             /\ x[1] # b => h[x] = x
  <2>1. /\ x \in SlotsOf(new) /\ x = <<x[1], x[2]>> /\ x[1] \in DOMAIN new
        /\ x[2] \in DOMAIN new[x[1]] /\ Crosses(o.side, o.price, x[1])
        /\ new[x[1]][x[2]].quantity \in Uint64
    BY <1>2, SlotIsPlace DEF CrossingOf
  <2>2. v[x] = new[x[1]][x[2]].quantity /\ v[x] \in Nat
    BY <2>1, QuantitiesAssumption DEF QuantityAt, Uint64
  <2>3. CASE x[1] = b
    <3> DEFINE k == x[2]
    <3>1. new[b] = q /\ k \in DOMAIN q
      BY <1>2, <2>1, <2>3
    <3>2. k \in Nat /\ k >= 1 /\ k + 1 \in DOMAIN map[b] /\ h[x] = <<b, k + 1>>
      BY <1>1, <2>3, <3>1
    <3> HIDE DEF k
    <3>3. <<b, k + 1>> \in C \ {front}
      BY <2>1, <2>3, <3>2, SlotIsPlace DEF CrossingOf
    <3>4. w[<<b, k + 1>>] = map[b][k + 1].quantity
      BY <3>3 DEF QuantityAt
    <3>5. v[x] = q[k].quantity
      BY <2>2, <2>3, <3>1 DEF k
    <3> QED  BY <1>1, <2>1, <2>2, <2>3, <3>1, <3>2, <3>3, <3>4, <3>5 DEF k
  <2>4. CASE x[1] # b
    <3>1. h[x] = x /\ x[1] \in DOMAIN map /\ new[x[1]] = map[x[1]]
      BY <1>2, <2>1, <2>4
    <3>2. x \in C \ {front}
      BY <2>1, <2>4, <3>1, SlotIsPlace DEF CrossingOf
    <3>3. w[x] = map[x[1]][x[2]].quantity
      BY <3>2 DEF QuantityAt
    <3> QED  BY <2>1, <2>2, <2>4, <3>1, <3>2, <3>3
  <2> QED  BY <2>3, <2>4
<1>5. ASSUME NEW z \in C \ {front}
      PROVE  \E x \in N : h[x] = z
  <2>1. /\ z = <<z[1], z[2]>> /\ z[1] \in DOMAIN map /\ z[2] \in DOMAIN map[z[1]]
        /\ Crosses(o.side, o.price, z[1])
    BY SlotIsPlace DEF CrossingOf
  <2>2. CASE z[1] = b
    <3> DEFINE x == <<b, z[2] - 1>>
    <3>1. z[2] \in Nat /\ z[2] > 1 /\ z[2] - 1 \in DOMAIN q
      BY <1>1, <2>1, <2>2
    <3>2. b \in DOMAIN new /\ new[b] = q
      BY <1>1, <1>2, <3>1
    <3>3. x \in N
      BY <1>2, <3>1, <3>2, SlotIsPlace DEF CrossingOf
    <3>4. h[x] = <<b, (z[2] - 1) + 1>>
      BY <3>3
    <3>5. h[x] = z
      BY <2>1, <2>2, <3>1, <3>4
    <3> QED  BY <3>3, <3>5
  <2>3. CASE z[1] # b
    <3>1. z[1] \in DOMAIN new /\ new[z[1]] = map[z[1]]
      BY <1>2, <2>1, <2>3
    <3>2. z \in N
      BY <1>2, <2>1, <3>1, SlotIsPlace DEF CrossingOf
    <3> QED  BY <2>3, <3>2
  <2> QED  BY <2>2, <2>3
<1> HIDE DEF h
<1>6. R = C \ {front}
  BY <1>4, <1>5
<1>7. \A x, y \in N : h[x] = h[y] => x = y
  <2> SUFFICES ASSUME NEW x \in N, NEW y \in N, h[x] = h[y]
               PROVE  x = y
    OBVIOUS
  <2>1. CASE x[1] = b /\ y[1] = b
    <3>1. x[2] \in Nat /\ y[2] \in Nat /\ <<b, x[2] + 1>> = <<b, y[2] + 1>>
      BY <1>4, <2>1
    <3> QED  BY <1>4, <2>1, <3>1
  <2>2. CASE x[1] # b /\ y[1] # b
    BY <1>4, <2>2
  <2>3. CASE x[1] = b /\ y[1] # b
    <3>1. h[x][1] = b /\ h[y][1] = y[1]
      BY <1>4, <2>3
    <3> QED  BY <2>3, <3>1
  <2>4. CASE x[1] # b /\ y[1] = b
    <3>1. h[y][1] = b /\ h[x][1] = x[1]
      BY <1>4, <2>4
    <3> QED  BY <2>4, <3>1
  <2> QED  BY <2>1, <2>2, <2>3, <2>4
<1>8. /\ C \in SUBSET SlotsOf(map) /\ N \in SUBSET SlotsOf(new)
  BY DEF CrossingOf
<1>9. IsFiniteSet(C) /\ (\A x \in C : w[x] \in Nat) /\ w[front] = map[b][1].quantity
  BY <1>3, <1>8, TotalIsNat DEF QuantityAt
<1>10. IsFiniteSet(N)
  BY <1>2, <1>8, TotalIsNat
<1>11. TotalOf(map, C) = SumOf(w, C) /\ TotalOf(new, N) = SumOf(v, N)
  BY <1>9, <1>10, TotalIsSum
<1> HIDE DEF C, N, w, v, R
<1>12. SumOf(w, R) = SumOf(v, N)
  <2>1. \A x \in N : v[x] \in Nat /\ w[h[x]] = v[x]
    BY <1>4
  <2>2. R = {h[x] : x \in N}
    BY DEF R
  <2>3. PICK g, u, z, A, B : g = h /\ u = v /\ z = w /\ A = N /\ B = R
    OBVIOUS
  <2>4. /\ IsFiniteSet(A) /\ B = {g[x] : x \in A}
        /\ \A x, y \in A : g[x] = g[y] => x = y
        /\ \A x \in A : u[x] \in Nat /\ z[g[x]] = u[x]
    BY <1>7, <1>10, <2>1, <2>2, <2>3
  <2>5. SumOf(z, B) = SumOf(u, A)
    BY <2>4, SumRenamed, SMTT(30)
  <2> QED  BY <2>3, <2>5
<1>13. SumOf(w, C) = w[front] + SumOf(w, C \ {front})
  BY <1>3, <1>9, SumRemove
<1> QED  BY <1>6, <1>9, <1>11, <1>12, <1>13 DEF LiquidityOf, C, N, new, q

-----------------------------------------------------------------------------
(* The inductive invariant.                                                *)

\* A killed order could not be filled, or what could fill it does not fit the
\* preview's sum.
KilledOnlyIfShortOrHuge == FokRefusedOnlyIfShort \/ Liquidity(incoming) > MaxUint

FokInv == ShapeInv /\ FokAllOrNothing /\ KilledOnlyIfShortOrHuge

LEMMA LiquidityOfSide ==
  ASSUME NEW o
  PROVE  Liquidity(o) = LiquidityOf(levels[Opposite(o.side)], o)
BY DEF Liquidity, LiquidityOf, CrossingOf, SlotsOf, TotalOf, Slots, Total, At

\* The same, in the next state.
LEMMA LiquidityAfter ==
  Liquidity(incoming)' = LiquidityOf(levels'[Opposite(incoming'.side)], incoming')
<1>1. Liquidity(incoming) = LiquidityOf(levels[Opposite(incoming.side)], incoming)
  BY LiquidityOfSide
<1>2. (Liquidity(incoming) = LiquidityOf(levels[Opposite(incoming.side)], incoming))'
  BY <1>1, PTL
<1> QED  BY <1>2

LEMMA InitFokInv == Init => FokInv
<1> SUFFICES ASSUME Init PROVE FokInv
  OBVIOUS
<1>1. incoming = NoOrder
  BY DEF Init
<1> QED  BY <1>1, InitShapeInv DEF FokInv, FokAllOrNothing, KilledOnlyIfShortOrHuge,
            FokRefusedOnlyIfShort

\* A step after which there is no FOK taker.
LEMMA NoFokTaker ==
  ASSUME incoming' = NoOrder \/ incoming'.type # "FOK"
  PROVE  FokAllOrNothing' /\ KilledOnlyIfShortOrHuge'
BY DEF FokAllOrNothing, KilledOnlyIfShortOrHuge, FokRefusedOnlyIfShort

LEMMA SubmitOrderFok ==
  ASSUME FokInv, NEW o \in NewOrders, SubmitOrder(o)
  PROVE  FokAllOrNothing' /\ KilledOnlyIfShortOrHuge'
<1>1. CASE o.type # "FOK"
  BY <1>1, NoFokTaker DEF SubmitOrder
<1>2. CASE o.type = "FOK"
  <2> DEFINE L == LiquidityOf(levels[Opposite(o.side)], o)
  <2>1. o \in Order /\ BookTypeOK /\ trades = <<>>
    BY NewOrdersAreOrders DEF FokInv, ShapeInv, TypeOK, IdleIsClean, SubmitOrder
  <2>2. incoming' = o /\ levels' = levels /\ trades' = <<>>
    BY <2>1 DEF SubmitOrder
  <2>3. Liquidity(incoming)' = L
    BY <2>2, LiquidityAfter
  <2>4. o.quantity \in Nat
    BY <2>1, QuantitiesAssumption DEF Order, Uint64
  <2>5. L \in Nat
    <3>1. IsBookMap(levels[Opposite(o.side)])
      BY <2>1 DEF Opposite, Side, BookTypeOK
    <3> QED  BY <3>1, LiquidityIsNat
  <2>6. CASE Refused(o) /\ Answer("ok")
    <3>1. FokAllOrNothing'
      BY <2>2, <2>6 DEF FokAllOrNothing, Answer
    <3>2. o.quantity = 0 \/ ~CanFullyFill(o)
      BY <2>6 DEF Refused
    <3>3. o.quantity > 0 => L < o.quantity \/ L > MaxUint
      <4> HIDE DEF L
      <4>1. ASSUME o.quantity > 0, L <= MaxUint
            PROVE  L < o.quantity
        BY <2>1, <2>4, <3>2, <4>1, PreviewIsComplete DEF L
      <4> QED  BY <2>5, <4>1, QuantitiesAssumption
    <3> HIDE DEF L
    <3>4. KilledOnlyIfShortOrHuge'
      BY <2>2, <2>3, <3>3 DEF KilledOnlyIfShortOrHuge, FokRefusedOnlyIfShort
    <3> QED  BY <3>1, <3>4
  <2>7. CASE ~Refused(o) /\ pc' = "match"
    <3>1. o.quantity <= L
      BY <1>2, <2>1, <2>7, PreviewIsSafe DEF Refused
    <3> HIDE DEF L
    <3>2. FokAllOrNothing'
      BY <2>2, <2>3, <2>7, <3>1 DEF FokAllOrNothing
    <3>3. KilledOnlyIfShortOrHuge'
      BY <2>7 DEF KilledOnlyIfShortOrHuge, FokRefusedOnlyIfShort
    <3> QED  BY <3>2, <3>3
  <2> QED  BY <2>6, <2>7 DEF SubmitOrder
<1> QED  BY <1>1, <1>2

\* While a FOK order is matched the next maker is one the liquidity counts.
LEMMA FillStepFok ==
  ASSUME FokInv, ConsumeMaker \/ ReduceMaker
  PROVE  FokAllOrNothing' /\ KilledOnlyIfShortOrHuge'
<1> DEFINE s == MakerSide
           b == Best(s)
           map == levels[s]
           L == LiquidityOf(map, incoming)
           M == LiquidityOf(levels'[s], incoming')
<1>1. pc = "match" /\ LoopCondition /\ incoming \in Order /\ BookTypeOK /\ TypeOK
  BY DEF ConsumeMaker, ReduceMaker, FokInv, ShapeInv, TypeOK
<1>2. /\ s \in Side /\ b \in DOMAIN map /\ 1 \in DOMAIN map[b] /\ map[b] # <<>>
      /\ Maker = map[b][1] /\ Maker \in Order
  BY <1>1, MakerShape DEF FokInv, ShapeInv, MapsShaped, LevelShaped
<1>3. /\ Maker.quantity \in Nat /\ incoming.quantity \in Nat
      /\ incoming.quantity \in Uint64 /\ Maker.quantity \in Uint64
  BY <1>1, <1>2, QuantitiesAssumption DEF Order, Uint64
<1>4. PICK n \in Uint64 : /\ n \in Nat /\ n <= incoming.quantity /\ Fill(n)
                          /\ ConsumeMaker => n = Maker.quantity
                          /\ ReduceMaker => n = incoming.quantity
  <2>1. CASE ConsumeMaker
    <3>1. ~ReduceMaker
      BY <2>1 DEF ConsumeMaker, ReduceMaker
    <3> QED  BY <1>3, <2>1, <3>1 DEF ConsumeMaker, MakerFilled
  <2>2. CASE ReduceMaker
    <3>1. ~ConsumeMaker
      BY <2>2 DEF ConsumeMaker, ReduceMaker
    <3> QED  BY <1>3, <2>2, <3>1 DEF ReduceMaker
  <2> QED  BY <2>1, <2>2
<1>5. /\ incoming' = [incoming EXCEPT !.quantity = @ - n] /\ pc' = "match"
      /\ incoming' \in Order
  BY <1>1, <1>2, <1>4, FillTypes
<1>6. /\ incoming'.side = incoming.side /\ incoming'.price = incoming.price
      /\ incoming'.type = incoming.type /\ incoming'.quantity = incoming.quantity - n
      /\ Opposite(incoming'.side) = s
  BY <1>1, <1>5 DEF Order, MakerSide
<1>7. KilledOnlyIfShortOrHuge'
  BY <1>5 DEF KilledOnlyIfShortOrHuge, FokRefusedOnlyIfShort
<1>8. CASE incoming.type # "FOK"
  BY <1>6, <1>8, NoFokTaker
<1>9. CASE incoming.type = "FOK"
  <2>1. incoming.quantity <= L
    <3>1. incoming # NoOrder
      BY <1>1, NoOrderAssumption
    <3> QED  BY <1>1, <1>9, <3>1, LiquidityOfSide DEF FokInv, FokAllOrNothing, MakerSide
  <2>2. Crosses(incoming.side, incoming.price, b)
    BY <1>1, <1>9 DEF LoopCondition, SkipsPriceCheck
  <2>3. IsBookMap(map) /\ IsBookMap(levels'[s])
    BY <1>1, <1>2, ShapeInvStep DEF FokInv, ShapeInv, TypeOK, BookTypeOK, Next, Run
  <2>4. L \in Nat /\ M \in Nat
    <3> HIDE DEF map
    <3> QED  BY <2>3, LiquidityIsNat
  <2>5. Liquidity(incoming)' = M
    BY <1>6, LiquidityAfter
  <2>6. incoming'.quantity <= M
    <3>1. CASE ReduceMaker
      BY <1>3, <1>4, <1>6, <2>4, <3>1
    <3>2. CASE ConsumeMaker
      <4> DEFINE new == SetLevel(map, b, Tail(map[b]))
      <4>1. levels'[s] = new
        BY <1>1, <1>2, <3>2 DEF ConsumeMaker, BookTypeOK
      <4>2. L = map[b][1].quantity + LiquidityOf(new, incoming)
        <5> HIDE DEF map, b
        <5> QED  BY <1>2, <2>2, <2>3, FrontRemoved
      <4>3. LiquidityOf(new, incoming) = LiquidityOf(new, incoming')
        BY <1>6 DEF LiquidityOf, CrossingOf
      <4>4. L = Maker.quantity + M
        BY <1>2, <4>1, <4>2, <4>3
      <4> HIDE DEF L, M
      <4> QED  BY <1>3, <1>4, <1>6, <2>1, <2>4, <3>2, <4>4
    <3> QED  BY <3>1, <3>2
  <2> HIDE DEF M
  <2>7. FokAllOrNothing'
    BY <1>5, <2>5, <2>6 DEF FokAllOrNothing
  <2> QED  BY <1>7, <2>7
<1> QED  BY <1>8, <1>9

\* The loop of a FOK order ends with its quantity at zero: no maker that
\* crosses is left only when there is no liquidity.
LEMMA LoopExitFok ==
  ASSUME FokInv, RestRemainder \/ DropRemainder
  PROVE  FokAllOrNothing' /\ KilledOnlyIfShortOrHuge'
<1>1. /\ pc = "match" /\ ~LoopCondition /\ incoming \in Order /\ incoming # NoOrder
      /\ BookTypeOK /\ incoming' = incoming /\ pc' = "return"
  BY NoOrderAssumption DEF RestRemainder, DropRemainder, Answer, NoMatching, FokInv,
     ShapeInv, TypeOK
<1>2. CASE incoming.type # "FOK"
  BY <1>1, <1>2, NoFokTaker
<1>3. CASE incoming.type = "FOK"
  <2> DEFINE s == MakerSide
             map == levels[s]
  <2>1. incoming.quantity <= LiquidityOf(map, incoming)
    BY <1>1, <1>3, LiquidityOfSide DEF FokInv, FokAllOrNothing, MakerSide
  <2>2. incoming.quantity \in Nat
    BY <1>1, QuantitiesAssumption DEF Order, Uint64
  <2>3. incoming.quantity = 0
    <3> SUFFICES ASSUME incoming.quantity > 0
                 PROVE  FALSE
      BY <2>2
    <3>1. s \in Side /\ IsBookMap(map)
      BY <1>1 DEF MakerSide, Opposite, Side, BookTypeOK
    <3>2. \/ DOMAIN map = {}
          \/ DOMAIN map # {} /\ ~Crosses(incoming.side, incoming.price, Best(s))
      BY <1>1 DEF LoopCondition
    <3>3. \A p \in DOMAIN map : ~Crosses(incoming.side, incoming.price, p)
      <4> SUFFICES ASSUME NEW p \in DOMAIN map
                   PROVE  ~Crosses(incoming.side, incoming.price, p)
        OBVIOUS
      <4>1. /\ Best(s) \in DOMAIN map
            /\ p = Best(s) \/ Better(s, Best(s), p)
            /\ ~Crosses(incoming.side, incoming.price, Best(s))
        BY <3>1, <3>2, BestIsBest
      <4>2. /\ p \in Int /\ Best(s) \in Int /\ incoming.price \in Int
            /\ incoming.side \in Side
        BY <1>1, <3>1, <4>1, PricesAssumption DEF IsBookMap, Order
      <4> QED  BY <4>1, <4>2 DEF Crosses, Better, MakerSide, Opposite, Side
    <3> HIDE DEF map
    <3>4. CrossingOf(map, incoming) = {}
      BY <3>1, <3>3, SlotIsPlace DEF CrossingOf
    <3> QED  BY <2>1, <2>2, <3>4, TotalEmpty DEF LiquidityOf
  <2> QED  BY <1>1, <2>3 DEF FokAllOrNothing, KilledOnlyIfShortOrHuge, FokRefusedOnlyIfShort
<1> QED  BY <1>2, <1>3

LEMMA FokInvStep ==
  ASSUME FokInv, [Next]_vars
  PROVE  FokInv'
<1>1. ShapeInv'
  BY ShapeInvStep DEF FokInv
<1>2. ASSUME pc = "idle", UNCHANGED incoming
      PROVE  FokAllOrNothing' /\ KilledOnlyIfShortOrHuge'
  BY <1>2, NoFokTaker DEF FokInv, ShapeInv, IdleIsClean
<1>3. ASSUME NEW o \in NewOrders, AddOrder(o)
      PROVE  FokAllOrNothing' /\ KilledOnlyIfShortOrHuge'
  BY <1>2, <1>3 DEF AddOrder, NoMatching
<1>4. ASSUME NEW o \in NewOrders, SubmitOrder(o)
      PROVE  FokAllOrNothing' /\ KilledOnlyIfShortOrHuge'
  BY <1>4, SubmitOrderFok
<1>5. ASSUME NEW id \in Ids, CancelOrder(id)
      PROVE  FokAllOrNothing' /\ KilledOnlyIfShortOrHuge'
  BY <1>2, <1>5 DEF CancelOrder, NoMatching
<1>6. ASSUME NEW id \in Ids, NEW p \in Prices, NEW q \in Quantities, ModifyOrder(id, p, q)
      PROVE  FokAllOrNothing' /\ KilledOnlyIfShortOrHuge'
  <2>1. CASE UNCHANGED incoming
    BY <1>2, <1>6, <2>1 DEF ModifyOrder
  <2>2. CASE incoming'.type = "LIMIT"
    BY <2>2, NoFokTaker
  <2> QED  BY <1>6, <2>1, <2>2 DEF ModifyOrder, NoMatching
<1>7. ASSUME ConsumeMaker \/ ReduceMaker
      PROVE  FokAllOrNothing' /\ KilledOnlyIfShortOrHuge'
  BY <1>7, FillStepFok
<1>8. ASSUME RestRemainder \/ DropRemainder
      PROVE  FokAllOrNothing' /\ KilledOnlyIfShortOrHuge'
  BY <1>8, LoopExitFok
<1>9. ASSUME Return
      PROVE  FokAllOrNothing' /\ KilledOnlyIfShortOrHuge'
  BY <1>9, NoFokTaker DEF Return
<1>10. ASSUME UNCHANGED vars
       PROVE  FokAllOrNothing' /\ KilledOnlyIfShortOrHuge'
  <2>1. /\ levels' = levels /\ incoming' = incoming /\ pc' = pc /\ trades' = trades
    BY <1>10 DEF vars
  <2>2. Liquidity(incoming)' = Liquidity(incoming)
    BY <2>1, LiquidityOfSide, LiquidityAfter
  <2>3. FokAllOrNothing'
    BY <2>1, <2>2 DEF FokInv, FokAllOrNothing
  <2>4. KilledOnlyIfShortOrHuge'
    BY <2>1, <2>2 DEF FokInv, KilledOnlyIfShortOrHuge, FokRefusedOnlyIfShort
  <2> QED  BY <2>3, <2>4
<1> QED
  BY <1>1, <1>3, <1>4, <1>5, <1>6, <1>7, <1>8, <1>9, <1>10 DEF Next, Call, Run, FokInv

\* Whatever rests in the book, duplicate ids and emptied orders included, and
\* whether or not the preview's uint64_t sum wraps: a FOK order that the preview
\* lets through finds its whole quantity, and one that it refuses trades nothing.
THEOREM FokFillsCompletelyOrNotAtAll == Spec => []FokAllOrNothing
<1>1. FokInv => FokAllOrNothing
  BY DEF FokInv
<1> QED  BY <1>1, InitFokInv, FokInvStep, PTL DEF Spec

\* A FOK order is refused only if the makers cannot fill it, or if they offer
\* more than a uint64_t can hold and the preview's sum wraps.
THEOREM FokKilledOnlyIfShortOrHuge ==
  Spec => [](FokRefusedOnlyIfShort \/ Liquidity(incoming) > MaxUint)
<1>1. FokInv => FokRefusedOnlyIfShort \/ Liquidity(incoming) > MaxUint
  BY DEF FokInv, KilledOnlyIfShortOrHuge
<1> QED  BY <1>1, InitFokInv, FokInvStep, PTL DEF Spec

-----------------------------------------------------------------------------
(* The queries.                                                            *)

\* The better prices of a side, and how many they are.
BetterThan(s, p) == {q \in DOMAIN levels[s] : Better(s, q, p)}
RankOf(s) == [p \in DOMAIN levels[s] |-> Cardinality(BetterThan(s, p)) + 1]

\* No two prices of a side have the same rank.
LEMMA RanksDiffer ==
  ASSUME NEW s \in Side, IsBookMap(levels[s])
  PROVE  /\ IsFiniteSet(DOMAIN levels[s]) /\ Cardinality(DOMAIN levels[s]) \in Nat
         /\ \A p \in DOMAIN levels[s] :
              RankOf(s)[p] \in 1 .. Cardinality(DOMAIN levels[s])
         /\ \A p, q \in DOMAIN levels[s] : RankOf(s)[p] = RankOf(s)[q] => p = q
<1> DEFINE D == DOMAIN levels[s]
<1>1. D \subseteq Prices /\ D \subseteq Int
  BY PricesAssumption DEF IsBookMap
<1>2. IsFiniteSet(D) /\ Cardinality(D) \in Nat
  BY <1>1, PricesFinite, FS_Subset, FS_CardinalityType
<1>3. ASSUME NEW p \in D
      PROVE  /\ BetterThan(s, p) \in SUBSET D /\ BetterThan(s, p) # D
             /\ IsFiniteSet(BetterThan(s, p)) /\ Cardinality(BetterThan(s, p)) \in Nat
             /\ Cardinality(BetterThan(s, p)) < Cardinality(D)
  <2>1. BetterThan(s, p) \in SUBSET D /\ p \notin BetterThan(s, p)
    BY <1>1 DEF BetterThan, Better, Side
  <2>2. PICK B \in SUBSET D : B = BetterThan(s, p) /\ B # D
    BY <2>1
  <2> HIDE DEF D
  <2>3. IsFiniteSet(B) /\ Cardinality(B) \in Nat
    BY <1>2, FS_Subset, FS_CardinalityType
  <2>4. Cardinality(B) <= Cardinality(D) /\ Cardinality(B) # Cardinality(D)
    BY <1>2, <2>2, FS_Subset
  <2> QED  BY <1>2, <2>2, <2>3, <2>4
<1>4. ASSUME NEW p \in D, NEW q \in D, Better(s, p, q)
      PROVE  Cardinality(BetterThan(s, p)) < Cardinality(BetterThan(s, q))
  <2>1. PICK B \in SUBSET D : B = BetterThan(s, p)
    BY <1>3
  <2>2. PICK C \in SUBSET D : C = BetterThan(s, q)
    BY <1>3
  <2>3. B \in SUBSET C /\ B # C
    <3>1. p \in C /\ p \notin B
      BY <1>1, <1>4, <2>1, <2>2 DEF BetterThan, Better, Side
    <3>2. \A r \in B : r \in C
      BY <1>1, <1>4, <2>1, <2>2 DEF BetterThan, Better, Side
    <3> QED  BY <3>1, <3>2
  <2>4. IsFiniteSet(C) /\ Cardinality(C) \in Nat /\ Cardinality(B) \in Nat
    BY <1>3, <2>1, <2>2
  <2>5. Cardinality(B) <= Cardinality(C) /\ Cardinality(B) # Cardinality(C)
    BY <2>3, <2>4, FS_Subset
  <2> QED  BY <2>1, <2>2, <2>4, <2>5
<1>5. \A p, q \in D : p = q \/ Better(s, p, q) \/ Better(s, q, p)
  BY <1>1 DEF Better, Side
<1>6. \A p \in D : RankOf(s)[p] = Cardinality(BetterThan(s, p)) + 1
  BY DEF RankOf
<1>7. \A p \in D : RankOf(s)[p] \in 1 .. Cardinality(D)
  <2> SUFFICES ASSUME NEW p \in D
               PROVE  RankOf(s)[p] \in 1 .. Cardinality(D)
    OBVIOUS
  <2>1. PICK a \in Nat, k \in Nat : a = Cardinality(BetterThan(s, p)) /\ k = Cardinality(D)
    BY <1>2, <1>3
  <2>2. a < k
    BY <1>3, <2>1
  <2>3. RankOf(s)[p] = a + 1
    BY <1>6, <2>1
  <2> QED  BY <2>1, <2>2, <2>3
<1>8. ASSUME NEW p \in D, NEW q \in D, RankOf(s)[p] = RankOf(s)[q]
      PROVE  p = q
  <2>1. PICK a \in Nat : a = Cardinality(BetterThan(s, p))
    BY <1>3
  <2>2. PICK b \in Nat : b = Cardinality(BetterThan(s, q))
    BY <1>3
  <2>3. a = b
    BY <1>6, <1>8, <2>1, <2>2
  <2>4. ~Better(s, p, q) /\ ~Better(s, q, p)
    <3>1. Better(s, p, q) => a < b
      BY <1>4, <2>1, <2>2
    <3>2. Better(s, q, p) => b < a
      BY <1>4, <2>1, <2>2
    <3> QED  BY <2>3, <3>1, <3>2
  <2> QED  BY <1>5, <2>4
<1> QED  BY <1>2, <1>7, <1>8

\* Each place in the order of the map is that of one price.
LEMMA RankedFacts ==
  ASSUME NEW s \in Side, IsBookMap(levels[s])
  PROVE  /\ \A n \in 1 .. Cardinality(DOMAIN levels[s]) :
              Ranked(s, n) \in DOMAIN levels[s] /\ RankOf(s)[Ranked(s, n)] = n
         /\ \A p \in DOMAIN levels[s] : Ranked(s, RankOf(s)[p]) = p
<1> DEFINE D == DOMAIN levels[s]
           N == 1 .. Cardinality(D)
<1>1. /\ IsFiniteSet(D) /\ Cardinality(D) \in Nat
      /\ \A p \in D : RankOf(s)[p] \in N
      /\ \A p, q \in D : RankOf(s)[p] = RankOf(s)[q] => p = q
  BY RanksDiffer
<1>2. RankOf(s) \in Injection(D, N)
  <2>1. RankOf(s) \in [D -> N]
    BY <1>1 DEF RankOf
  <2> QED  BY <1>1, <2>1 DEF Injection, IsInjective
<1>3. RankOf(s) \in Surjection(D, N)
  <2>1. PICK f : f = RankOf(s)
    OBVIOUS
  <2>2. IsFiniteSet(N) /\ Cardinality(N) = Cardinality(D)
    <3>1. PICK k \in Nat : k = Cardinality(D)
      BY <1>1
    <3>2. IsFiniteSet(1 .. k) /\ Cardinality(1 .. k) = k
      BY FS_Interval
    <3> QED  BY <3>1, <3>2
  <2> HIDE DEF D, N
  <2>3. f \in Surjection(D, N)
    BY <1>2, <2>1, <2>2, FS_Injection
  <2> QED  BY <2>1, <2>3
<1>4. \A n \in N : \E p \in D : RankOf(s)[p] = n
  BY <1>3 DEF Surjection
<1>5. ASSUME NEW n \in N
      PROVE  Ranked(s, n) \in D /\ RankOf(s)[Ranked(s, n)] = n
  <2>1. \A p \in D : RankOf(s)[p] = n <=> Cardinality(BetterThan(s, p)) = n - 1
    <3>1. \A p \in D : Cardinality(BetterThan(s, p)) \in Nat
      <4> SUFFICES ASSUME NEW p \in D
                   PROVE  Cardinality(BetterThan(s, p)) \in Nat
        OBVIOUS
      <4>1. PICK B : B = BetterThan(s, p) /\ B \in SUBSET D
        BY DEF BetterThan
      <4> HIDE DEF D
      <4>2. IsFiniteSet(B)
        BY <1>1, <4>1, FS_Subset
      <4> QED  BY <4>1, <4>2, FS_CardinalityType
    <3> QED  BY <3>1 DEF RankOf
  <2>2. \E p \in D : Cardinality(BetterThan(s, p)) = n - 1
    BY <1>4, <2>1
  <2>3. Ranked(s, n) \in D /\ Cardinality(BetterThan(s, Ranked(s, n))) = n - 1
    BY <2>2 DEF Ranked, BetterThan
  <2> QED  BY <2>1, <2>3
<1>6. \A p \in D : Ranked(s, RankOf(s)[p]) = p
  BY <1>1, <1>5
<1> QED  BY <1>5, <1>6

\* The orders of each level, and the ids that are indexed at the levels of A.
LengthOf(s) == [p \in DOMAIN levels[s] |-> Len(levels[s][p])]
IndexedIn(s, A) ==
  {id \in DOMAIN orderIndex : orderIndex[id].side = s /\ orderIndex[id].price \in A}

\* A level has as many orders as ids are indexed there.
LEMMA LevelIsCounted ==
  ASSUME BookTypeOK, IndexTracksBook, NEW s \in Side, NEW p \in DOMAIN levels[s]
  PROVE  /\ IsFiniteSet(IndexedIn(s, {p})) /\ Len(levels[s][p]) \in Nat
         /\ Cardinality(IndexedIn(s, {p})) = Len(levels[s][p])
<1> DEFINE q == levels[s][p]
<1>1. q \in Seq(Order) /\ Len(q) \in Nat /\ DOMAIN q = 1 .. Len(q)
  BY DEF BookTypeOK, IsBookMap
<1>2. LevelIndexed(orderIndex, q, s, p)
  BY DEF IndexTracksBook
<1>3. PICK f : f = [k \in 1 .. Len(q) |-> q[k].id]
  OBVIOUS
<1>4. PICK I : I = IndexedIn(s, {p})
  OBVIOUS
<1>5. \A k \in 1 .. Len(q) : f[k] \in I
  BY <1>1, <1>2, <1>3, <1>4 DEF LevelIndexed, IndexedIn
<1>6. \A j, k \in 1 .. Len(q) : f[j] = f[k] => j = k
  BY <1>1, <1>2, <1>3 DEF LevelIndexed
<1>7. \A id \in I : \E k \in 1 .. Len(q) : f[k] = id
  <2> SUFFICES ASSUME NEW id \in I
               PROVE  \E k \in 1 .. Len(q) : f[k] = id
    OBVIOUS
  <2>1. id \in DOMAIN orderIndex /\ orderIndex[id].side = s /\ orderIndex[id].price = p
    BY <1>4 DEF IndexedIn
  <2>2. HasId(q, id)
    BY <2>1 DEF IndexTracksBook, Located, Level
  <2> QED  BY <1>1, <1>3, <2>2 DEF HasId
<1>8. PICK n \in Nat : n = Len(q)
  BY <1>1
<1>9. f \in Bijection(1 .. n, I)
  <2>1. f \in [1 .. n -> I]
    BY <1>3, <1>5, <1>8
  <2> QED  BY <1>6, <1>7, <1>8, <2>1 DEF Bijection, Injection, Surjection, IsInjective
<1>10. IsFiniteSet(1 .. n) /\ Cardinality(1 .. n) = n
  BY FS_Interval
<1>11. IsFiniteSet(I) /\ Cardinality(I) = n
  BY <1>9, <1>10, FS_Bijection DEF ExistsBijection
<1> QED  BY <1>1, <1>4, <1>8, <1>11

\* The levels of a side have as many orders as ids are indexed on it.
LEMMA SideIsCounted ==
  ASSUME BookTypeOK, IndexTracksBook, NEW s \in Side
  PROVE  /\ IsFiniteSet(IndexedIn(s, DOMAIN levels[s]))
         /\ SumOf(LengthOf(s), DOMAIN levels[s]) = Cardinality(IndexedIn(s, DOMAIN levels[s]))
<1> DEFINE T == {A \in SUBSET DOMAIN levels[s] :
                   /\ IsFiniteSet(IndexedIn(s, A))
                   /\ SumOf(LengthOf(s), A) = Cardinality(IndexedIn(s, A))}
<1>1. PICK D : D = DOMAIN levels[s]
  OBVIOUS
<1>2. IsFiniteSet(D)
  BY <1>1, RanksDiffer DEF BookTypeOK
<1>3. PICK w : w = LengthOf(s)
  OBVIOUS
<1>4. \A p \in D : w[p] = Len(levels[s][p]) /\ w[p] \in Nat
  BY <1>1, <1>3, LevelIsCounted DEF LengthOf
<1>5. ASSUME NEW A \in SUBSET D, \A p \in A : A \ {p} \in T
      PROVE  A \in T
  <2>1. CASE A = {}
    <3>1. IndexedIn(s, A) = {}
      BY <2>1 DEF IndexedIn
    <3> QED  BY <1>1, <2>1, <3>1, SumEmpty, FS_EmptySet
  <2>2. CASE A # {}
    <3>1. PICK p \in A : TRUE
      BY <2>2
    <3>2. PICK B : B = A \ {p} /\ B \in T
      BY <1>5, <3>1
    <3>3. IsFiniteSet(A) /\ \A x \in A : w[x] \in Nat
      BY <1>2, <1>4, FS_Subset
    <3>4. SumOf(w, A) = w[p] + SumOf(w, B)
      BY <3>1, <3>2, <3>3, SumRemove
    <3>5. PICK I : I = IndexedIn(s, {p})
      OBVIOUS
    <3>6. PICK J : J = IndexedIn(s, B)
      OBVIOUS
    <3>7. IsFiniteSet(I) /\ Cardinality(I) = w[p]
      BY <1>1, <1>4, <3>1, <3>5, LevelIsCounted
    <3>8. IsFiniteSet(J) /\ Cardinality(J) = SumOf(w, B)
      BY <1>3, <3>2, <3>6
    <3>9. IndexedIn(s, A) = I \cup J /\ I \cap J = {}
      BY <3>1, <3>2, <3>5, <3>6 DEF IndexedIn
    <3>10. /\ IsFiniteSet(I \cup J)
           /\ Cardinality(I \cup J) = Cardinality(I) + Cardinality(J) - Cardinality({})
      BY <3>7, <3>8, <3>9, FS_Union
    <3>11. Cardinality(I) \in Nat /\ Cardinality(J) \in Nat /\ Cardinality({}) = 0
      BY <3>7, <3>8, FS_CardinalityType, FS_EmptySet
    <3>12. PICK a \in Nat, b \in Nat : a = Cardinality(I) /\ b = Cardinality(J)
      BY <3>11
    <3>13. Cardinality(I \cup J) = a + b
      BY <3>10, <3>11, <3>12
    <3>14. SumOf(w, A) = a + b
      BY <3>4, <3>7, <3>8, <3>12
    <3> QED  BY <1>1, <1>3, <3>9, <3>10, <3>13, <3>14
  <2> QED  BY <2>1, <2>2
<1>6. \A A \in SUBSET D : (\A p \in A : A \ {p} \in T) => A \in T
  BY <1>5
<1> HIDE DEF T
<1>7. SUBSET D \subseteq T
  BY <1>2, <1>6, SubsetInduction
<1>8. D \in T
  BY <1>7
<1> QED  BY <1>1, <1>8 DEF T

\* The index has the orders of the two sides.
LEMMA IndexIsCounted ==
  ASSUME BookTypeOK, IndexTracksBook
  PROVE  SumOf(LengthOf("BUY"), DOMAIN levels["BUY"])
           + SumOf(LengthOf("SELL"), DOMAIN levels["SELL"]) = TotalOrderCount
<1>1. PICK I : I = IndexedIn("BUY", DOMAIN levels["BUY"])
  OBVIOUS
<1>2. PICK J : J = IndexedIn("SELL", DOMAIN levels["SELL"])
  OBVIOUS
<1>3. IsFiniteSet(I) /\ Cardinality(I) = SumOf(LengthOf("BUY"), DOMAIN levels["BUY"])
  BY <1>1, SideIsCounted DEF Side
<1>4. IsFiniteSet(J) /\ Cardinality(J) = SumOf(LengthOf("SELL"), DOMAIN levels["SELL"])
  BY <1>2, SideIsCounted DEF Side
<1>5. DOMAIN orderIndex = I \cup J
  <2> SUFFICES ASSUME NEW id \in DOMAIN orderIndex
               PROVE  id \in I \cup J
    BY <1>1, <1>2 DEF IndexedIn
  <2>1. orderIndex[id].side \in Side
    BY DEF BookTypeOK, IsIndex, Location
  <2>2. HasId(Level(levels[orderIndex[id].side], orderIndex[id].price), id)
    BY DEF IndexTracksBook, Located
  <2>3. orderIndex[id].price \in DOMAIN levels[orderIndex[id].side]
    BY <2>2 DEF HasId, Level
  <2> QED  BY <1>1, <1>2, <2>1, <2>3 DEF IndexedIn, Side
<1>6. I \cap J = {}
  BY <1>1, <1>2 DEF IndexedIn
<1>7. Cardinality(I \cup J) = Cardinality(I) + Cardinality(J) - Cardinality({})
  BY <1>3, <1>4, <1>6, FS_Union
<1>8. Cardinality(I) \in Nat /\ Cardinality(J) \in Nat /\ Cardinality({}) = 0
  BY <1>3, <1>4, FS_CardinalityType, FS_EmptySet
<1>9. Cardinality(I \cup J) = Cardinality(I) + Cardinality(J)
  BY <1>7, <1>8
<1> QED  BY <1>3, <1>4, <1>5, <1>9 DEF TotalOrderCount

\* The counts of a depth, as a sum of FiniteSums.
LEMMA ShownIsSum ==
  ASSUME NEW d
  PROVE  Shown(d) = SumOf([i \in DOMAIN d |-> d[i].order_count], DOMAIN d)
<1> DEFINE w == [i \in DOMAIN d |-> d[i].order_count]
<1>1. DOMAIN w = DOMAIN d
  OBVIOUS
<1> HIDE DEF w
<1>2. SumFunction(w) = SumOf(w, DOMAIN w)
  BY DEF SumFunction, SumFunctionOnSet, FoldFunctionOnSet, SumOf, MapThenSumSet, MapThenFoldSet
<1> QED  BY <1>1, <1>2 DEF Shown, w

\* What getDepth shows.
LEMMA DepthRows ==
  ASSUME NEW s \in Side, IsBookMap(levels[s]), NEW m \in Nat
  PROVE  /\ DOMAIN GetDepth(s, m) = 1 .. Min({m, Cardinality(DOMAIN levels[s])})
         /\ \A i \in DOMAIN GetDepth(s, m) :
              /\ GetDepth(s, m)[i].price = Ranked(s, i)
              /\ GetDepth(s, m)[i].order_count = Len(levels[s][Ranked(s, i)])
BY DEF GetDepth

LEMMA SmallerOfTwo ==
  ASSUME NEW a \in Nat, NEW b \in Nat
  PROVE  Min({a, b}) = IF a <= b THEN a ELSE b
<1>1. \E x \in {a, b} : \A y \in {a, b} : x <= y
  OBVIOUS
<1>2. PICK x \in {a, b} : x = Min({a, b}) /\ \A y \in {a, b} : x <= y
  BY <1>1 DEF Min
<1> QED  BY <1>2

\* The full depth shows each level, with its orders.
LEMMA FullDepth ==
  ASSUME BookTypeOK, IndexTracksBook, NEW s \in Side
  PROVE  /\ Shown(GetDepth(s, Cardinality(Prices))) = SumOf(LengthOf(s), DOMAIN levels[s])
         /\ \A i \in DOMAIN GetDepth(s, Cardinality(Prices)) :
              GetDepth(s, Cardinality(Prices))[i].order_count > 0
<1>1. IsBookMap(levels[s])
  BY DEF BookTypeOK
<1>2. PICK D : D = DOMAIN levels[s] /\ D \in SUBSET Prices
  BY <1>1 DEF IsBookMap
<1>3. IsFiniteSet(Prices) /\ IsFiniteSet(D) /\ Cardinality(D) <= Cardinality(Prices)
  BY <1>2, PricesFinite, FS_Subset
<1>4. PICK k \in Nat : k = Cardinality(D)
  BY <1>3, FS_CardinalityType
<1>5. PICK m \in Nat : m = Cardinality(Prices) /\ k <= m
  BY <1>3, <1>4, FS_CardinalityType
<1>6. PICK d : d = GetDepth(s, m)
  OBVIOUS
<1>7. /\ DOMAIN d = 1 .. k
      /\ \A i \in 1 .. k : d[i].order_count = Len(levels[s][Ranked(s, i)])
  <2>1. Min({m, k}) = k
    BY <1>5, SmallerOfTwo
  <2> QED  BY <1>1, <1>2, <1>4, <1>6, <2>1, DepthRows
<1>8. \A i \in 1 .. k : Ranked(s, i) \in D /\ RankOf(s)[Ranked(s, i)] = i
  BY <1>1, <1>2, <1>4, RankedFacts
<1>9. \A p \in D : RankOf(s)[p] \in 1 .. k /\ Ranked(s, RankOf(s)[p]) = p
  BY <1>1, <1>2, <1>4, RankedFacts, RanksDiffer
<1>10. PICK h : h = [i \in 1 .. k |-> Ranked(s, i)]
  OBVIOUS
<1>11. PICK w : w = [i \in DOMAIN d |-> d[i].order_count]
  OBVIOUS
<1>12. PICK v : v = LengthOf(s)
  OBVIOUS
<1>13. \A i \in 1 .. k : w[i] \in Nat /\ v[h[i]] = w[i] /\ w[i] > 0
  <2> SUFFICES ASSUME NEW i \in 1 .. k
               PROVE  w[i] \in Nat /\ v[h[i]] = w[i] /\ w[i] > 0
    OBVIOUS
  <2>1. PICK p \in D : p = Ranked(s, i)
    BY <1>8
  <2>2. h[i] = p /\ w[i] = Len(levels[s][p]) /\ v[p] = Len(levels[s][p])
    BY <1>2, <1>7, <1>10, <1>11, <1>12, <2>1 DEF LengthOf
  <2>3. levels[s][p] \in Seq(Order) /\ levels[s][p] # <<>>
    BY <1>1, <1>2 DEF IsBookMap, IndexTracksBook
  <2>4. Len(levels[s][p]) \in Nat /\ Len(levels[s][p]) > 0
    BY <2>3
  <2> QED  BY <2>2, <2>4
<1>14. D = {h[i] : i \in 1 .. k}
  <2>1. \A p \in D : \E i \in 1 .. k : p = h[i]
    BY <1>9, <1>10
  <2>2. \A i \in 1 .. k : h[i] \in D
    BY <1>8, <1>10
  <2> QED  BY <2>1, <2>2
<1>15. \A i, j \in 1 .. k : h[i] = h[j] => i = j
  BY <1>8, <1>10
<1>16. IsFiniteSet(1 .. k)
  BY FS_Interval
<1>17. PICK N : N = 1 .. k
  OBVIOUS
<1>18. SumOf(v, D) = SumOf(w, N)
  <2>1. \A i \in N : w[i] \in Nat /\ v[h[i]] = w[i]
    BY <1>13, <1>17
  <2>2. \A i, j \in N : h[i] = h[j] => i = j
    BY <1>15, <1>17
  <2>3. D = {h[i] : i \in N} /\ IsFiniteSet(N)
    BY <1>14, <1>16, <1>17
  <2> QED  BY <2>1, <2>2, <2>3, SumRenamed
<1>19. Shown(d) = SumOf(w, N)
  BY <1>7, <1>11, <1>17, ShownIsSum
<1>20. \A i \in DOMAIN d : d[i].order_count > 0
  BY <1>7, <1>11, <1>13
<1> QED  BY <1>2, <1>5, <1>6, <1>12, <1>18, <1>19, <1>20

\* The first level of a depth cut to one is that of begin().
LEMMA FirstOfDepth ==
  ASSUME NEW s \in Side, IsBookMap(levels[s])
  PROVE  {GetDepth(s, 1)[i].price : i \in DOMAIN GetDepth(s, 1)} =
           IF DOMAIN levels[s] = {} THEN {} ELSE {Best(s)}
<1>1. IsFiniteSet(DOMAIN levels[s]) /\ Cardinality(DOMAIN levels[s]) \in Nat
  BY RanksDiffer
<1>2. PICK k \in Nat : k = Cardinality(DOMAIN levels[s])
  BY <1>1
<1>3. Min({1, k}) = IF k = 0 THEN 0 ELSE 1
  BY SmallerOfTwo
<1>4. k = 0 <=> DOMAIN levels[s] = {}
  BY <1>1, <1>2, FS_EmptySet
<1>5. /\ DOMAIN GetDepth(s, 1) = 1 .. Min({1, k})
      /\ \A i \in DOMAIN GetDepth(s, 1) : GetDepth(s, 1)[i].price = Ranked(s, i)
  BY <1>2, DepthRows
<1>6. CASE k = 0
  <2>1. DOMAIN GetDepth(s, 1) = {}
    BY <1>3, <1>5, <1>6
  <2> QED  BY <1>4, <1>6, <2>1
<1>7. CASE k # 0
  <2>1. DOMAIN GetDepth(s, 1) = {1} /\ GetDepth(s, 1)[1].price = Ranked(s, 1)
    BY <1>3, <1>5, <1>7
  <2>2. Ranked(s, 1) = Best(s)
    <3>1. Best(s) \in DOMAIN levels[s]
          /\ \A q \in DOMAIN levels[s] : q = Best(s) \/ Better(s, Best(s), q)
      BY <1>4, <1>7, BestIsBest
    <3>2. BetterThan(s, Best(s)) = {}
      <4>1. \A q \in DOMAIN levels[s] : q \in Int
        BY PricesAssumption DEF IsBookMap
      <4> QED  BY <3>1, <4>1 DEF BetterThan, Better, Side
    <3>3. RankOf(s)[Best(s)] = 1
      BY <3>1, <3>2, FS_EmptySet DEF RankOf
    <3> QED  BY <3>1, <3>3, RankedFacts
  <2> QED  BY <1>4, <1>7, <2>1, <2>2
<1> QED  BY <1>6, <1>7

\* Whatever callers add, as long as no id is sent while it rests: the queries that
\* read the index and those that read the maps agree.
THEOREM QueriesAlwaysAgree ==
  ASSUME "fresh_ids" \in Discipline
  PROVE  Spec => []QueriesAgree
<1>1. ASSUME TypeOK, IndexTracksBook
      PROVE  QueriesAgree
  <2>1. BookTypeOK /\ IsBookMap(levels["BUY"]) /\ IsBookMap(levels["SELL"])
    BY <1>1 DEF TypeOK, BookTypeOK, Side
  <2>2. Shown(GetDepth("BUY", Cardinality(Prices)))
          + Shown(GetDepth("SELL", Cardinality(Prices))) = TotalOrderCount
    BY <1>1, <2>1, FullDepth, IndexIsCounted DEF Side
  <2>3. \A s \in Side : \A i \in DOMAIN GetDepth(s, Cardinality(Prices)) :
          GetDepth(s, Cardinality(Prices))[i].order_count > 0
    BY <1>1, <2>1, FullDepth
  <2>4. {GetDepth("BUY", 1)[i].price : i \in DOMAIN GetDepth("BUY", 1)} = BestBid
    BY <2>1, FirstOfDepth DEF BestBid, Side
  <2>5. {GetDepth("SELL", 1)[i].price : i \in DOMAIN GetDepth("SELL", 1)} = BestAsk
    BY <2>1, FirstOfDepth DEF BestAsk, Side
  <2> QED  BY <2>2, <2>3, <2>4, <2>5 DEF QueriesAgree
<1>2. TypeOK /\ IndexTracksBook => QueriesAgree
  BY <1>1
<1> QED  BY <1>2, TypeCorrect, IndexAlwaysTracksBook, PTL
=============================================================================

------------------------------ MODULE FiniteSums ------------------------------
(***************************************************************************)
(* Sums over finite sets, as FiniteSetsExt defines them: MapThenSumSet     *)
(* takes the elements of the set in the order of CHOOSE.  The lemmas say   *)
(* that the order does not matter, and what adding, removing and renaming  *)
(* elements does to a sum.  What is summed is a function, for the provers  *)
(* do not instantiate operators, and inductions are over sets of numbers   *)
(* or of sets that a property holds of.                                    *)
(***************************************************************************)
EXTENDS Integers, FiniteSetsExt, FiniteSetTheorems, WellFoundedInduction, TLAPS

\* The sum of the values that w has in S.
SumOf(w, S) == MapThenSumSet(LAMBDA x : w[x], S)

\* What MapThenSumSet computes with: a value for every subset of S.
SumStep(g, w, s) ==
  IF s = {} THEN 0
  ELSE w[CHOOSE x \in s : TRUE] + g[s \ {CHOOSE x \in s : TRUE}]
IsSums(g, w, S) == g = [s \in SUBSET S |-> SumStep(g, w, s)]
Sums(w, S) == CHOOSE g : IsSums(g, w, S)

-----------------------------------------------------------------------------
(* Induction.                                                              *)

\* A set of natural numbers that is not empty has a least element.
LEMMA LeastNat ==
  ASSUME NEW T, T \subseteq Nat, T # {}
  PROVE  \E n \in T : \A m \in T : n <= m
<1>1. PICK n \in T : \A m \in T : ~(<<m, n>> \in OpToRel(<, Nat))
  BY NatLessThanWellFounded, WFMin
<1>2. \A m \in T : ~(m < n)
  BY <1>1 DEF OpToRel
<1> QED  BY <1>2

\* Induction over the natural numbers, for a set.
LEMMA NatSetInduction ==
  ASSUME NEW T, 0 \in T, \A n \in Nat : n \in T => n + 1 \in T
  PROVE  Nat \subseteq T
<1> SUFFICES ASSUME Nat \ T # {}
             PROVE  FALSE
  OBVIOUS
<1>1. PICK n \in Nat \ T : \A m \in Nat \ T : n <= m
  BY LeastNat
<1>2. n # 0 /\ n - 1 \in Nat /\ n - 1 \notin Nat \ T
  BY <1>1
<1>3. (n - 1) + 1 \in T
  BY <1>2
<1> QED  BY <1>1, <1>3

\* Induction over the finite sets, for a set of subsets of S.
LEMMA SubsetInduction ==
  ASSUME NEW S, IsFiniteSet(S), NEW T,
         \A A \in SUBSET S : (\A x \in A : A \ {x} \in T) => A \in T
  PROVE  SUBSET S \subseteq T
<1> DEFINE N == {n \in Nat : \A A \in SUBSET S : Cardinality(A) <= n => A \in T}
<1>1. \A A \in SUBSET S : IsFiniteSet(A) /\ Cardinality(A) \in Nat
  BY FS_Subset, FS_CardinalityType
<1>2. 0 \in N
  <2> SUFFICES ASSUME NEW A \in SUBSET S, Cardinality(A) <= 0
               PROVE  A \in T
    OBVIOUS
  <2>1. A = {}
    BY <1>1, FS_EmptySet
  <2> QED  BY <2>1
<1>3. ASSUME NEW n \in Nat, n \in N
      PROVE  n + 1 \in N
  <2> SUFFICES ASSUME NEW A \in SUBSET S, Cardinality(A) <= n + 1
               PROVE  A \in T
    OBVIOUS
  <2>1. ASSUME NEW x \in A
        PROVE  A \ {x} \in T
    <3>1. Cardinality(A \ {x}) = Cardinality(A) - 1
      BY <1>1, FS_RemoveElement
    <3>2. Cardinality(A \ {x}) <= n /\ A \ {x} \in SUBSET S
      BY <1>1, <3>1
    <3> QED  BY <1>3, <3>2
  <2> QED  BY <2>1
<1> HIDE DEF N
<1>4. Nat \subseteq N
  BY <1>2, <1>3, NatSetInduction
<1> QED
  <2> SUFFICES ASSUME NEW A \in SUBSET S
               PROVE  A \in T
    OBVIOUS
  <2>1. Cardinality(A) \in N /\ Cardinality(A) <= Cardinality(A)
    BY <1>1, <1>4
  <2> QED  BY <2>1 DEF N

LEMMA ImageIsFinite ==
  ASSUME NEW h, NEW S, IsFiniteSet(S)
  PROVE  IsFiniteSet({h[x] : x \in S})
<1> DEFINE R == {h[x] : x \in S}
           f == [x \in S |-> h[x]]
<1>1. f \in Surjection(S, R)
  BY DEF Surjection
<1> HIDE DEF f, R
<1>2. IsFiniteSet(R)
  BY <1>1, FS_Surjection
<1> QED  BY <1>2 DEF R

-----------------------------------------------------------------------------
(* The recursion of a sum.                                                 *)

\* There is a function as MapThenSumSet wants it.
LEMMA SumsExist ==
  ASSUME NEW w, NEW S, IsFiniteSet(S)
  PROVE  /\ IsSums(Sums(w, S), w, S)
         /\ \A s \in SUBSET S : Sums(w, S)[s] = SumStep(Sums(w, S), w, s)
<1> DEFINE Upto(n) == {s \in SUBSET S : Cardinality(s) <= n}
           Correct(n) == \E g : /\ g = [s \in SUBSET S |-> g[s]]
                                /\ \A s \in Upto(n) : g[s] = SumStep(g, w, s)
           N == {n \in Nat : Correct(n)}
<1>1. \A A \in SUBSET S : IsFiniteSet(A) /\ Cardinality(A) \in Nat
  BY FS_Subset, FS_CardinalityType
<1>2. 0 \in N
  <2> DEFINE g == [s \in SUBSET S |-> 0]
  <2>1. \A s \in Upto(0) : s = {}
    BY <1>1, FS_EmptySet
  <2>2. g = [s \in SUBSET S |-> g[s]] /\ \A s \in Upto(0) : g[s] = SumStep(g, w, s)
    BY <2>1 DEF SumStep
  <2> HIDE DEF g
  <2> QED  BY <2>2
<1>3. ASSUME NEW n \in Nat, n \in N
      PROVE  n + 1 \in N
  <2>1. PICK g : /\ g = [s \in SUBSET S |-> g[s]]
                 /\ \A s \in Upto(n) : g[s] = SumStep(g, w, s)
    BY <1>3
  <2> DEFINE h == [s \in SUBSET S |-> SumStep(g, w, s)]
  <2>2. ASSUME NEW s \in Upto(n + 1)
        PROVE  h[s] = SumStep(h, w, s)
    <3> DEFINE x == CHOOSE x \in s : TRUE
    <3>1. CASE s = {}
      BY <3>1 DEF SumStep
    <3>2. CASE s # {}
      <4>1. x \in s
        BY <3>2
      <4> HIDE DEF x
      <4>2. Cardinality(s \ {x}) = Cardinality(s) - 1
        BY <1>1, <4>1, FS_RemoveElement
      <4>3. s \ {x} \in Upto(n)
        BY <1>1, <4>2
      <4>4. h[s \ {x}] = g[s \ {x}]
        BY <2>1, <4>3
      <4>5. SumStep(h, w, s) = w[x] + h[s \ {x}] /\ SumStep(g, w, s) = w[x] + g[s \ {x}]
        BY <3>2 DEF SumStep, x
      <4> QED  BY <4>4, <4>5
    <3> QED  BY <3>1, <3>2
  <2>3. h = [s \in SUBSET S |-> h[s]]
    OBVIOUS
  <2> HIDE DEF h
  <2>4. Correct(n + 1)
    BY <2>2, <2>3
  <2> HIDE DEF Correct
  <2> QED  BY <2>4
<1> HIDE DEF N
<1>4. Cardinality(S) \in N
  BY <1>1, <1>2, <1>3, NatSetInduction
<1>5. PICK g : /\ g = [s \in SUBSET S |-> g[s]]
               /\ \A s \in Upto(Cardinality(S)) : g[s] = SumStep(g, w, s)
  BY <1>4 DEF N
<1>6. Upto(Cardinality(S)) = SUBSET S
  BY <1>1, FS_Subset
<1>7. IsSums(g, w, S)
  BY <1>5, <1>6 DEF IsSums
<1>8. IsSums(Sums(w, S), w, S)
  BY <1>7 DEF Sums
<1> QED  BY <1>8 DEF IsSums

\* Two functions that follow the recursion agree where both have a value.
LEMMA SumsAgree ==
  ASSUME NEW w, NEW v, NEW S, IsFiniteSet(S), NEW A \in SUBSET S,
         \A x \in A : v[x] = w[x],
         NEW g, \A s \in SUBSET S : g[s] = SumStep(g, w, s),
         NEW h, \A s \in SUBSET A : h[s] = SumStep(h, v, s)
  PROVE  g[A] = h[A]
<1> DEFINE T == {s \in SUBSET A : g[s] = h[s]}
<1>1. IsFiniteSet(A)
  BY FS_Subset
<1>2. ASSUME NEW s \in SUBSET A, \A x \in s : s \ {x} \in T
      PROVE  s \in T
  <2> DEFINE x == CHOOSE x \in s : TRUE
  <2>1. g[s] = SumStep(g, w, s) /\ h[s] = SumStep(h, v, s)
    OBVIOUS
  <2>2. CASE s = {}
    BY <2>1, <2>2 DEF SumStep
  <2>3. CASE s # {}
    <3>1. x \in s
      BY <2>3
    <3>2. g[s] = w[x] + g[s \ {x}] /\ h[s] = v[x] + h[s \ {x}]
      BY <2>1, <2>3 DEF SumStep
    <3> HIDE DEF x
    <3>3. v[x] = w[x] /\ g[s \ {x}] = h[s \ {x}]
      BY <1>2, <3>1
    <3> QED  BY <3>2, <3>3
  <2> QED  BY <2>2, <2>3
<1> HIDE DEF T
<1>3. SUBSET A \subseteq T
  BY <1>1, <1>2, SubsetInduction
<1> QED  BY <1>3 DEF T

LEMMA SumOfSums ==
  ASSUME NEW w, NEW S
  PROVE  SumOf(w, S) = Sums(w, S)[S]
BY DEF SumOf, Sums, IsSums, SumStep, MapThenSumSet, MapThenFoldSet

\* The sum of a set whose CHOOSE is x.
LEMMA SumChosen ==
  ASSUME NEW w, NEW S, IsFiniteSet(S), S # {}
  PROVE  LET x == CHOOSE x \in S : TRUE
         IN  x \in S /\ SumOf(w, S) = w[x] + SumOf(w, S \ {x})
<1> DEFINE x == CHOOSE x \in S : TRUE
           A == S \ {x}
<1>1. x \in S
  OBVIOUS
<1>2. \A s \in SUBSET S : Sums(w, S)[s] = SumStep(Sums(w, S), w, s)
  BY SumsExist
<1>3. IsFiniteSet(A)
  BY FS_Subset
<1>4. \A s \in SUBSET A : Sums(w, A)[s] = SumStep(Sums(w, A), w, s)
  <2> HIDE DEF A
  <2> QED  BY <1>3, SumsExist
<1>5. Sums(w, S)[A] = Sums(w, A)[A]
  <2> DEFINE g == Sums(w, S)
             h == Sums(w, A)
  <2>1. A \in SUBSET S /\ \A s \in SUBSET S : g[s] = SumStep(g, w, s)
    BY <1>2
  <2>2. \A s \in SUBSET A : h[s] = SumStep(h, w, s)
    BY <1>4
  <2> HIDE DEF g, h, A
  <2>3. g[A] = h[A]
    BY <2>1, <2>2, SumsAgree
  <2> QED  BY <2>3 DEF g, h
<1>6. Sums(w, S)[S] = SumStep(Sums(w, S), w, S)
  BY <1>2
<1>7. SumStep(Sums(w, S), w, S) = w[x] + Sums(w, S)[A]
  BY DEF SumStep
<1> QED  BY <1>1, <1>5, <1>6, <1>7, SumOfSums

LEMMA SumEmpty ==
  ASSUME NEW w
  PROVE  SumOf(w, {}) = 0
<1>1. \A s \in SUBSET {} : Sums(w, {})[s] = SumStep(Sums(w, {}), w, s)
  BY FS_EmptySet, SumsExist
<1>2. Sums(w, {})[{}] = SumStep(Sums(w, {}), w, {})
  BY <1>1
<1> QED  BY <1>2, SumOfSums DEF SumStep

\* Only the values in the set count.
LEMMA SumSameValues ==
  ASSUME NEW w, NEW v, NEW S, IsFiniteSet(S), \A x \in S : v[x] = w[x]
  PROVE  SumOf(v, S) = SumOf(w, S)
<1>1. \A s \in SUBSET S : Sums(w, S)[s] = SumStep(Sums(w, S), w, s)
  BY SumsExist
<1>2. \A s \in SUBSET S : Sums(v, S)[s] = SumStep(Sums(v, S), v, s)
  BY SumsExist
<1> DEFINE g == Sums(w, S)
           h == Sums(v, S)
<1>3. /\ \A s \in SUBSET S : g[s] = SumStep(g, w, s)
      /\ \A s \in SUBSET S : h[s] = SumStep(h, v, s)
  BY <1>1, <1>2
<1> HIDE DEF g, h
<1>4. g[S] = h[S]
  BY <1>3, SumsAgree
<1> QED  BY <1>4, SumOfSums DEF g, h

-----------------------------------------------------------------------------
(* Sums of natural numbers.                                                *)

LEMMA SumIsNat ==
  ASSUME NEW w, NEW S, IsFiniteSet(S), \A x \in S : w[x] \in Nat
  PROVE  SumOf(w, S) \in Nat
<1> DEFINE T == {A \in SUBSET S : SumOf(w, A) \in Nat}
<1>1. ASSUME NEW A \in SUBSET S, \A x \in A : A \ {x} \in T
      PROVE  A \in T
  <2>1. CASE A = {}
    BY <2>1, SumEmpty
  <2>2. CASE A # {}
    <3>1. PICK x \in A : SumOf(w, A) = w[x] + SumOf(w, A \ {x})
      BY <2>2, FS_Subset, SumChosen
    <3>2. w[x] \in Nat /\ SumOf(w, A \ {x}) \in Nat
      BY <1>1
    <3> QED  BY <3>1, <3>2
  <2> QED  BY <2>1, <2>2
<1> HIDE DEF T
<1>2. S \in T
  BY <1>1, SubsetInduction
<1> QED  BY <1>2 DEF T

\* Any element may be counted first.
LEMMA SumRemove ==
  ASSUME NEW w, NEW S, IsFiniteSet(S), \A x \in S : w[x] \in Nat, NEW y \in S
  PROVE  SumOf(w, S) = w[y] + SumOf(w, S \ {y})
<1> DEFINE T == {A \in SUBSET S : \A x \in A : SumOf(w, A) = w[x] + SumOf(w, A \ {x})}
<1>1. ASSUME NEW A \in SUBSET S, \A x \in A : A \ {x} \in T
      PROVE  A \in T
  <2> SUFFICES ASSUME NEW x \in A
               PROVE  SumOf(w, A) = w[x] + SumOf(w, A \ {x})
    OBVIOUS
  <2>1. IsFiniteSet(A)
    BY FS_Subset
  <2>2. PICK c \in A : SumOf(w, A) = w[c] + SumOf(w, A \ {c})
    BY <2>1, SumChosen
  <2>3. CASE c = x
    BY <2>2, <2>3
  <2>4. CASE c # x
    <3>1. A \ {c} \in T /\ A \ {x} \in T
      BY <1>1
    <3>2. SumOf(w, A \ {c}) = w[x] + SumOf(w, (A \ {c}) \ {x})
      BY <2>4, <3>1
    <3>3. SumOf(w, A \ {x}) = w[c] + SumOf(w, (A \ {x}) \ {c})
      BY <2>4, <3>1
    <3>4. (A \ {c}) \ {x} = (A \ {x}) \ {c}
      OBVIOUS
    <3>5. SumOf(w, (A \ {x}) \ {c}) \in Nat
      BY <2>1, FS_Subset, SumIsNat
    <3> QED  BY <2>2, <3>2, <3>3, <3>4, <3>5
  <2> QED  BY <2>3, <2>4
<1> HIDE DEF T
<1>2. S \in T
  BY <1>1, SubsetInduction
<1> QED  BY <1>2 DEF T

\* A part has at most the sum of the whole.
LEMMA SumOfPart ==
  ASSUME NEW w, NEW S, IsFiniteSet(S), \A x \in S : w[x] \in Nat, NEW P \in SUBSET S
  PROVE  SumOf(w, P) <= SumOf(w, S)
<1> DEFINE T == {A \in SUBSET S : P \subseteq A => SumOf(w, P) <= SumOf(w, A)}
<1>1. ASSUME NEW A \in SUBSET S, \A x \in A : A \ {x} \in T
      PROVE  A \in T
  <2> SUFFICES ASSUME P \subseteq A
               PROVE  SumOf(w, P) <= SumOf(w, A)
    OBVIOUS
  <2>1. IsFiniteSet(A) /\ IsFiniteSet(P)
    BY FS_Subset
  <2>2. SumOf(w, A) \in Nat /\ SumOf(w, P) \in Nat
    BY <2>1, SumIsNat
  <2>3. CASE P = A
    BY <2>2, <2>3
  <2>4. CASE P # A
    <3>1. PICK x \in A : x \notin P
      BY <2>4
    <3>2. SumOf(w, P) <= SumOf(w, A \ {x})
      BY <1>1, <3>1
    <3>3. SumOf(w, A) = w[x] + SumOf(w, A \ {x})
      BY <2>1, SumRemove
    <3>4. SumOf(w, A \ {x}) \in Nat /\ w[x] \in Nat
      BY <2>1, FS_Subset, SumIsNat
    <3> QED  BY <2>2, <3>2, <3>3, <3>4
  <2> QED  BY <2>3, <2>4
<1> HIDE DEF T
<1>2. S \in T
  BY <1>1, SubsetInduction
<1> QED  BY <1>2 DEF T

\* The elements are renamed, two never alike.
LEMMA SumRenamed ==
  ASSUME NEW v, NEW w, NEW S, IsFiniteSet(S), NEW h, NEW R,
         R = {h[x] : x \in S},
         \A x, y \in S : h[x] = h[y] => x = y,
         \A x \in S : w[x] \in Nat /\ v[h[x]] = w[x]
  PROVE  SumOf(v, R) = SumOf(w, S)
<1> DEFINE Image(A) == {h[x] : x \in A}
           T == {A \in SUBSET S : SumOf(v, Image(A)) = SumOf(w, A)}
<1>1. ASSUME NEW A \in SUBSET S, \A x \in A : A \ {x} \in T
      PROVE  A \in T
  <2>1. IsFiniteSet(A)
    BY FS_Subset
  <2>2. IsFiniteSet(Image(A))
    BY <2>1, ImageIsFinite
  <2>3. CASE A = {}
    <3>1. Image(A) = {}
      BY <2>3
    <3> QED  BY <2>3, <3>1, SumEmpty
  <2>4. CASE A # {}
    <3>1. PICK x \in A : TRUE
      BY <2>4
    <3>2. Image(A) \ {h[x]} = Image(A \ {x})
      OBVIOUS
    <3>3. h[x] \in Image(A) /\ \A y \in Image(A) : v[y] \in Nat
      OBVIOUS
    <3> HIDE DEF Image
    <3>4. SumOf(v, Image(A)) = v[h[x]] + SumOf(v, Image(A) \ {h[x]})
      BY <2>2, <3>3, SumRemove
    <3>5. SumOf(w, A) = w[x] + SumOf(w, A \ {x})
      BY <2>1, SumRemove
    <3>6. SumOf(v, Image(A \ {x})) = SumOf(w, A \ {x})
      BY <1>1
    <3> QED  BY <3>2, <3>4, <3>5, <3>6
  <2> QED  BY <2>3, <2>4
<1>2. S \in T
  <2> HIDE DEF T
  <2> QED  BY <1>1, SubsetInduction
<1> QED  BY <1>2
=============================================================================

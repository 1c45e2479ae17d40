---------------------------- MODULE SumTheorems ----------------------------
(***************************************************************************)
(* What the sums of the models rest on: a sum over a finite set does not   *)
(* depend on the order in which it is taken.                               *)
(***************************************************************************)
EXTENDS FiniteSetsExt, FiniteSetTheorems, WellFoundedInduction, TLAPS

LEMMA FiniteImage ==
  ASSUME NEW f, NEW S, IsFiniteSet(S)
  PROVE  IsFiniteSet({f[x] : x \in S})
<1> DEFINE T == {f[x] : x \in S}
           g == [x \in S |-> f[x]]
<1>1. g \in Surjection(S, T)
  BY DEF Surjection
<1> HIDE DEF g, T
<1>2. IsFiniteSet(T)
  BY <1>1, FS_Surjection
<1>3. QED
  BY <1>2 DEF T

(* Induction over the subsets of a finite set, for a property given as the
   set F of the sets that have it. *)
LEMMA SubsetInduction ==
  ASSUME NEW S, IsFiniteSet(S), NEW F,
         \A T \in SUBSET S : (\A U \in SUBSET T : U # T => U \in F) => T \in F
  PROVE  \A T \in SUBSET S : T \in F
<1> DEFINE Bad == {T \in SUBSET S : T \notin F}
<1>1. SUFFICES ASSUME Bad # {} PROVE FALSE
  OBVIOUS
<1>2. IsWellFoundedOn(StrictSubsetOrdering(S), SUBSET S)
  BY FS_StrictSubsetOrderingWellFounded, FS_FiniteSubsetsOfFinite
<1>3. PICK T \in Bad : \A U \in Bad : <<U, T>> \notin StrictSubsetOrdering(S)
  <2>1. Bad \subseteq SUBSET S
    OBVIOUS
  <2> HIDE DEF Bad
  <2>2. QED
    BY <1>1, <1>2, <2>1, WFMin
<1>4. \A U \in SUBSET T : U # T => U \in F
  BY <1>3 DEF StrictSubsetOrdering
<1>5. QED
  BY <1>3, <1>4

-----------------------------------------------------------------------------
(* The definition of a sum *)

Pick(s) == CHOOSE x \in s : TRUE

Recurrence(f, S, iter) ==
  iter = [s \in SUBSET S |-> IF s = {} THEN 0 ELSE f[Pick(s)] + iter[s \ {Pick(s)}]]

LEMMA SumByRecurrence ==
  ASSUME NEW f, NEW S
  PROVE  SumFunctionOnSet(f, S) = (CHOOSE iter : Recurrence(f, S, iter))[S]
BY DEF SumFunctionOnSet, FoldFunctionOnSet, MapThenFoldSet, Recurrence, Pick

(* The functions for two sets agree on the subsets of both. *)
LEMMA RecurrenceUnique ==
  ASSUME NEW f, NEW S, NEW T \in SUBSET S, IsFiniteSet(T), NEW g, NEW h,
         Recurrence(f, S, g), Recurrence(f, T, h)
  PROVE  \A U \in SUBSET T : g[U] = h[U]
<1> DEFINE Agree == {U \in SUBSET T : g[U] = h[U]}
<1>1. ASSUME NEW U \in SUBSET T, \A V \in SUBSET U : V # U => V \in Agree
      PROVE  U \in Agree
  <2>1. CASE U = {}
    BY <2>1 DEF Recurrence
  <2>2. CASE U # {}
    <3>1. Pick(U) \in U
      BY <2>2 DEF Pick
    <3>2. g[U \ {Pick(U)}] = h[U \ {Pick(U)}]
      BY <1>1, <3>1
    <3>3. /\ g[U] = f[Pick(U)] + g[U \ {Pick(U)}]
          /\ h[U] = f[Pick(U)] + h[U \ {Pick(U)}]
      BY <2>2 DEF Recurrence
    <3>4. QED
      BY <3>2, <3>3
  <2>3. QED
    BY <2>1, <2>2
<1> HIDE DEF Agree
<1>2. \A U \in SUBSET T : U \in Agree
  BY <1>1, SubsetInduction
<1>3. QED
  BY <1>2 DEF Agree

LEMMA RecurrenceExists ==
  ASSUME NEW f, NEW S, IsFiniteSet(S)
  PROVE  \E g : Recurrence(f, S, g)
<1> DEFINE Solved == {T \in SUBSET S : \E g : Recurrence(f, T, g)}
           Value(T) == (CHOOSE g : Recurrence(f, T, g))[T]
<1>1. ASSUME NEW T \in SUBSET S, \A U \in SUBSET T : U # T => U \in Solved
      PROVE  T \in Solved
  <2> DEFINE Rest(U) == U \ {Pick(U)}
             g == [U \in SUBSET T |-> IF U = {} THEN 0 ELSE f[Pick(U)] + Value(Rest(U))]
  <2>1. ASSUME NEW U \in SUBSET T, U # T
        PROVE  g[U] = Value(U)
    <3>1. PICK h : Recurrence(f, U, h) /\ h = CHOOSE k : Recurrence(f, U, k)
      BY <1>1, <2>1
    <3>2. CASE U = {}
      BY <3>1, <3>2 DEF Recurrence
    <3>3. CASE U # {}
      <4>1. Pick(U) \in U /\ Rest(U) \subseteq U /\ Rest(U) # T
        BY <3>3 DEF Pick
      <4>2. PICK k : Recurrence(f, Rest(U), k) /\ k = CHOOSE l : Recurrence(f, Rest(U), l)
        BY <1>1, <4>1
      <4>3. IsFiniteSet(Rest(U))
        BY FS_Subset, <4>1
      <4>4. h[Rest(U)] = k[Rest(U)]
        <5>1. Rest(U) \in SUBSET U /\ Rest(U) \in SUBSET Rest(U)
          BY <4>1
        <5> HIDE DEF Rest
        <5>2. \A V \in SUBSET Rest(U) : h[V] = k[V]
          <6> DEFINE R == Rest(U)
          <6>1. R \in SUBSET U /\ IsFiniteSet(R)
            BY <4>3, <5>1
          <6>2. Recurrence(f, U, h) /\ Recurrence(f, R, k)
            BY <3>1, <4>2
          <6> HIDE DEF R
          <6>3. \A V \in SUBSET R : h[V] = k[V]
            BY <6>1, <6>2, RecurrenceUnique
          <6>4. QED
            BY <6>3 DEF R
        <5>3. QED
          BY <5>1, <5>2
      <4>5. h[U] = f[Pick(U)] + h[Rest(U)]
        BY <3>1, <3>3 DEF Recurrence
      <4>6. QED
        BY <3>1, <3>3, <4>2, <4>4, <4>5
    <3>4. QED
      BY <3>2, <3>3
  <2>2. ASSUME NEW U \in SUBSET T, U # {}
        PROVE  g[U] = f[Pick(U)] + g[Rest(U)]
    <3>1. Rest(U) \in SUBSET T /\ Rest(U) # T
      BY <2>2 DEF Pick
    <3>2. g[Rest(U)] = Value(Rest(U))
      BY <2>1, <3>1
    <3>3. QED
      BY <2>2, <3>2
  <2>3. g = [U \in SUBSET T |-> g[U]] /\ (g[{}] = 0)
    OBVIOUS
  <2> HIDE DEF g
  <2>4. Recurrence(f, T, g)
    BY <2>2, <2>3 DEF Recurrence
  <2>5. QED
    BY <2>4
<1> HIDE DEF Solved
<1>2. S \in Solved
  BY <1>1, SubsetInduction
<1>3. QED
  BY <1>2 DEF Solved

-----------------------------------------------------------------------------
(* Sums over finite sets *)

(* A sum, unfolded by the element that its definition picks first *)
LEMMA SumByPick ==
  ASSUME NEW f, NEW S, IsFiniteSet(S)
  PROVE  SumFunctionOnSet(f, S) =
           IF S = {} THEN 0 ELSE f[Pick(S)] + SumFunctionOnSet(f, S \ {Pick(S)})
<1> DEFINE T == S \ {Pick(S)}
<1>1. PICK g : Recurrence(f, S, g) /\ g = CHOOSE k : Recurrence(f, S, k)
  BY RecurrenceExists
<1>2. IsFiniteSet(T) /\ T \in SUBSET S
  BY FS_Subset
<1>3. PICK h : Recurrence(f, T, h) /\ h = CHOOSE k : Recurrence(f, T, k)
  BY <1>2, RecurrenceExists
<1>4. g[T] = h[T]
  BY <1>1, <1>2, <1>3, RecurrenceUnique
<1>5. g[S] = IF S = {} THEN 0 ELSE f[Pick(S)] + g[T]
  BY <1>1 DEF Recurrence
<1>6. SumFunctionOnSet(f, S) = g[S] /\ SumFunctionOnSet(f, T) = h[T]
  BY <1>1, <1>3, SumByRecurrence
<1>7. QED
  BY <1>4, <1>5, <1>6

LEMMA SumEmpty == ASSUME NEW f PROVE SumFunctionOnSet(f, {}) = 0
BY SumByPick, FS_EmptySet

LEMMA SumInInt ==
  ASSUME NEW f, NEW S, IsFiniteSet(S), \A x \in S : f[x] \in Int
  PROVE  SumFunctionOnSet(f, S) \in Int
<1> DEFINE Typed == {T \in SUBSET S : SumFunctionOnSet(f, T) \in Int}
<1>1. ASSUME NEW T \in SUBSET S, \A U \in SUBSET T : U # T => U \in Typed
      PROVE  T \in Typed
  <2>1. CASE T = {}
    BY <2>1, SumEmpty
  <2>2. CASE T # {}
    <3> DEFINE p == Pick(T)
    <3>1. p \in T /\ IsFiniteSet(T)
      BY <2>2, FS_Subset DEF Pick
    <3>2. SumFunctionOnSet(f, T) = f[p] + SumFunctionOnSet(f, T \ {p})
      BY <2>2, <3>1, SumByPick
    <3>3. SumFunctionOnSet(f, T \ {p}) \in Int
      BY <1>1, <3>1
    <3>4. f[p] \in Int
      BY <3>1
    <3> HIDE DEF p
    <3>5. QED
      BY <3>2, <3>3, <3>4
  <2>3. QED
    BY <2>1, <2>2
<1> HIDE DEF Typed
<1>2. S \in Typed
  BY <1>1, SubsetInduction
<1>3. QED
  BY <1>2 DEF Typed

(* The sum does not depend on what is added first. *)
LEMMA SumRemove ==
  ASSUME NEW f, NEW S, IsFiniteSet(S), \A y \in S : f[y] \in Int, NEW x \in S
  PROVE  SumFunctionOnSet(f, S) = f[x] + SumFunctionOnSet(f, S \ {x})
<1> DEFINE Sum(T) == SumFunctionOnSet(f, T)
           Free == {T \in SUBSET S : \A y \in T : Sum(T) = f[y] + Sum(T \ {y})}
<1>1. \A T \in SUBSET S : IsFiniteSet(T) /\ Sum(T) \in Int
  <2>1. \A T \in SUBSET S : IsFiniteSet(T)
    BY FS_Subset
  <2>2. QED
    BY <2>1, SumInInt
<1>2. \A T \in SUBSET S : T # {} => Pick(T) \in T /\ Sum(T) = f[Pick(T)] + Sum(T \ {Pick(T)})
  BY <1>1, SumByPick DEF Pick
<1> HIDE DEF Sum
<1>3. ASSUME NEW T \in SUBSET S, \A U \in SUBSET T : U # T => U \in Free,
             NEW y \in T
      PROVE  Sum(T) = f[y] + Sum(T \ {y})
  <2>1. CASE y = Pick(T)
    BY <1>2, <2>1
  <2>2. CASE y # Pick(T)
    <3> DEFINE p == Pick(T)
               R == (T \ {p}) \ {y}
    <3>1. p \in T /\ Sum(T) = f[p] + Sum(T \ {p})
      BY <1>2
    <3>2. Sum(T \ {p}) = f[y] + Sum(R)
      <4>1. T \ {p} \in Free /\ y \in T \ {p}
        BY <1>3, <2>2, <3>1
      <4>2. QED
        BY <4>1
    <3>3. Sum(T \ {y}) = f[p] + Sum(R)
      <4>1. T \ {y} \in Free /\ p \in T \ {y}
        BY <1>3, <2>2, <3>1
      <4>2. (T \ {y}) \ {p} = R
        OBVIOUS
      <4>3. QED
        BY <4>1, <4>2
    <3>4. f[p] \in Int /\ f[y] \in Int /\ Sum(R) \in Int
      BY <1>1, <3>1
    <3> HIDE DEF p, R
    <3>5. QED
      BY <3>1, <3>2, <3>3, <3>4
  <2>3. QED
    BY <2>1, <2>2
<1>4. \A T \in SUBSET S : (\A U \in SUBSET T : U # T => U \in Free) => T \in Free
  BY <1>3
<1>5. QED
  <2> HIDE DEF Free
  <2>1. S \in Free
    BY <1>4, SubsetInduction
  <2>2. QED
    BY <2>1 DEF Free, Sum

(* Sums of equal, of added, of scaled and of ordered values *)
LEMMA SumSame ==
  ASSUME NEW f, NEW g, NEW S, IsFiniteSet(S),
         \A x \in S : f[x] \in Int /\ g[x] = f[x]
  PROVE  SumFunctionOnSet(g, S) = SumFunctionOnSet(f, S)
<1> DEFINE Same == {T \in SUBSET S : SumFunctionOnSet(g, T) = SumFunctionOnSet(f, T)}
<1>1. ASSUME NEW T \in SUBSET S, \A U \in SUBSET T : U # T => U \in Same
      PROVE  T \in Same
  <2>1. CASE T = {}
    BY <2>1, SumEmpty
  <2>2. CASE T # {}
    <3>1. PICK p \in T : TRUE
      BY <2>2
    <3> DEFINE R == T \ {p}
    <3>2. IsFiniteSet(T) /\ IsFiniteSet(R)
      BY FS_Subset
    <3>3. R \in Same
      BY <1>1, <3>1
    <3> HIDE DEF R
    <3>4. SumFunctionOnSet(f, T) = f[p] + SumFunctionOnSet(f, R)
      BY <3>2, SumRemove DEF R
    <3>5. SumFunctionOnSet(g, T) = g[p] + SumFunctionOnSet(g, R)
      BY <3>2, SumRemove DEF R
    <3>6. QED
      BY <3>3, <3>4, <3>5
  <2>3. QED
    BY <2>1, <2>2
<1> HIDE DEF Same
<1>2. S \in Same
  BY <1>1, SubsetInduction
<1>3. QED
  BY <1>2 DEF Same

LEMMA SumPlus ==
  ASSUME NEW f, NEW g, NEW h, NEW S, IsFiniteSet(S),
         \A x \in S : f[x] \in Int /\ g[x] \in Int /\ h[x] = f[x] + g[x]
  PROVE  SumFunctionOnSet(h, S) = SumFunctionOnSet(f, S) + SumFunctionOnSet(g, S)
<1> DEFINE Added == {T \in SUBSET S : SumFunctionOnSet(h, T) = SumFunctionOnSet(f, T) + SumFunctionOnSet(g, T)}
<1>1. ASSUME NEW T \in SUBSET S, \A U \in SUBSET T : U # T => U \in Added
      PROVE  T \in Added
  <2>1. CASE T = {}
    BY <2>1, SumEmpty
  <2>2. CASE T # {}
    <3>1. PICK p \in T : TRUE
      BY <2>2
    <3> DEFINE R == T \ {p}
    <3>2. IsFiniteSet(T) /\ IsFiniteSet(R)
      BY FS_Subset
    <3>3. R \in Added
      BY <1>1, <3>1
    <3> HIDE DEF R
    <3>4. SumFunctionOnSet(f, T) = f[p] + SumFunctionOnSet(f, R)
      BY <3>2, SumRemove DEF R
    <3>5. SumFunctionOnSet(g, T) = g[p] + SumFunctionOnSet(g, R)
      BY <3>2, SumRemove DEF R
    <3>6. SumFunctionOnSet(h, T) = h[p] + SumFunctionOnSet(h, R)
      <4>1. \A x \in T : h[x] \in Int
        OBVIOUS
      <4>2. QED
        BY <3>2, <4>1, SumRemove DEF R
    <3>7. SumFunctionOnSet(f, R) \in Int /\ SumFunctionOnSet(g, R) \in Int
      BY <3>2, SumInInt DEF R
    <3>8. f[p] \in Int /\ g[p] \in Int /\ h[p] = f[p] + g[p]
      OBVIOUS
    <3>9. SumFunctionOnSet(h, R) = SumFunctionOnSet(f, R) + SumFunctionOnSet(g, R)
      BY <3>3
    <3>10. QED
      BY <3>4, <3>5, <3>6, <3>7, <3>8, <3>9
  <2>3. QED
    BY <2>1, <2>2
<1> HIDE DEF Added
<1>2. S \in Added
  BY <1>1, SubsetInduction
<1>3. QED
  BY <1>2 DEF Added

LEMMA SumScaled ==
  ASSUME NEW f, NEW h, NEW c \in Int, NEW S, IsFiniteSet(S),
         \A x \in S : f[x] \in Int /\ h[x] = c * f[x]
  PROVE  SumFunctionOnSet(h, S) = c * SumFunctionOnSet(f, S)
<1> DEFINE Scaled == {T \in SUBSET S : SumFunctionOnSet(h, T) = c * SumFunctionOnSet(f, T)}
<1>1. ASSUME NEW T \in SUBSET S, \A U \in SUBSET T : U # T => U \in Scaled
      PROVE  T \in Scaled
  <2>1. CASE T = {}
    BY <2>1, SumEmpty
  <2>2. CASE T # {}
    <3>1. PICK p \in T : TRUE
      BY <2>2
    <3> DEFINE R == T \ {p}
    <3>2. IsFiniteSet(T) /\ IsFiniteSet(R)
      BY FS_Subset
    <3>3. R \in Scaled
      BY <1>1, <3>1
    <3> HIDE DEF R
    <3>4. SumFunctionOnSet(f, T) = f[p] + SumFunctionOnSet(f, R)
      BY <3>2, SumRemove DEF R
    <3>5. SumFunctionOnSet(h, T) = h[p] + SumFunctionOnSet(h, R)
      <4>1. \A x \in T : h[x] \in Int
        OBVIOUS
      <4>2. QED
        BY <3>2, <4>1, SumRemove DEF R
    <3>6. SumFunctionOnSet(f, R) \in Int
      BY <3>2, SumInInt DEF R
    <3>7. f[p] \in Int /\ h[p] = c * f[p]
      OBVIOUS
    <3>8. SumFunctionOnSet(h, R) = c * SumFunctionOnSet(f, R)
      BY <3>3
    <3>9. QED
      BY <3>4, <3>5, <3>6, <3>7, <3>8
  <2>3. QED
    BY <2>1, <2>2
<1> HIDE DEF Scaled
<1>2. S \in Scaled
  BY <1>1, SubsetInduction
<1>3. QED
  BY <1>2 DEF Scaled

LEMMA SumMonotone ==
  ASSUME NEW f, NEW g, NEW S, IsFiniteSet(S),
         \A x \in S : f[x] \in Int /\ g[x] \in Int /\ f[x] <= g[x]
  PROVE  SumFunctionOnSet(f, S) <= SumFunctionOnSet(g, S)
<1> DEFINE Ordered == {T \in SUBSET S : SumFunctionOnSet(f, T) <= SumFunctionOnSet(g, T)}
<1>1. ASSUME NEW T \in SUBSET S, \A U \in SUBSET T : U # T => U \in Ordered
      PROVE  T \in Ordered
  <2>1. CASE T = {}
    BY <2>1, SumEmpty
  <2>2. CASE T # {}
    <3>1. PICK p \in T : TRUE
      BY <2>2
    <3> DEFINE R == T \ {p}
    <3>2. IsFiniteSet(T) /\ IsFiniteSet(R)
      BY FS_Subset
    <3>3. R \in Ordered
      BY <1>1, <3>1
    <3> HIDE DEF R
    <3>4. SumFunctionOnSet(f, T) = f[p] + SumFunctionOnSet(f, R)
      BY <3>2, SumRemove DEF R
    <3>5. SumFunctionOnSet(g, T) = g[p] + SumFunctionOnSet(g, R)
      BY <3>2, SumRemove DEF R
    <3>6. SumFunctionOnSet(f, R) \in Int /\ SumFunctionOnSet(g, R) \in Int
      BY <3>2, SumInInt DEF R
    <3>7. f[p] \in Int /\ g[p] \in Int /\ f[p] <= g[p]
      OBVIOUS
    <3>8. SumFunctionOnSet(f, R) <= SumFunctionOnSet(g, R)
      BY <3>3
    <3>9. QED
      BY <3>4, <3>5, <3>6, <3>7, <3>8
  <2>3. QED
    BY <2>1, <2>2
<1> HIDE DEF Ordered
<1>2. S \in Ordered
  BY <1>1, SubsetInduction
<1>3. QED
  BY <1>2 DEF Ordered

LEMMA SumInNat ==
  ASSUME NEW f, NEW S, IsFiniteSet(S), \A x \in S : f[x] \in Nat
  PROVE  SumFunctionOnSet(f, S) \in Nat
<1> DEFINE Typed == {T \in SUBSET S : SumFunctionOnSet(f, T) \in Nat}
<1>1. ASSUME NEW T \in SUBSET S, \A U \in SUBSET T : U # T => U \in Typed
      PROVE  T \in Typed
  <2>1. CASE T = {}
    BY <2>1, SumEmpty
  <2>2. CASE T # {}
    <3>1. PICK p \in T : TRUE
      BY <2>2
    <3> DEFINE R == T \ {p}
    <3>2. IsFiniteSet(T) /\ IsFiniteSet(R)
      BY FS_Subset
    <3>3. R \in Typed
      BY <1>1, <3>1
    <3> HIDE DEF R
    <3>4. SumFunctionOnSet(f, T) = f[p] + SumFunctionOnSet(f, R)
      BY <3>2, SumRemove DEF R
    <3>5. SumFunctionOnSet(f, R) \in Nat /\ f[p] \in Nat
      BY <3>3
    <3>6. QED
      BY <3>4, <3>5
  <2>3. QED
    BY <2>1, <2>2
<1> HIDE DEF Typed
<1>2. S \in Typed
  BY <1>1, SubsetInduction
<1>3. QED
  BY <1>2 DEF Typed

LEMMA SumOfZeros ==
  ASSUME NEW f, NEW S, IsFiniteSet(S), \A x \in S : f[x] = 0
  PROVE  SumFunctionOnSet(f, S) = 0
<1> DEFINE Zeros == {T \in SUBSET S : SumFunctionOnSet(f, T) = 0}
<1>1. ASSUME NEW T \in SUBSET S, \A U \in SUBSET T : U # T => U \in Zeros
      PROVE  T \in Zeros
  <2>1. CASE T = {}
    BY <2>1, SumEmpty
  <2>2. CASE T # {}
    <3>1. PICK p \in T : TRUE
      BY <2>2
    <3> DEFINE R == T \ {p}
    <3>2. IsFiniteSet(T) /\ IsFiniteSet(R)
      BY FS_Subset
    <3>3. R \in Zeros
      BY <1>1, <3>1
    <3> HIDE DEF R
    <3>4. SumFunctionOnSet(f, T) = f[p] + SumFunctionOnSet(f, R)
      BY <3>2, SumRemove DEF R
    <3>5. SumFunctionOnSet(f, R) = 0 /\ f[p] = 0
      BY <3>3
    <3>6. QED
      BY <3>4, <3>5
  <2>3. QED
    BY <2>1, <2>2
<1> HIDE DEF Zeros
<1>2. S \in Zeros
  BY <1>1, SubsetInduction
<1>3. QED
  BY <1>2 DEF Zeros

(* One value changes: so does the sum, by the difference. *)
LEMMA SumUpdate ==
  ASSUME NEW f, NEW g, NEW S, IsFiniteSet(S), NEW x \in S,
         \A y \in S : f[y] \in Int /\ g[y] \in Int,
         \A y \in S \ {x} : g[y] = f[y]
  PROVE  SumFunctionOnSet(g, S) = SumFunctionOnSet(f, S) + g[x] - f[x]
<1> DEFINE R == S \ {x}
<1>1. IsFiniteSet(R)
  BY FS_Subset
<1>2. SumFunctionOnSet(f, S) = f[x] + SumFunctionOnSet(f, R)
  BY SumRemove
<1>3. SumFunctionOnSet(g, S) = g[x] + SumFunctionOnSet(g, R)
  BY SumRemove
<1>4. SumFunctionOnSet(g, R) = SumFunctionOnSet(f, R)
  BY <1>1, SumSame
<1>5. SumFunctionOnSet(f, R) \in Int
  BY <1>1, SumInInt
<1>6. f[x] \in Int /\ g[x] \in Int
  OBVIOUS
<1> HIDE DEF R
<1>7. QED
  BY <1>2, <1>3, <1>4, <1>5, <1>6

LEMMA SumIncrement ==
  ASSUME NEW f, NEW g, NEW S, IsFiniteSet(S), NEW x, NEW d \in Int,
         \A y \in S : f[y] \in Int /\ g[y] = IF y = x THEN f[y] + d ELSE f[y]
  PROVE  SumFunctionOnSet(g, S) = SumFunctionOnSet(f, S) + (IF x \in S THEN d ELSE 0)
<1>1. SumFunctionOnSet(f, S) \in Int
  BY SumInInt
<1>2. CASE x \in S
  <2>1. \A y \in S : f[y] \in Int /\ g[y] \in Int
    OBVIOUS
  <2>2. \A y \in S \ {x} : g[y] = f[y]
    OBVIOUS
  <2>3. SumFunctionOnSet(g, S) = SumFunctionOnSet(f, S) + g[x] - f[x]
    BY <1>2, <2>1, <2>2, SumUpdate
  <2>4. f[x] \in Int /\ g[x] = f[x] + d
    BY <1>2
  <2>5. QED
    BY <1>1, <1>2, <2>3, <2>4
<1>3. CASE x \notin S
  <2>1. \A y \in S : f[y] \in Int /\ g[y] = f[y]
    BY <1>3
  <2>2. SumFunctionOnSet(g, S) = SumFunctionOnSet(f, S)
    BY <2>1, SumSame
  <2>3. QED
    BY <1>1, <1>3, <2>2
<1>4. QED
  BY <1>2, <1>3
=============================================================================

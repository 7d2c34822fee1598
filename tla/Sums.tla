-------------------------------- MODULE Sums --------------------------------
(***************************************************************************)
(* Sums of integers over a finite set: SumFunctionOnSet of the module      *)
(* Functions, which is a recursive function on the subsets of the set.     *)
(* The induction is a minimal counterexample under strict inclusion.       *)
(***************************************************************************)
EXTENDS Functions, FiniteSetTheorems, WellFoundedInduction, TLAPS

Pick(T) == CHOOSE x \in T : TRUE

\* g adds up f over each subset of S, element by element.
Adds(g, f, S) ==
  \A T \in SUBSET S : g[T] = IF T = {} THEN 0 ELSE f[Pick(T)] + g[T \ {Pick(T)}]

\* A family of subsets of a finite set has a minimal member.
LEMMA MinimalMember ==
  ASSUME NEW S, IsFiniteSet(S), NEW Family \in SUBSET SUBSET S, Family # {}
  PROVE  \E T \in Family : \A U \in Family : U \subseteq T => U = T
<1>1. IsWellFoundedOn(StrictSubsetOrdering(S), SUBSET S)
  BY FS_StrictSubsetOrderingWellFounded, FS_FiniteSubsetsOfFinite
<1>2. PICK T \in Family : \A U \in Family : ~ (<<U, T>> \in StrictSubsetOrdering(S))
  <2> HIDE DEF StrictSubsetOrdering
  <2> QED BY <1>1, WFMin
<1>3. ASSUME NEW U \in Family, U \subseteq T PROVE U = T
  <2>1. <<U, T>> \in (SUBSET S) \X (SUBSET S)
    OBVIOUS
  <2> QED BY <1>2, <1>3, <2>1 DEF StrictSubsetOrdering
<1> QED BY <1>3

\* An element is picked, and the rest is smaller.
LEMMA PickFacts ==
  ASSUME NEW T, T # {}
  PROVE  /\ Pick(T) \in T
         /\ T \ {Pick(T)} \subseteq T /\ T \ {Pick(T)} # T
<1>1. Pick(T) \in T
  BY DEF Pick
<1> QED BY <1>1

LEMMA AddsNothing ==
  ASSUME NEW S, NEW f, NEW g, Adds(g, f, S)
  PROVE  g[{}] = 0
<1>1. {} \in SUBSET S
  OBVIOUS
<1> QED BY <1>1, SMT DEF Adds

\* There is one way to add up.
LEMMA AddsUnique ==
  ASSUME NEW S, IsFiniteSet(S), NEW f, NEW g, NEW h, Adds(g, f, S), Adds(h, f, S)
  PROVE  \A T \in SUBSET S : g[T] = h[T]
<1> DEFINE Bad == {T \in SUBSET S : g[T] # h[T]}
<1> SUFFICES ASSUME Bad # {} PROVE FALSE
  OBVIOUS
<1>0. Bad \in SUBSET SUBSET S
  OBVIOUS
<1>1. PICK T \in Bad : \A U \in Bad : U \subseteq T => U = T
  <2> HIDE DEF Bad
  <2> QED BY <1>0, MinimalMember
<1>2. T # {}
  BY <1>1 DEF Adds
<1>3. T \ {Pick(T)} \notin Bad /\ T \ {Pick(T)} \in SUBSET S
  BY <1>1, <1>2, PickFacts
<1> QED BY <1>1, <1>2, <1>3 DEF Adds

\* There is a way to add up.
LEMMA AddsExists ==
  ASSUME NEW S, IsFiniteSet(S), NEW f
  PROVE  \E g : Adds(g, f, S)
<1> DEFINE Bad == {T \in SUBSET S : ~ \E g : Adds(g, f, T)}
           Way(U) == CHOOSE g : Adds(g, f, U)
<1> SUFFICES ASSUME Bad # {} PROVE FALSE
  <2>1. S \in SUBSET S
    OBVIOUS
  <2> QED BY <2>1
<1>0. Bad \in SUBSET SUBSET S
  OBVIOUS
<1>1. PICK T \in Bad : \A U \in Bad : U \subseteq T => U = T
  <2> HIDE DEF Bad
  <2> QED BY <1>0, MinimalMember
<1>2. ASSUME NEW U \in SUBSET T, U # T  PROVE Adds(Way(U), f, U)
  <2>1. U \notin Bad /\ U \in SUBSET S
    BY <1>1, <1>2
  <2>2. \E g : Adds(g, f, U)
    BY <2>1
  <2> QED BY <2>2
<1> HIDE DEF Way
<1> DEFINE g == [U \in SUBSET T |->
                   IF U = T
                   THEN IF T = {} THEN 0
                        ELSE f[Pick(T)] + Way(T \ {Pick(T)})[T \ {Pick(T)}]
                   ELSE Way(U)[U]]
<1>3. ASSUME NEW U \in SUBSET T
      PROVE  g[U] = IF U = {} THEN 0 ELSE f[Pick(U)] + g[U \ {Pick(U)}]
  <2>1. CASE U = {}
    <3>1. U # T => Way(U)[U] = 0
      BY <1>2, <2>1 DEF Adds
    <3> QED BY <2>1, <3>1
  <2>2. CASE U # {}
    <3> DEFINE V == U \ {Pick(U)}
    <3>1. V \in SUBSET U /\ V # U /\ V \in SUBSET T /\ V # T
      BY <2>2, PickFacts
    <3>2. g[V] = Way(V)[V]
      BY <3>1
    <3>3. CASE U = T
      BY <2>2, <3>2, <3>3
    <3>4. CASE U # T
      <4>1. Adds(Way(U), f, U) /\ Adds(Way(V), f, V)
        BY <1>2, <3>1, <3>4
      <4>2. Adds(Way(U), f, V)
        BY <3>1, <4>1 DEF Adds
      <4>3. IsFiniteSet(V)
        BY <1>1, <3>1, FS_Subset
      <4>4. Way(U)[V] = Way(V)[V]
        BY <4>1, <4>2, <4>3, AddsUnique
      <4>5. Way(U)[U] = f[Pick(U)] + Way(U)[V]
        BY <2>2, <4>1 DEF Adds
      <4> QED BY <2>2, <3>2, <3>4, <4>4, <4>5
    <3> QED BY <3>3, <3>4
  <2> QED BY <2>1, <2>2
<1> HIDE DEF g
<1>4. Adds(g, f, T)
  BY <1>3 DEF Adds
<1> QED BY <1>1, <1>4

\* SumFunctionOnSet is defined by that way of adding up.
LEMMA SumAdds ==
  ASSUME NEW S, IsFiniteSet(S), NEW f
  PROVE  \E g : Adds(g, f, S) /\ SumFunctionOnSet(f, S) = g[S]
<1> DEFINE Rec(h) ==
      h = [T \in SUBSET S |-> IF T = {} THEN 0 ELSE f[Pick(T)] + h[T \ {Pick(T)}]]
<1>1. SumFunctionOnSet(f, S) = (CHOOSE h : Rec(h))[S]
  BY DEF SumFunctionOnSet, FoldFunctionOnSet, MapThenFoldSet, Pick
<1>2. PICK g : Adds(g, f, S)
  BY AddsExists
<1> DEFINE h == [T \in SUBSET S |-> g[T]]
<1>3. \A T \in SUBSET S : T # {} => T \ {Pick(T)} \in SUBSET S
  OBVIOUS
<1>4. Rec(h)
  BY <1>2, <1>3 DEF Adds
<1> DEFINE it == CHOOSE k : Rec(k)
<1>5. Rec(it)
  <2> HIDE DEF Rec, h
  <2> QED BY <1>4
<1>6. Adds(it, f, S)
  <2> HIDE DEF it
  <2> QED BY <1>5 DEF Adds
<1> HIDE DEF Rec
<1> QED BY <1>1, <1>6

\* A sum of integers is an integer, and a sum of zeroes is zero.
LEMMA SumIsInt ==
  ASSUME NEW S, IsFiniteSet(S), NEW f, \A x \in S : f[x] \in Int
  PROVE  /\ SumFunctionOnSet(f, S) \in Int
         /\ (\A x \in S : f[x] = 0) => SumFunctionOnSet(f, S) = 0
<1>1. PICK g : Adds(g, f, S) /\ SumFunctionOnSet(f, S) = g[S]
  BY SumAdds
<1> DEFINE Good(T) == g[T] \in Int /\ ((\A x \in S : f[x] = 0) => g[T] = 0)
           Bad == {T \in SUBSET S : ~Good(T)}
<1>2. Bad = {}
  <2> SUFFICES ASSUME Bad # {} PROVE FALSE
    OBVIOUS
  <2>0. Bad \in SUBSET SUBSET S
    OBVIOUS
  <2>1. PICK T \in Bad : \A U \in Bad : U \subseteq T => U = T
    <3> HIDE DEF Bad
    <3> QED BY <2>0, MinimalMember
  <2>2. T # {}
    <3>1. g[{}] = 0
      BY <1>1, AddsNothing
    <3>2. Good({})
      BY <3>1
    <3>3. ~Good(T)
      BY <2>1
    <3> HIDE DEF Good
    <3> QED BY <3>2, <3>3
  <2>3. Good(T \ {Pick(T)}) /\ Pick(T) \in S
    BY <2>1, <2>2, PickFacts
  <2>4. g[T] = f[Pick(T)] + g[T \ {Pick(T)}]
    BY <1>1, <2>1, <2>2 DEF Adds
  <2> QED BY <2>1, <2>3, <2>4
<1>3. S \in SUBSET S
  OBVIOUS
<1> QED BY <1>1, <1>2, <1>3

\* Functions that differ in one element of the set: the sums differ by that.
LEMMA SumUpdate ==
  ASSUME NEW S, IsFiniteSet(S), NEW x \in S,
         NEW f, \A y \in S : f[y] \in Int,
         NEW g, g[x] \in Int, \A y \in S \ {x} : g[y] = f[y]
  PROVE  SumFunctionOnSet(g, S) = SumFunctionOnSet(f, S) + (g[x] - f[x])
<1>1. PICK a : Adds(a, f, S) /\ SumFunctionOnSet(f, S) = a[S]
  BY SumAdds
<1>2. PICK b : Adds(b, g, S) /\ SumFunctionOnSet(g, S) = b[S]
  BY SumAdds
<1> DEFINE Good(T) == /\ a[T] \in Int
                      /\ b[T] = IF x \in T THEN a[T] + (g[x] - f[x]) ELSE a[T]
           Bad == {T \in SUBSET S : ~Good(T)}
<1>3. Bad = {}
  <2> SUFFICES ASSUME Bad # {} PROVE FALSE
    OBVIOUS
  <2>0. Bad \in SUBSET SUBSET S
    OBVIOUS
  <2>1. PICK T \in Bad : \A U \in Bad : U \subseteq T => U = T
    <3> HIDE DEF Bad
    <3> QED BY <2>0, MinimalMember
  <2>2. T # {}
    <3>1. a[{}] = 0 /\ b[{}] = 0
      BY <1>1, <1>2, AddsNothing
    <3>2. Good({})
      BY <3>1
    <3>3. ~Good(T)
      BY <2>1
    <3> HIDE DEF Good
    <3> QED BY <3>2, <3>3
  <2> DEFINE p == Pick(T)
             R == T \ {p}
  <2>3. Good(R) /\ p \in S /\ p \in T
    BY <2>1, <2>2, PickFacts
  <2>4. a[T] = f[p] + a[R] /\ b[T] = g[p] + b[R]
    BY <1>1, <1>2, <2>1, <2>2 DEF Adds
  <2>5. f[p] \in Int /\ (p # x => g[p] = f[p]) /\ (p = x => x \notin R)
        /\ (p # x => (x \in R <=> x \in T))
    BY <2>3
  <2> HIDE DEF p, R
  <2>6. Good(T)
    <3>1. CASE p = x
      BY <2>3, <2>4, <2>5, <3>1
    <3>2. CASE p # x
      BY <2>3, <2>4, <2>5, <3>2
    <3> QED BY <3>1, <3>2
  <2> QED BY <2>1, <2>6
<1>4. S \in SUBSET S
  OBVIOUS
<1> QED BY <1>1, <1>2, <1>3, <1>4
=============================================================================

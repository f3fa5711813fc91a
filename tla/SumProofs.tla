------------------------------- MODULE SumProofs -------------------------------
(***************************************************************************)
(* Sums over finite sets: the equations of the library's SumFunctionOnSet, *)
(* by which the ledger and the queue of withdrawals are added up.  The     *)
(* library defines it by recursion over subsets, so that it has a value at *)
(* all, that the order does not matter and what an element contributes are *)
(* each an induction.  The library's theorem that strict inclusion of      *)
(* finite sets is well founded provides it without naming a predicate.     *)
(***************************************************************************)
EXTENDS Functions, FiniteSets, FiniteSetTheorems, TLAPS

(* Induction over the subsets of a finite set, stated with a set of good    *)
(* ones: a set that is not good would have a smallest subset that is not.   *)
LEMMA Induct ==
    ASSUME NEW S, IsFiniteSet(S), NEW Good \in SUBSET (SUBSET S),
           \A T \in SUBSET S : (\A U \in SUBSET T : U # T => U \in Good) => T \in Good
    PROVE  \A T \in SUBSET S : T \in Good
<1> DEFINE Bad == (SUBSET S) \ Good
<1>1. IsWellFoundedOn(StrictSubsetOrdering(S), SUBSET S)
  BY FS_StrictSubsetOrderingWellFounded, FS_FiniteSubsetsOfFinite
<1>2. SUFFICES ASSUME Bad # {} PROVE FALSE
  OBVIOUS
<1>3. PICK T \in Bad : \A U \in Bad : <<U, T>> \notin StrictSubsetOrdering(S)
  <2> HIDE DEF Bad
  <2>1. Bad \subseteq SUBSET S
    BY DEF Bad
  <2> QED  BY <1>1, <1>2, <2>1, WFMin
<1>4. \A U \in SUBSET T : U # T => U \in Good
  BY <1>3 DEF StrictSubsetOrdering
<1> QED  BY <1>4

-------------------------------------------------------------------------------
(* The library's sum takes some element of what is left, again and again.   *)

First(s) == CHOOSE x \in s : TRUE

(* h[T] is the sum of f over each T \subseteq S, taken in that order. *)
Sums(h, f, S) ==
    h = [s \in SUBSET S |-> IF s = {} THEN 0 ELSE f[First(s)] + h[s \ {First(s)}]]

(* There is one to take. *)
LEMMA FirstIn == \A s : s # {} => First(s) \in s
BY DEF First

(* Two functions that sum f agree on whatever both of them are about. *)
LEMMA SumsAgree ==
    ASSUME NEW f, NEW A, NEW B, NEW g, NEW h, IsFiniteSet(A), Sums(g, f, A), Sums(h, f, B),
           NEW V \in SUBSET A, V \subseteq B
    PROVE  g[V] = h[V]
<1> DEFINE Good == {U \in SUBSET A : U \subseteq B => g[U] = h[U]}
<1>1. ASSUME NEW T \in SUBSET A, \A U \in SUBSET T : U # T => U \in Good
      PROVE  T \in Good
  <2>1. SUFFICES ASSUME T \subseteq B PROVE g[T] = h[T]
    OBVIOUS
  <2>2. CASE T = {}
    BY <2>1, <2>2 DEF Sums
  <2>3. CASE T # {}
    <3>1. First(T) \in T
      BY <2>3, FirstIn
    <3>2. T \ {First(T)} \in Good
      BY <1>1, <3>1
    <3>3. g[T] = f[First(T)] + g[T \ {First(T)}] /\ h[T] = f[First(T)] + h[T \ {First(T)}]
      BY <2>1, <2>3 DEF Sums
    <3> QED  BY <2>1, <3>2, <3>3
  <2> QED  BY <2>2, <2>3
<1> HIDE DEF Good
<1>2. Good \in SUBSET (SUBSET A)
  BY DEF Good
<1>3. V \in Good
  BY <1>1, <1>2, Induct
<1> QED  BY <1>3 DEF Good

(* There is one for every finite set: extend those of the smaller subsets.  *)
LEMMA SumsExist ==
    ASSUME NEW f, NEW S, IsFiniteSet(S)
    PROVE  \E h : Sums(h, f, S)
<1> DEFINE Good == {U \in SUBSET S : \E h : Sums(h, f, U)}
<1>1. ASSUME NEW T \in SUBSET S, \A U \in SUBSET T : U # T => U \in Good
      PROVE  T \in Good
  <2> DEFINE of(U) == CHOOSE h : Sums(h, f, U)
             g == [s \in SUBSET T |->
                    IF s = {} THEN 0 ELSE f[First(s)] + of(s \ {First(s)})[s \ {First(s)}]]
  <2>1. \A U \in SUBSET T : U # T => Sums(of(U), f, U)
    BY <1>1
  <2> HIDE DEF of
  <2>2. ASSUME NEW V \in SUBSET T, V # T
        PROVE  g[V] = of(V)[V]
    <3>1. CASE V = {}
      BY <3>1, <2>1, <2>2 DEF Sums
    <3>2. CASE V # {}
      <4> DEFINE W == V \ {First(V)}
      <4>1. First(V) \in V
        BY <3>2, FirstIn
      <4>2. Sums(of(V), f, V) /\ Sums(of(W), f, W)
        BY <2>1, <2>2, <4>1
      <4>3. IsFiniteSet(V)
        BY FS_Subset
      <4>4. of(V)[W] = of(W)[W]
        BY <4>2, <4>3, SumsAgree
      <4>5. of(V)[V] = f[First(V)] + of(V)[W]
        BY <4>2, <3>2 DEF Sums
      <4>6. g[V] = f[First(V)] + of(W)[W]
        BY <3>2
      <4> QED  BY <4>4, <4>5, <4>6
    <3> QED  BY <3>1, <3>2
  <2>3. \A s \in SUBSET T : s # {} => g[s \ {First(s)}] = of(s \ {First(s)})[s \ {First(s)}]
    <3>1. \A s \in SUBSET T : s # {} => s \ {First(s)} \in SUBSET T /\ s \ {First(s)} # T
      BY FirstIn
    <3> HIDE DEF g
    <3> QED  BY <2>2, <3>1
  <2>4. Sums(g, f, T)
    <3>1. g = [s \in SUBSET T |-> IF s = {} THEN 0 ELSE f[First(s)] + g[s \ {First(s)}]]
      <4>1. g = [s \in SUBSET T |-> g[s]]
        OBVIOUS
      <4>2. \A s \in SUBSET T : g[s] = IF s = {} THEN 0 ELSE f[First(s)] + g[s \ {First(s)}]
        <5> TAKE s \in SUBSET T
        <5>1. g[s] = IF s = {} THEN 0 ELSE f[First(s)] + of(s \ {First(s)})[s \ {First(s)}]
          OBVIOUS
        <5> HIDE DEF g
        <5> QED  BY <5>1, <2>3
      <4> HIDE DEF g
      <4> QED  BY <4>1, <4>2
    <3> QED  BY <3>1 DEF Sums
  <2> QED  BY <2>4
<1> HIDE DEF Good
<1>2. Good \in SUBSET (SUBSET S)
  BY DEF Good
<1>3. S \in Good
  BY <1>1, <1>2, Induct
<1> QED  BY <1>3 DEF Good

(* What the library's sum is by its definition. *)
LEMMA SumOfSums ==
    ASSUME NEW f, NEW S, IsFiniteSet(S)
    PROVE  \E h : Sums(h, f, S) /\ SumFunctionOnSet(f, S) = h[S]
<1>1. SumFunctionOnSet(f, S) = (CHOOSE h : Sums(h, f, S))[S]
  BY DEF SumFunctionOnSet, FoldFunctionOnSet, MapThenFoldSet, Sums, First
<1> QED  BY <1>1, SumsExist

-------------------------------------------------------------------------------
(* What the proofs about the books and the queue cite.                      *)

(* Nothing sums to nothing. *)
LEMMA SumOfNone == \A f : SumFunctionOnSet(f, {}) = 0
<1> TAKE f
<1>1. IsFiniteSet({})
  BY FS_EmptySet
<1>2. PICK h : Sums(h, f, {}) /\ SumFunctionOnSet(f, {}) = h[{}]
  BY <1>1, SumOfSums
<1> QED  BY <1>2 DEF Sums

(* A function that sums f over a set sums it over each part.               *)
LEMMA SumOfPart ==
    ASSUME NEW f, NEW S, IsFiniteSet(S), NEW h, Sums(h, f, S), NEW T \in SUBSET S
    PROVE  SumFunctionOnSet(f, T) = h[T]
<1>1. IsFiniteSet(T)
  BY FS_Subset
<1>2. PICK g : Sums(g, f, T) /\ SumFunctionOnSet(f, T) = g[T]
  BY <1>1, SumOfSums
<1> QED  BY <1>1, <1>2, SumsAgree

(* A sum of members of a set closed under addition is a member of it. *)
LEMMA SumStaysIn ==
    ASSUME NEW f, NEW S, IsFiniteSet(S), NEW R, 0 \in R, \A a, b \in R : a + b \in R,
           \A x \in S : f[x] \in R
    PROVE  SumFunctionOnSet(f, S) \in R
<1>1. PICK h : Sums(h, f, S) /\ SumFunctionOnSet(f, S) = h[S]
  BY SumOfSums
<1> DEFINE Good == {T \in SUBSET S : h[T] \in R}
<1>2. ASSUME NEW T \in SUBSET S, \A U \in SUBSET T : U # T => U \in Good
      PROVE  T \in Good
  <2>1. CASE T = {}
    BY <1>1, <2>1 DEF Sums
  <2>2. CASE T # {}
    <3>1. First(T) \in T
      BY <2>2, FirstIn
    <3>2. T \ {First(T)} \in Good
      BY <1>2, <3>1
    <3>3. h[T] = f[First(T)] + h[T \ {First(T)}]
      BY <1>1, <2>2 DEF Sums
    <3> QED  BY <3>1, <3>2, <3>3
  <2> QED  BY <2>1, <2>2
<1> HIDE DEF Good
<1>3. Good \in SUBSET (SUBSET S)
  BY DEF Good
<1>4. S \in Good
  BY <1>2, <1>3, Induct
<1> QED  BY <1>1, <1>4 DEF Good

(* Sums of integers, and of naturals. *)
LEMMA SumIsInt ==
    ASSUME NEW f, NEW S, IsFiniteSet(S), \A x \in S : f[x] \in Int
    PROVE  SumFunctionOnSet(f, S) \in Int
BY SumStaysIn

LEMMA SumIsNat ==
    ASSUME NEW f, NEW S, IsFiniteSet(S), \A x \in S : f[x] \in Nat
    PROVE  SumFunctionOnSet(f, S) \in Nat
<1>1. 0 \in Nat /\ \A a, b \in Nat : a + b \in Nat
  OBVIOUS
<1> QED  BY <1>1, SumStaysIn

(* Any element may be taken out first. *)
LEMMA SumWithout ==
    ASSUME NEW f, NEW S, IsFiniteSet(S), \A x \in S : f[x] \in Int, NEW y \in S
    PROVE  SumFunctionOnSet(f, S) = f[y] + SumFunctionOnSet(f, S \ {y})
<1>1. PICK h : Sums(h, f, S) /\ SumFunctionOnSet(f, S) = h[S]
  BY SumOfSums
<1>2. \A T \in SUBSET S : h[T] \in Int
  <2> TAKE T \in SUBSET S
  <2>1. IsFiniteSet(T)
    BY FS_Subset
  <2> QED  BY <1>1, <2>1, SumIsInt, SumOfPart
<1> DEFINE Good == {T \in SUBSET S : \A x \in T : h[T] = f[x] + h[T \ {x}]}
<1>3. ASSUME NEW T \in SUBSET S, \A U \in SUBSET T : U # T => U \in Good
      PROVE  T \in Good
  <2> SUFFICES ASSUME NEW x \in T PROVE h[T] = f[x] + h[T \ {x}]
    OBVIOUS
  <2> DEFINE c == First(T)
  <2>1. c \in T
    BY FirstIn
  <2>2. h[T] = f[c] + h[T \ {c}]
    BY <1>1 DEF Sums
  <2> HIDE DEF c
  <2>3. CASE c # x
    <3>1. T \ {c} \in Good /\ T \ {x} \in Good
      BY <1>3, <2>1
    <3>2. h[T \ {c}] = f[x] + h[(T \ {c}) \ {x}]
      BY <2>3, <3>1
    <3>3. h[T \ {x}] = f[c] + h[(T \ {x}) \ {c}]
      BY <2>1, <2>3, <3>1
    <3>4. (T \ {x}) \ {c} = (T \ {c}) \ {x}
      OBVIOUS
    <3> DEFINE rest == h[(T \ {c}) \ {x}]
    <3>5. rest \in Int /\ f[x] \in Int /\ f[c] \in Int
      BY <1>2, <2>1
    <3> HIDE DEF rest
    <3>6. h[T] = f[c] + (f[x] + rest) /\ h[T \ {x}] = f[c] + rest
      BY <2>2, <3>2, <3>3, <3>4 DEF rest
    <3> QED  BY <3>5, <3>6
  <2> QED  BY <2>2, <2>3
<1> HIDE DEF Good
<1>4. Good \in SUBSET (SUBSET S)
  BY DEF Good
<1>5. S \in Good
  BY <1>3, <1>4, Induct
<1>6. h[S] = f[y] + h[S \ {y}]
  BY <1>5 DEF Good
<1> QED  BY <1>1, <1>6, SumOfPart

(* One more element adds its own. *)
LEMMA SumWith ==
    ASSUME NEW f, NEW S, IsFiniteSet(S), NEW y, y \notin S, \A x \in S \cup {y} : f[x] \in Int
    PROVE  SumFunctionOnSet(f, S \cup {y}) = f[y] + SumFunctionOnSet(f, S)
<1>1. IsFiniteSet(S \cup {y})
  BY FS_AddElement
<1>2. (S \cup {y}) \ {y} = S
  OBVIOUS
<1> QED  BY <1>1, <1>2, SumWithout

(* A sum depends on nothing outside the set summed over. *)
LEMMA SumSame ==
    ASSUME NEW f, NEW g, NEW S, IsFiniteSet(S), \A x \in S : f[x] = g[x]
    PROVE  SumFunctionOnSet(f, S) = SumFunctionOnSet(g, S)
<1>1. PICK h : Sums(h, f, S) /\ SumFunctionOnSet(f, S) = h[S]
  BY SumOfSums
<1>2. Sums(h, g, S)
  <2>1. \A T \in SUBSET S : T # {} => f[First(T)] = g[First(T)]
    BY FirstIn
  <2> QED  BY <1>1, <2>1 DEF Sums
<1> QED  BY <1>1, <1>2, SumOfPart
===============================================================================
